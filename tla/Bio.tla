--------------------------------- MODULE Bio ---------------------------------
(***************************************************************************)
(* The buffer cache of kernel/bio.c with the sleep locks of sleeplock.c.   *)
(* Processes read blocks, change them, and write, pin or unpin them the    *)
(* way log.c does: a changed buffer is written or pinned before it is      *)
(* released, and unpinned once it is on the disk.                          *)
(*                                                                         *)
(* A step is a critical section of bcache.lock or of the spinlock in a     *)
(* sleep lock.  The disk transfers take place under the buffer's sleep     *)
(* lock and are one step (module SyncDisk).                                *)
(***************************************************************************)
EXTENDS Integers, FiniteSets

CONSTANTS
  Proc, Block, Data, None,
  NBUF,       \* param.h: number of buffers
  MaxPinned,  \* bound: blocks pinned at a time (log.c: LOGSIZE)
  MaxReads    \* bound: calls of bread per process

ASSUME BioAssumption ==
  /\ IsFiniteSet(Proc) /\ None \notin Proc \cup Block /\ Data # {}
  /\ NBUF \in Nat \ {0} /\ MaxPinned \in Nat /\ MaxReads \in Nat

Buf == 1..NBUF

VARIABLES
  blockno, valid, refcnt, data,  \* struct buf
  locked,    \* b->lock: the process that holds it (locked, pid), or None
  lru,       \* the linked list, head.next first
  disk,      \* contents of the blocks on the disk
  pinned,    \* blocks bpin has been called on and bunpin has not
  pc, b,     \* control state of each process and its buffer
  dirty,     \* the process has changed its buffer and not yet written or logged it
  reads      \* bound counter

cache == <<blockno, valid, refcnt, data, locked, lru>>
vars  == <<cache, disk, pinned, pc, b, dirty, reads>>

\* An arbitrary first content of buffers and blocks; Change chooses new ones.
Zero == CHOOSE d \in Data : TRUE

\* binit
Init ==
  /\ blockno = [i \in Buf |-> None] /\ valid = [i \in Buf |-> FALSE]
  /\ refcnt = [i \in Buf |-> 0]
  /\ data = [i \in Buf |-> Zero]
  /\ locked = [i \in Buf |-> None]
  /\ lru = [i \in Buf |-> NBUF + 1 - i]
  /\ disk = [k \in Block |-> Zero]
  /\ pinned = {}
  /\ pc = [p \in Proc |-> "idle"] /\ b = [p \in Proc |-> 1]
  /\ dirty = [p \in Proc |-> FALSE]
  /\ reads = [p \in Proc |-> 0]

Goto(p, l) == pc' = [pc EXCEPT ![p] = l]

\* mutant: a buffer that is still being read is not found
CachedValid(k) == {i \in Buf : blockno[i] = k /\ valid[i]}

Cached(k) == {i \in Buf : blockno[i] = k}

\* mutant: recycles a buffer that is not locked, whatever its refcnt
UnusedUnlocked == {i \in Buf : locked[i] = None}

Unused == {i \in Buf : refcnt[i] = 0}

\* The unused buffer nearest to head.prev.
Victim ==
  lru[CHOOSE i \in 1..NBUF :
        lru[i] \in Unused /\ \A j \in (i + 1)..NBUF : lru[j] \notin Unused]

\* mutant: the recycled buffer keeps valid
RecycledValid(i) == valid

\* b->valid = 0
Recycled(i) == [valid EXCEPT ![i] = FALSE]

\* bget, up to the call of acquiresleep.
Bget(p, k) ==
  /\ pc[p] = "idle" /\ reads[p] < MaxReads
  /\ reads' = [reads EXCEPT ![p] = @ + 1]
  /\ IF Cached(k) # {}
     THEN LET i == CHOOSE i \in Cached(k) : TRUE IN
            /\ refcnt' = [refcnt EXCEPT ![i] = @ + 1]
            /\ b' = [b EXCEPT ![p] = i]
            /\ Goto(p, "lock")
            /\ UNCHANGED <<blockno, valid>>
     ELSE IF Unused # {}
     THEN /\ blockno' = [blockno EXCEPT ![Victim] = k]
          /\ valid' = Recycled(Victim)
          /\ refcnt' = [refcnt EXCEPT ![Victim] = 1]
          /\ b' = [b EXCEPT ![p] = Victim]
          /\ Goto(p, "lock")
     ELSE Goto(p, "panic") /\ UNCHANGED <<blockno, valid, refcnt, b>>
  /\ UNCHANGED <<data, locked, lru, disk, pinned, dirty>>

\* acquiresleep
AcquireSleep(p) ==
  /\ pc[p] = "lock"
  /\ IF locked[b[p]] # None THEN Goto(p, "asleep") /\ UNCHANGED locked
     ELSE Goto(p, "locked") /\ locked' = [locked EXCEPT ![b[p]] = p]
  /\ UNCHANGED <<blockno, valid, refcnt, data, lru, disk, pinned, b, dirty, reads>>

\* The rest of bread.
Bread(p) ==
  /\ pc[p] = "locked"
  /\ IF valid[b[p]] THEN UNCHANGED <<valid, data>>
     ELSE /\ data' = [data EXCEPT ![b[p]] = disk[blockno[b[p]]]]
          /\ valid' = [valid EXCEPT ![b[p]] = TRUE]
  /\ Goto(p, "hold")
  /\ UNCHANGED <<blockno, refcnt, locked, lru, disk, pinned, b, dirty, reads>>

\* The caller changes b->data.
Change(p) ==
  /\ pc[p] = "hold"
  /\ \E d \in Data : data' = [data EXCEPT ![b[p]] = d]
  /\ dirty' = [dirty EXCEPT ![p] = TRUE]
  /\ UNCHANGED <<blockno, valid, refcnt, locked, lru, disk, pinned, pc, b, reads>>

Bwrite(p) ==
  /\ pc[p] = "hold"
  /\ IF locked[b[p]] # p THEN Goto(p, "panic") /\ UNCHANGED disk
     ELSE disk' = [disk EXCEPT ![blockno[b[p]]] = data[b[p]]] /\ UNCHANGED pc
  /\ dirty' = [dirty EXCEPT ![p] = FALSE]
  /\ UNCHANGED <<cache, pinned, b, reads>>

\* log_write: the first time a block is logged it is pinned.
Bpin(p) ==
  /\ pc[p] = "hold" /\ dirty[p]
  /\ \/ blockno[b[p]] \in pinned /\ UNCHANGED <<refcnt, pinned>>
     \/ /\ blockno[b[p]] \notin pinned /\ Cardinality(pinned) < MaxPinned
        /\ refcnt' = [refcnt EXCEPT ![b[p]] = @ + 1]
        /\ pinned' = pinned \cup {blockno[b[p]]}
  /\ dirty' = [dirty EXCEPT ![p] = FALSE]
  /\ UNCHANGED <<blockno, valid, data, locked, lru, disk, pc, b, reads>>

\* install_trans, after its bwrite.  bunpin tests nothing: that the block is
\* pinned is up to its caller, and holds in a commit, not in a recovery, which
\* module Log has.
Bunpin(p) ==
  /\ pc[p] = "hold" /\ blockno[b[p]] \in pinned
  /\ disk[blockno[b[p]]] = data[b[p]]
  /\ refcnt' = [refcnt EXCEPT ![b[p]] = @ - 1]
  /\ pinned' = pinned \ {blockno[b[p]]}
  /\ UNCHANGED <<blockno, valid, data, locked, lru, disk, pc, b, dirty, reads>>

\* mutant: releasesleep without wakeup
WokenNone(i) == pc

\* wakeup(lk)
Woken(i) ==
  [q \in Proc |-> IF pc[q] = "asleep" /\ b[q] = i THEN "lock" ELSE pc[q]]

\* brelse: releasesleep, by a caller that has written or logged what it changed
\* (all but writei after a failed copy, fs.c line 497),
BrelseUnlock(p) ==
  /\ pc[p] = "hold" /\ ~dirty[p]
  /\ IF locked[b[p]] # p THEN Goto(p, "panic") /\ UNCHANGED locked
     ELSE /\ locked' = [locked EXCEPT ![b[p]] = None]
          /\ pc' = [Woken(b[p]) EXCEPT ![p] = "release"]
  /\ UNCHANGED <<blockno, valid, refcnt, data, lru, disk, pinned, b, dirty, reads>>

\* mutant: forgets the reference
DroppedNone(i) == refcnt

\* mutant: drops the reference twice
DroppedTwice(i) == [refcnt EXCEPT ![i] = @ - 2]

\* b->refcnt--
Dropped(i) == [refcnt EXCEPT ![i] = @ - 1]

\* The list after b is unlinked and put behind bcache.head.
MovedFirst(i) ==
  LET n == CHOOSE n \in 1..NBUF : lru[n] = i IN
  [k \in 1..NBUF |-> IF k = 1 THEN i ELSE IF k <= n THEN lru[k - 1] ELSE lru[k]]

\* and then, under bcache.lock, the reference; an unused buffer goes first.
BrelseDrop(p) ==
  /\ pc[p] = "release"
  /\ refcnt' = Dropped(b[p])
  /\ lru' = IF refcnt'[b[p]] = 0 THEN MovedFirst(b[p]) ELSE lru
  /\ Goto(p, "idle")
  /\ UNCHANGED <<blockno, valid, data, locked, disk, pinned, b, dirty, reads>>

Step(p) ==
  \/ AcquireSleep(p) \/ Bread(p) \/ BrelseUnlock(p) \/ BrelseDrop(p)

Use(p) == Change(p) \/ Bwrite(p) \/ Bpin(p) \/ Bunpin(p)

Next == \E p \in Proc : Step(p) \/ Use(p) \/ \E k \in Block : Bget(p, k)

Spec == Init /\ [][Next]_vars

\* Processes are scheduled; one that holds a buffer writes what it changed and
\* releases it.
Fairness == \A p \in Proc : SF_vars(Step(p)) /\ WF_vars(dirty[p] /\ Bwrite(p))

FairSpec == Spec /\ Fairness

-----------------------------------------------------------------------------
\* Type invariant.
TypeOK ==
  /\ blockno \in [Buf -> Block \cup {None}] /\ valid \in [Buf -> BOOLEAN]
  /\ refcnt \in [Buf -> Nat] /\ data \in [Buf -> Data]
  /\ locked \in [Buf -> Proc \cup {None}]
  /\ lru \in [1..NBUF -> Buf]
  /\ disk \in [Block -> Data] /\ pinned \subseteq Block
  /\ pc \in [Proc -> {"idle", "lock", "asleep", "locked", "hold", "release", "panic"}]
  /\ b \in [Proc -> Buf] /\ dirty \in [Proc -> BOOLEAN]
  /\ reads \in [Proc -> 0..MaxReads]

\* The processes between bget and the end of brelse.
Users(i) == {p \in Proc : b[p] = i /\ pc[p] \notin {"idle", "panic"}}

\* refcnt counts the users of a buffer and its pin, so that a buffer is
\* recycled only when nobody holds it or waits for it (bget line 78).
RefcntExact ==
  \A i \in Buf :
    refcnt[i] = Cardinality(Users(i)) + Cardinality(pinned \cap {blockno[i]})

\* No block is in two buffers (bget scans and recycles in one critical section).
OneBufferPerBlock ==
  \A i, j \in Buf : blockno[i] = blockno[j] /\ blockno[i] # None => i = j

\* The cache at every moment: exact reference counts, and at most one buffer
\* for a block (bget, brelse, bpin, bunpin).
BuffersSound == TypeOK /\ RefcntExact /\ OneBufferPerBlock

\* bget panics only when NBUF distinct blocks really are pinned or in use: a
\* reference that is not given back would use up the cache (line 88).  bwrite
\* and brelse never panic: their caller holds the sleep lock.
PanicOnlyWhenFull ==
  [][\A p \in Proc : pc[p] # "panic" /\ pc'[p] = "panic" =>
       /\ pc[p] = "idle"
       /\ Cardinality(pinned \cup {blockno[i] : i \in {j \in Buf : Users(j) # {}}})
            = NBUF]_vars

\* The cache as its callers see it: who uses a block and what it contains.
Owner(k) ==
  IF \E p \in Proc : pc[p] = "hold" /\ blockno[b[p]] = k
  THEN CHOOSE p \in Proc : pc[p] = "hold" /\ blockno[b[p]] = k ELSE None

Content(k) ==
  IF \E i \in Buf : blockno[i] = k /\ valid[i]
  THEN data[CHOOSE i \in Buf : blockno[i] = k /\ valid[i]] ELSE disk[k]

Store == INSTANCE BlockStore WITH owner <- [k \in Block |-> Owner(k)],
                                  content <- [k \in Block |-> Content(k)]

\* "Only one process at a time can use a buffer" (line 13), and what a process
\* finds in a block is what the last user left there, through recycling,
\* rereading and pinning.
ImplementsBlockStore == Store!StoreSpec

\* bread returns.
BreadReturns == \A p \in Proc : pc[p] = "lock" ~> pc[p] = "hold"
==============================================================================
