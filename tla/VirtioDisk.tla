----------------------------- MODULE VirtioDisk -----------------------------
(***************************************************************************)
(* The disk driver of kernel/virtio_disk.c: processes in virtio_disk_rw    *)
(* share NUM descriptors, the device takes requests from the avail ring    *)
(* and completes them in any order, and virtio_disk_intr turns used-ring   *)
(* entries into wakeups.                                                   *)
(*                                                                         *)
(* A process runs from acquire(&vdisk_lock) to sleep() or release() in one *)
(* step: nothing else touches the driver's state meanwhile, and what the   *)
(* device does is visible only to the interrupt handler.  The handler is   *)
(* split, because the device runs between its steps.                       *)
(***************************************************************************)
EXTENDS Integers, FiniteSets, FiniteSetsExt

CONSTANTS
  Proc,     \* processes in virtio_disk_rw, each with its own locked buffer
  None,     \* null pointer
  Data,     \* contents of a block
  NUM,      \* virtio.h: number of descriptors
  IdxMod,   \* avail[1] and used->id are uint16: arithmetic modulo IdxMod
  Past,     \* how many requests (modulo IdxMod) were served before Init
  Killable, \* processes kill() may be called on meanwhile
  MaxReq    \* bound: requests per process

ASSUME VirtioAssumption ==
  /\ IsFiniteSet(Proc) /\ None \notin Proc /\ Killable \subseteq Proc
  /\ Data # {}
  /\ NUM \in Nat /\ NUM >= 3
  /\ IdxMod \in Nat \ {0} /\ IdxMod % NUM = 0
  /\ Past \in 0..(IdxMod - 1) /\ MaxReq \in Nat

Desc == 0..(NUM - 1)

\* An arbitrary first content of buffers and blocks; Call chooses new ones.
Zero == CHOOSE d \in Data : TRUE

VARIABLES
  free,      \* disk.free: the free descriptors
  addr,      \* desc[i].addr: whose memory it points to
  more,      \* desc[i].flags & VRING_DESC_F_NEXT
  next,      \* desc[i].next
  ring, avail, \* the avail ring and its index avail[1]
  elems, used, \* the used ring and its index used->id
  used_idx,  \* disk.used_idx
  info,      \* disk.info[i].b
  bdisk,     \* b->disk, the buffer of each process
  bdata,     \* b->data
  blk,       \* the block on the disk each buffer stands for
  write,     \* the request: write (TRUE) or read
  idx,       \* idx[0] of virtio_disk_rw
  pc,        \* control state of each process
  seen,      \* device: how far it has looked in the avail ring
  inflight,  \* device: requests it has taken
  isr,       \* device: INTERRUPT_STATUS
  intr,      \* control state of virtio_disk_intr
  reqs       \* bound counter

chain  == <<free, addr, more, next>>
device == <<seen, inflight, isr>>
bufs   == <<bdata, blk>>
vars   == <<chain, ring, avail, elems, used, used_idx, info, bdisk, bufs, write,
            idx, pc, device, intr, reqs>>

\* vdisk_lock is held across steps only by the interrupt handler.
Unlocked == intr = "off"

\* wakeup(&disk.free[0])
WakeFree(f) == [q \in Proc |-> IF f[q] = "sleep_free" THEN "alloc" ELSE f[q]]

Init ==
  /\ free = Desc
  /\ addr = [i \in Desc |-> None] /\ more = [i \in Desc |-> FALSE]
  /\ next = [i \in Desc |-> 0]
  /\ ring = [i \in Desc |-> 0] /\ avail = Past
  /\ elems = [i \in Desc |-> 0] /\ used = Past /\ used_idx = Past % NUM
  /\ info = [i \in Desc |-> None]
  /\ bdisk = [p \in Proc |-> 0]
  /\ bdata = [p \in Proc |-> Zero] /\ blk = [p \in Proc |-> Zero]
  /\ write = [p \in Proc |-> FALSE]
  /\ idx = [p \in Proc |-> 0]
  /\ pc = [p \in Proc |-> "idle"]
  /\ seen = Past /\ inflight = {} /\ isr = FALSE
  /\ intr = "off"
  /\ reqs = [p \in Proc |-> 0]

\* bread or bwrite calls virtio_disk_rw, with a recycled buffer or one its
\* holder has modified.
Call(p) ==
  /\ pc[p] = "idle" /\ reqs[p] < MaxReq
  /\ reqs' = [reqs EXCEPT ![p] = @ + 1]
  /\ \E w \in BOOLEAN : write' = [write EXCEPT ![p] = w]
  /\ \E d \in Data : bdata' = [bdata EXCEPT ![p] = d]
  /\ pc' = [pc EXCEPT ![p] = "alloc"]
  /\ UNCHANGED <<chain, ring, avail, elems, used, used_idx, info, bdisk, blk,
                 idx, device, intr>>

\* alloc_desc() three times: the lowest free descriptors.
First  == Min(free)
Second == Min(free \ {First})
Third  == Min(free \ {First, Second})

Alloc3Fails == Cardinality(free) < 3

\* alloc3_desc() fails: the descriptors it got are freed again, and each
\* free_desc wakes the processes waiting for one.
AllocFail(p) ==
  /\ pc[p] = "alloc" /\ Unlocked /\ Alloc3Fails
  /\ pc' = [(IF free = {} THEN pc ELSE WakeFree(pc)) EXCEPT ![p] = "sleep_free"]
  /\ UNCHANGED <<chain, ring, avail, elems, used, used_idx, info, bdisk, bufs,
                 write, idx, device, intr, reqs>>

\* mutant: publishes the request without recording its buffer
RecordNothing(p) == info' = info

\* info[idx[0]].b = b, for virtio_disk_intr
RecordBuf(p) == info' = [info EXCEPT ![First] = p]

\* alloc3_desc() succeeds: format the chain, publish it, notify the device,
\* and sleep on the buffer.
Submit(p) ==
  /\ pc[p] = "alloc" /\ Unlocked /\ ~Alloc3Fails
  /\ free' = free \ {First, Second, Third}
  /\ addr' = [i \in Desc |-> IF i \in {First, Second, Third} THEN p ELSE addr[i]]
  /\ more' = [more EXCEPT ![First] = TRUE, ![Second] = TRUE, ![Third] = FALSE]
  /\ next' = [next EXCEPT ![First] = Second, ![Second] = Third, ![Third] = 0]
  /\ bdisk' = [bdisk EXCEPT ![p] = 1]
  /\ RecordBuf(p)
  /\ idx' = [idx EXCEPT ![p] = First]
  /\ ring' = [ring EXCEPT ![avail % NUM] = First]
  /\ avail' = (avail + 1) % IdxMod
  /\ pc' = [pc EXCEPT ![p] = "sleep_buf"]
  /\ UNCHANGED <<elems, used, used_idx, bufs, write, device, intr, reqs>>

\* The chain free_chain() follows from descriptor i.
Chain(i) ==
  {i} \cup (IF more[i] THEN {next[i]} \cup
              (IF more[next[i]] THEN {next[next[i]]} ELSE {}) ELSE {})

\* mutant: frees only the first descriptor of the chain
FreedHead(i) == {i}

Freed(i) == Chain(i)

\* mutant: waits once instead of in a loop
FinishedUnchecked(p) == TRUE

\* the condition that ends while(b->disk == 1)
Finished(p) == bdisk[p] = 0

\* Woken from sleep(b): back to sleep, or free the chain, which wakes the
\* processes waiting for descriptors, and return.  free_desc panics on a
\* descriptor that is already free.
Wake(p) ==
  /\ pc[p] = "woken" /\ Unlocked
  /\ IF ~Finished(p)
     THEN /\ pc' = [pc EXCEPT ![p] = "sleep_buf"]
          /\ UNCHANGED <<info, free, addr>>
     ELSE /\ info' = [info EXCEPT ![idx[p]] = None]
          /\ free' = free \cup Freed(idx[p])
          /\ addr' = [i \in Desc |-> IF i \in Freed(idx[p]) THEN None ELSE addr[i]]
          /\ pc' = [WakeFree(pc) EXCEPT ![p] =
                      IF Freed(idx[p]) \cap free = {} THEN "idle" ELSE "panic"]
  /\ UNCHANGED <<more, next, ring, avail, elems, used, used_idx, bdisk, bufs,
                 write, idx, device, intr, reqs>>

\* kill(p) makes a sleeping process runnable, whatever it sleeps on.
Kill(p) ==
  /\ p \in Killable /\ pc[p] \in {"sleep_free", "sleep_buf"}
  /\ pc' = [pc EXCEPT ![p] = IF @ = "sleep_free" THEN "alloc" ELSE "woken"]
  /\ UNCHANGED <<chain, ring, avail, elems, used, used_idx, info, bdisk, bufs,
                 write, idx, device, intr, reqs>>

-----------------------------------------------------------------------------
(* The device (external: modelled from how the driver uses it). *)

\* It takes the next entry of the avail ring.
DevFetch ==
  /\ seen # avail
  /\ inflight' = inflight \cup {ring[seen % NUM]}
  /\ seen' = (seen + 1) % IdxMod
  /\ UNCHANGED <<chain, ring, avail, elems, used, used_idx, info, bdisk, bufs,
                 write, idx, pc, isr, intr, reqs>>

\* It moves the data of a request, in any order, adds it to the used ring and
\* raises an interrupt.  The status it reports is 0: the handler's panic on
\* another one is not modelled.
DevComplete(i) ==
  /\ i \in inflight
  /\ LET p == addr[next[i]] IN
       IF p = None THEN UNCHANGED bufs
       ELSE IF write[p] THEN blk' = [blk EXCEPT ![p] = bdata[p]] /\ UNCHANGED bdata
       ELSE bdata' = [bdata EXCEPT ![p] = blk[p]] /\ UNCHANGED blk
  /\ inflight' = inflight \ {i}
  /\ elems' = [elems EXCEPT ![used % NUM] = i]
  /\ used' = (used + 1) % IdxMod
  /\ isr' = TRUE
  /\ UNCHANGED <<chain, ring, avail, used_idx, info, bdisk, write, idx, pc, seen,
                 intr, reqs>>

-----------------------------------------------------------------------------
(* virtio_disk_intr, called by devintr when the PLIC delivers the irq. *)

IntrEnter ==
  /\ intr = "off" /\ isr
  /\ intr' = "loop"
  /\ UNCHANGED <<chain, ring, avail, elems, used, used_idx, info, bdisk, bufs,
                 write, idx, pc, device, reqs>>

MoreUsed == used_idx % NUM # used % NUM

\* mutant: reads the entry after the one that was completed
UsedElemOffByOne == elems[(used_idx + 1) % NUM]

UsedElem == elems[used_idx]

\* mutant: the handler forgets the wakeup
WokenBufNone(p) == pc

\* wakeup(b)
WokenBuf(p) ==
  [q \in Proc |-> IF q = p /\ pc[q] = "sleep_buf" THEN "woken" ELSE pc[q]]

\* mutant: the ring index is not reduced
AdvanceNoMod == used_idx + 1

Advance == (used_idx + 1) % NUM

IntrLoop ==
  /\ intr = "loop" /\ MoreUsed
  /\ LET p == info[UsedElem] IN
       IF p = None THEN intr' = "fault" /\ UNCHANGED <<bdisk, pc>>
       ELSE /\ bdisk' = [bdisk EXCEPT ![p] = 0]
            /\ pc' = WokenBuf(p)
            /\ UNCHANGED intr
  /\ used_idx' = Advance
  /\ UNCHANGED <<chain, ring, avail, elems, used, info, bufs, write, idx, device,
                 reqs>>

IntrLoopEnd ==
  /\ intr = "loop" /\ ~MoreUsed
  /\ intr' = "ack"
  /\ UNCHANGED <<chain, ring, avail, elems, used, used_idx, info, bdisk, bufs,
                 write, idx, pc, device, reqs>>

\* INTERRUPT_ACK, release, plic_complete.
IntrAck ==
  /\ intr = "ack"
  /\ isr' = FALSE
  /\ intr' = "off"
  /\ UNCHANGED <<chain, ring, avail, elems, used, used_idx, info, bdisk, bufs,
                 write, idx, pc, seen, inflight, reqs>>

-----------------------------------------------------------------------------
Step(p) == AllocFail(p) \/ Submit(p) \/ Wake(p)

Device == DevFetch \/ \E i \in Desc : DevComplete(i)

Intr == IntrEnter \/ IntrLoop \/ IntrLoopEnd \/ IntrAck

Next ==
  \/ \E p \in Proc : Call(p) \/ Step(p) \/ Kill(p)
  \/ Device
  \/ Intr

Spec == Init /\ [][Next]_vars

\* Processes that can run get a CPU, the device serves what it is given, and a
\* raised interrupt is delivered to some CPU.
Fairness ==
  /\ \A p \in Proc : WF_vars(Step(p))
  /\ WF_vars(DevFetch)
  /\ \A i \in Desc : WF_vars(DevComplete(i))
  /\ WF_vars(Intr)

FairSpec == Spec /\ Fairness
-----------------------------------------------------------------------------
\* Type invariant of the driver, the rings and the device.
TypeOK ==
  /\ free \subseteq Desc /\ inflight \subseteq Desc
  /\ addr \in [Desc -> Proc \cup {None}] /\ info \in [Desc -> Proc \cup {None}]
  /\ more \in [Desc -> BOOLEAN]
  /\ next \in [Desc -> Desc] /\ ring \in [Desc -> Desc] /\ elems \in [Desc -> Desc]
  /\ avail \in 0..(IdxMod - 1) /\ used \in 0..(IdxMod - 1) /\ seen \in 0..(IdxMod - 1)
  /\ used_idx \in Desc
  /\ bdisk \in [Proc -> 0..1]
  /\ bdata \in [Proc -> Data] /\ blk \in [Proc -> Data]
  /\ write \in [Proc -> BOOLEAN] /\ idx \in [Proc -> Desc]
  /\ pc \in [Proc -> {"idle", "alloc", "sleep_free", "sleep_buf", "woken", "panic"}]
  /\ isr \in BOOLEAN /\ intr \in {"off", "loop", "ack", "fault"}
  /\ reqs \in [Proc -> 0..MaxReq]

\* Processes between publishing a request and freeing its descriptors.
Waiting == {p \in Proc : pc[p] \in {"sleep_buf", "woken"}}

\* How many entries index b is ahead of index a.
Ahead(a, b) == (b - a + IdxMod) % IdxMod

\* Entries of a ring from index a up to index b.
Entries(r, a, b) == {r[(a + k) % NUM] : k \in 0..(Ahead(a, b) - 1)}

\* Requests the device has not completed.
Posted == inflight \cup Entries(ring, seen, avail)

\* Every request the device still owns is a chain of three allocated
\* descriptors, all of one process that is still waiting inside
\* virtio_disk_rw: the header on its kernel stack and its buffer are alive.
ChainsWhole ==
  \A i \in Posted :
    /\ Cardinality(Chain(i)) = 3 /\ Chain(i) \cap free = {}
    /\ \E p \in Waiting : /\ idx[p] = i /\ info[i] = p /\ bdisk[p] = 1
                           /\ \A j \in Chain(i) : addr[j] = p

\* Descriptors are neither leaked nor shared: outside the free ones there are
\* exactly three per waiting process.
NoLeak ==
  /\ Cardinality(free) + 3 * Cardinality(Waiting) = NUM
  /\ \A p, q \in Waiting : p # q => Chain(idx[p]) \cap Chain(idx[q]) = {}

\* virtio_disk_intr never dereferences a null info[id].b and free_desc never
\* panics.
NoPanic == intr # "fault" /\ \A p \in Proc : pc[p] # "panic"

\* The descriptors at every moment: whole chains for the requests the device
\* owns, no descriptor leaked or shared, and neither of the two panics
\* (alloc3_desc, free_chain, virtio_disk_intr).
DescriptorsSound == TypeOK /\ ChainsWhole /\ NoLeak /\ NoPanic

\* What a caller sees: a synchronous transfer (module SyncDisk).
Progress(p) ==
  CASE pc[p] = "idle" -> "idle"
    [] p \in Waiting /\ idx[p] \notin Posted -> "done"
    [] OTHER -> "busy"

Sync == INSTANCE SyncDisk WITH state <- [p \in Proc |-> Progress(p)]

\* virtio_disk_rw moves the block exactly once, in the direction asked for, and
\* never returns before it has: spurious wakeups and completions in any order
\* included.
ImplementsSyncDisk == Sync!SyncSpec

\* A completion that nobody will look at until another one arrives: posted
\* after virtio_disk_intr's loop, acknowledged by the line after it.
Stranded == MoreUsed /\ ~isr /\ intr = "off"

\* Every call of virtio_disk_rw returns, the wait for descriptors included,
\* unless a completion gets stranded.
ReturnsUnlessStranded ==
  \A p \in Proc : pc[p] = "alloc" ~> (pc[p] = "idle" \/ Stranded)
=============================================================================
