------------------------------ MODULE BioProofs ------------------------------
(***************************************************************************)
(* Proofs about Bio, for every number of processes, blocks and buffers.    *)
(***************************************************************************)
EXTENDS Bio, FiniteSetTheorems, TLAPS

\* Every buffer is on the list.
Listed == \A i \in Buf : \E n \in 1..NBUF : lru[n] = i

\* The sleep lock of a buffer is held by the process that is using it.
LockHeld ==
  \A i \in Buf, p \in Proc :
    locked[i] = p <=> b[p] = i /\ pc[p] \in {"locked", "hold"}

\* A process has the buffer of a block, and one whose bread returned has the
\* block's contents in it.
Filled ==
  \A p \in Proc :
    /\ pc[p] \notin {"idle", "panic"} => blockno[b[p]] # None
    /\ pc[p] = "hold" => valid[b[p]]

\* A pinned block stays in the cache.
PinnedCached == \A k \in pinned : \E i \in Buf : blockno[i] = k /\ valid[i]

\* A buffer that differs from the disk is pinned, or its user is not done.
Clean ==
  \A i \in Buf :
    valid[i] /\ blockno[i] # None /\ data[i] # disk[blockno[i]] =>
      blockno[i] \in pinned \/ \E p \in Proc : pc[p] = "hold" /\ b[p] = i /\ dirty[p]

\* The inductive invariant.
BInv ==
  /\ TypeOK /\ RefcntExact /\ OneBufferPerBlock
  /\ Listed /\ LockHeld /\ Filled /\ PinnedCached /\ Clean

-----------------------------------------------------------------------------
\* A nonempty set of natural numbers has a least element.  It stands in for
\* induction: the least counterexample contradicts the induction step.
LEMMA NatMin ==
  ASSUME NEW T \in SUBSET Nat, T # {}
  PROVE  \E x \in T : \A y \in T : x <= y
<1> DEFINE R == {ss \in Nat \X Nat : ss[1] < ss[2]}
<1>1. IsWellFoundedOn(R, Nat)
  BY NatLessThanWellFounded, Zenon DEF OpToRel
<1>2. \A x, y \in Nat : y < x => <<y, x>> \in R
  BY Zenon
<1> HIDE DEF R
<1>3. PICK x \in T : \A y \in T : ~(<<y, x>> \in R)
  BY <1>1, WFMin, Zenon
<1>4. \A y \in T : ~(y < x)
  BY <1>2, <1>3, Zenon
<1> QED
  BY <1>4

\* A nonempty set of natural numbers below a bound has a greatest element.
LEMMA NatMax ==
  ASSUME NEW N \in Nat, NEW T \in SUBSET (0..N), T # {}
  PROVE  \E x \in T : \A y \in T : y <= x
<1> DEFINE U == {n \in Nat : \E y \in T : y = N - n}
<1>1. PICK t \in T : TRUE
  BY Zenon
<1>2. N - t \in U
  <2>1. N - t \in Nat /\ t = N - (N - t)
    OBVIOUS
  <2> QED
    BY <2>1, Zenon
<1>3. U \in SUBSET Nat /\ U # {}
  BY <1>2, Zenon
<1>4. \A y \in T : N - y \in U
  <2> SUFFICES ASSUME NEW y \in T PROVE N - y \in U
    BY Zenon
  <2>1. N - y \in Nat /\ y = N - (N - y)
    OBVIOUS
  <2> QED
    BY <2>1, Zenon
<1>5. \A n \in U : N - n \in T
  BY Zenon
<1> HIDE DEF U
<1>6. PICK n \in U : \A m \in U : n <= m
  BY <1>3, NatMin, Zenon
<1>7. \A y \in T : y <= N - n
  <2> SUFFICES ASSUME NEW y \in T PROVE y <= N - n
    BY Zenon
  <2>1. n <= N - y /\ n \in Nat
    BY <1>3, <1>4, <1>6, Zenon
  <2> QED
    BY <2>1
<1> QED
  BY <1>5, <1>7, Zenon

\* A block is pinned once or not at all.
LEMMA PinCount ==
  ASSUME NEW S, NEW x
  PROVE  Cardinality(S \cap {x}) = IF x \in S THEN 1 ELSE 0
<1>1. CASE x \in S
  <2>1. S \cap {x} = {x}
    BY <1>1, Zenon
  <2> QED
    BY <1>1, <2>1, FS_Singleton, Zenon
<1>2. CASE x \notin S
  <2>1. S \cap {x} = {}
    BY <1>2, Zenon
  <2> QED
    BY <1>2, <2>1, FS_EmptySet, Zenon
<1> QED
  BY <1>1, <1>2, Zenon

\* The users of a buffer can be counted.
LEMMA UsersFinite ==
  ASSUME NEW i
  PROVE  /\ IsFiniteSet(Users(i)) /\ Cardinality(Users(i)) \in Nat
         /\ Cardinality(Users(i)) = 0 <=> Users(i) = {}
<1>1. Users(i) \in SUBSET Proc
  BY Zenon DEF Users
<1>2. IsFiniteSet(Users(i))
  BY <1>1, BioAssumption, FS_Subset, Zenon
<1> QED
  BY <1>2, FS_CardinalityType, FS_EmptySet, Zenon

\* refcnt in terms of users and pins.
LEMMA RefcntCounts ==
  ASSUME TypeOK, RefcntExact, NEW i \in Buf
  PROVE  /\ refcnt[i] = Cardinality(Users(i)) + (IF blockno[i] \in pinned THEN 1 ELSE 0)
         /\ refcnt[i] = 0 => Users(i) = {} /\ blockno[i] \notin pinned
         /\ \A p \in Users(i) : refcnt[i] >= (IF blockno[i] \in pinned THEN 2 ELSE 1)
<1>1. refcnt[i] = Cardinality(Users(i)) + (IF blockno[i] \in pinned THEN 1 ELSE 0)
  BY PinCount, Zenon DEF RefcntExact
<1> QED
  BY <1>1, UsersFinite

\* bget finds an unused buffer if there is one: the list holds them all.
LEMMA VictimUnused ==
  ASSUME TypeOK, Listed, Unused # {}
  PROVE  Victim \in Unused
<1> DEFINE T == {n \in 1..NBUF : lru[n] \in Unused}
<1>1. NBUF \in Nat /\ T \in SUBSET (0..NBUF) /\ T # {}
  BY BioAssumption DEF Listed, Unused, Buf
<1>2. PICK n \in T : \A m \in T : m <= n
  <2> HIDE DEF T
  <2> QED
    BY <1>1, NatMax, Zenon
<1>3. n \in 1..NBUF /\ lru[n] \in Unused /\ \A j \in (n + 1)..NBUF : lru[j] \notin Unused
  BY <1>1, <1>2
<1> QED
  BY <1>3, Zenon DEF Victim

\* binit establishes the invariant.
LEMMA InitBInv == Init => BInv
<1> SUFFICES ASSUME Init PROVE BInv
  BY Zenon
<1> USE BioAssumption
<1>1. TypeOK
  <2>1. Zero \in Data
    BY Zenon DEF Zero
  <2>2. \A i \in Buf : NBUF + 1 - i \in Buf
    BY DEF Buf
  <2> QED
    BY <2>1, <2>2 DEF Init, TypeOK, Buf
<1>2. RefcntExact
  <2>1. \A i \in Buf : Users(i) = {} /\ refcnt[i] = 0 /\ pinned \cap {blockno[i]} = {}
    BY Zenon DEF Init, Users
  <2> QED
    BY <2>1, FS_EmptySet DEF RefcntExact
<1>3. Listed
  <2> SUFFICES ASSUME NEW i \in Buf PROVE \E n \in 1..NBUF : lru[n] = i
    BY Zenon DEF Listed
  <2>1. NBUF + 1 - i \in 1..NBUF /\ lru[NBUF + 1 - i] = i
    BY DEF Init, Buf
  <2> QED
    BY <2>1, Zenon
<1>4. OneBufferPerBlock /\ LockHeld /\ Filled /\ PinnedCached /\ Clean
  BY Zenon DEF Init, OneBufferPerBlock, LockHeld, Filled, PinnedCached, Clean
<1> QED
  BY <1>1, <1>2, <1>3, <1>4, Zenon DEF BInv

-----------------------------------------------------------------------------
USE DEF cache, Goto

\* A process finds its block in the cache.
LEMMA GetHit ==
  ASSUME BInv, NEW p \in Proc, NEW k \in Block, NEW i \in Buf,
         pc[p] = "idle", blockno[i] = k, reads[p] < MaxReads,
         reads' = [reads EXCEPT ![p] = @ + 1],
         refcnt' = [refcnt EXCEPT ![i] = @ + 1],
         b' = [b EXCEPT ![p] = i], Goto(p, "lock"),
         UNCHANGED <<blockno, valid, data, locked, lru, disk, pinned, dirty>>
  PROVE  BInv'
<1> USE BioAssumption
<1>0. /\ \A j \in Buf : Users(j)' = IF j = i THEN Users(j) \cup {p} ELSE Users(j)
      /\ p \notin Users(i)
  BY DEF BInv, TypeOK, Users
<1>1. TypeOK'
  BY DEF BInv, TypeOK
<1>2. RefcntExact'
  <2> SUFFICES ASSUME NEW j \in Buf
               PROVE  refcnt'[j] = Cardinality(Users(j)') + Cardinality(pinned \cap {blockno[j]})
    BY Zenon DEF RefcntExact
  <2>1. CASE j = i
    <3>1. Cardinality(Users(j)') = Cardinality(Users(j)) + 1
      BY <1>0, <2>1, UsersFinite, FS_AddElement
    <3>2. refcnt'[j] = refcnt[j] + 1
      BY <2>1, Zenon DEF BInv, TypeOK
    <3>3. Cardinality(pinned \cap {blockno[j]}) \in Nat
      BY PinCount
    <3> QED
      BY <3>1, <3>2, <3>3, UsersFinite DEF BInv, RefcntExact
  <2>2. CASE j # i
    BY <1>0, <2>2, Zenon DEF BInv, TypeOK, RefcntExact
  <2> QED
    BY <2>1, <2>2, Zenon
<1>3. OneBufferPerBlock'
  BY Zenon DEF BInv, TypeOK, OneBufferPerBlock
<1>4. Listed'
  BY Zenon DEF BInv, Listed
<1>5. LockHeld'
  BY DEF BInv, TypeOK, LockHeld
<1>6. Filled'
  BY DEF BInv, TypeOK, Filled, LockHeld
<1>7. PinnedCached'
  BY Zenon DEF BInv, TypeOK, Filled, PinnedCached
<1>8. Clean'
  BY Zenon DEF BInv, TypeOK, OneBufferPerBlock, LockHeld, Filled, Clean
<1> QED
  BY <1>1, <1>2, <1>3, <1>4, <1>5, <1>6, <1>7, <1>8, Zenon DEF BInv

\* A process recycles a buffer that is not in use.
LEMMA GetRecycled ==
  ASSUME BInv, NEW p \in Proc, NEW k \in Block, NEW i \in Unused,
         pc[p] = "idle", Cached(k) = {}, reads[p] < MaxReads,
         reads' = [reads EXCEPT ![p] = @ + 1],
         blockno' = [blockno EXCEPT ![i] = k],
         valid' = [valid EXCEPT ![i] = FALSE],
         refcnt' = [refcnt EXCEPT ![i] = 1],
         b' = [b EXCEPT ![p] = i], Goto(p, "lock"),
         UNCHANGED <<data, locked, lru, disk, pinned, dirty>>
  PROVE  BInv'
<1> USE BioAssumption
<1>0. /\ \A j \in Buf : Users(j)' = IF j = i THEN Users(j) \cup {p} ELSE Users(j)
      /\ p \notin Users(i)
  BY DEF BInv, TypeOK, Users, Unused, Cached
<1>1. TypeOK'
  BY DEF BInv, TypeOK, Unused, Cached
<1>2. RefcntExact'
  <2> SUFFICES ASSUME NEW j \in Buf
               PROVE  refcnt'[j] = Cardinality(Users(j)') + Cardinality(pinned \cap {blockno'[j]})
    BY Zenon DEF RefcntExact
  <2>1. CASE j = i
    <3>1. Users(i) = {} /\ blockno'[i] = k /\ refcnt'[i] = 1
      BY RefcntCounts, Zenon DEF BInv, TypeOK, Unused
    <3>2. k \notin pinned
      BY Zenon DEF BInv, PinnedCached, Cached
    <3> QED
      BY <1>0, <2>1, <3>1, <3>2, PinCount, FS_Singleton
  <2>2. CASE j # i
    BY <1>0, <2>2, Zenon DEF BInv, TypeOK, RefcntExact
  <2> QED
    BY <2>1, <2>2, Zenon
<1>3. OneBufferPerBlock'
  BY Zenon DEF BInv, TypeOK, OneBufferPerBlock, Unused, Cached
<1>4. Listed'
  BY Zenon DEF BInv, Listed, Unused, Cached
<1>5. LockHeld'
  BY DEF BInv, TypeOK, LockHeld, Unused, Cached
<1>6. Filled'
  <2>1. \A q \in Proc \ {p} : pc[q] \notin {"idle", "panic"} => b[q] # i
    BY RefcntCounts, Zenon DEF BInv, Unused, Users
  <2> QED
    BY <2>1 DEF BInv, TypeOK, Filled, Unused
<1>7. PinnedCached'
  <2>1. blockno[i] \notin pinned
    BY RefcntCounts, Zenon DEF BInv, Unused
  <2> QED
    BY <2>1 DEF BInv, TypeOK, PinnedCached, Unused
<1>8. Clean'
  BY DEF BInv, TypeOK, OneBufferPerBlock, LockHeld, Filled, Clean, Unused, Cached
<1> QED
  BY <1>1, <1>2, <1>3, <1>4, <1>5, <1>6, <1>7, <1>8, Zenon DEF BInv

\* bget panics.
LEMMA GetPanics ==
  ASSUME BInv, NEW p \in Proc, pc[p] = "idle", reads[p] < MaxReads,
         reads' = [reads EXCEPT ![p] = @ + 1], Goto(p, "panic"),
         UNCHANGED <<blockno, valid, refcnt, b, data, locked, lru, disk, pinned, dirty>>
  PROVE  BInv'
<1> USE BioAssumption
<1>0. \A j \in Buf : Users(j)' = Users(j)
  BY Zenon DEF BInv, TypeOK, Users
<1>1. TypeOK'
  BY DEF BInv, TypeOK
<1>2. RefcntExact'
  BY <1>0, Zenon DEF BInv, TypeOK, RefcntExact
<1>3. OneBufferPerBlock'
  BY Zenon DEF BInv, TypeOK, OneBufferPerBlock
<1>4. Listed'
  BY Zenon DEF BInv, Listed
<1>5. LockHeld'
  BY DEF BInv, TypeOK, LockHeld
<1>6. Filled'
  BY DEF BInv, TypeOK, Filled, LockHeld
<1>7. PinnedCached'
  BY Zenon DEF BInv, TypeOK, Filled, PinnedCached
<1>8. Clean'
  BY Zenon DEF BInv, TypeOK, OneBufferPerBlock, LockHeld, Filled, Clean
<1> QED
  BY <1>1, <1>2, <1>3, <1>4, <1>5, <1>6, <1>7, <1>8, Zenon DEF BInv

\* acquiresleep finds the lock taken.
LEMMA LockBusy ==
  ASSUME BInv, NEW p \in Proc, pc[p] = "lock", locked[b[p]] # None, Goto(p, "asleep"),
         UNCHANGED <<cache, disk, pinned, b, dirty, reads>>
  PROVE  BInv'
<1> USE BioAssumption
<1>0. \A j \in Buf : Users(j)' = Users(j)
  BY Zenon DEF BInv, TypeOK, Users
<1>1. TypeOK'
  BY Zenon DEF BInv, TypeOK
<1>2. RefcntExact'
  BY <1>0, Zenon DEF BInv, TypeOK, RefcntExact
<1>3. OneBufferPerBlock'
  BY Zenon DEF BInv, TypeOK, OneBufferPerBlock
<1>4. Listed'
  BY Zenon DEF BInv, Listed
<1>5. LockHeld'
  BY DEF BInv, TypeOK, LockHeld
<1>6. Filled'
  BY DEF BInv, TypeOK, Filled, LockHeld
<1>7. PinnedCached'
  BY Zenon DEF BInv, TypeOK, Filled, PinnedCached
<1>8. Clean'
  BY Zenon DEF BInv, TypeOK, OneBufferPerBlock, LockHeld, Filled, Clean
<1> QED
  BY <1>1, <1>2, <1>3, <1>4, <1>5, <1>6, <1>7, <1>8, Zenon DEF BInv

\* acquiresleep takes the lock.
LEMMA LockTaken ==
  ASSUME BInv, NEW p \in Proc, pc[p] = "lock", locked[b[p]] = None, Goto(p, "locked"),
         locked' = [locked EXCEPT ![b[p]] = p],
         UNCHANGED <<blockno, valid, refcnt, data, lru, disk, pinned, b, dirty, reads>>
  PROVE  BInv'
<1> USE BioAssumption
<1>0. \A j \in Buf : Users(j)' = Users(j)
  BY Zenon DEF BInv, TypeOK, Users
<1>1. TypeOK'
  BY Zenon DEF BInv, TypeOK
<1>2. RefcntExact'
  BY <1>0, Zenon DEF BInv, TypeOK, RefcntExact
<1>3. OneBufferPerBlock'
  BY Zenon DEF BInv, TypeOK, OneBufferPerBlock
<1>4. Listed'
  BY Zenon DEF BInv, Listed
<1>5. LockHeld'
  BY DEF BInv, TypeOK, LockHeld
<1>6. Filled'
  BY DEF BInv, TypeOK, Filled, LockHeld
<1>7. PinnedCached'
  BY Zenon DEF BInv, TypeOK, Filled, PinnedCached
<1>8. Clean'
  BY Zenon DEF BInv, TypeOK, OneBufferPerBlock, LockHeld, Filled, Clean
<1> QED
  BY <1>1, <1>2, <1>3, <1>4, <1>5, <1>6, <1>7, <1>8, Zenon DEF BInv

\* bread finds the contents.
LEMMA ReadCached ==
  ASSUME BInv, NEW p \in Proc, pc[p] = "locked", valid[b[p]], Goto(p, "hold"),
         UNCHANGED <<cache, disk, pinned, b, dirty, reads>>
  PROVE  BInv'
<1> USE BioAssumption
<1>0. \A j \in Buf : Users(j)' = Users(j)
  BY Zenon DEF BInv, TypeOK, Users
<1>1. TypeOK'
  BY Zenon DEF BInv, TypeOK
<1>2. RefcntExact'
  BY <1>0, Zenon DEF BInv, TypeOK, RefcntExact
<1>3. OneBufferPerBlock'
  BY Zenon DEF BInv, TypeOK, OneBufferPerBlock
<1>4. Listed'
  BY Zenon DEF BInv, Listed
<1>5. LockHeld'
  BY DEF BInv, TypeOK, LockHeld
<1>6. Filled'
  BY DEF BInv, TypeOK, Filled, LockHeld
<1>7. PinnedCached'
  BY Zenon DEF BInv, TypeOK, Filled, PinnedCached
<1>8. Clean'
  BY Zenon DEF BInv, TypeOK, OneBufferPerBlock, LockHeld, Filled, Clean
<1> QED
  BY <1>1, <1>2, <1>3, <1>4, <1>5, <1>6, <1>7, <1>8, Zenon DEF BInv

\* bread reads the disk.
LEMMA ReadDisk ==
  ASSUME BInv, NEW p \in Proc, pc[p] = "locked", ~valid[b[p]], Goto(p, "hold"),
         data' = [data EXCEPT ![b[p]] = disk[blockno[b[p]]]],
         valid' = [valid EXCEPT ![b[p]] = TRUE],
         UNCHANGED <<blockno, refcnt, locked, lru, disk, pinned, b, dirty, reads>>
  PROVE  BInv'
<1> USE BioAssumption
<1>0. \A j \in Buf : Users(j)' = Users(j)
  BY Zenon DEF BInv, TypeOK, Users
<1>1. TypeOK'
  <2>1. disk[blockno[b[p]]] \in Data
    BY Zenon DEF BInv, TypeOK, Filled
  <2> QED
    BY <2>1, Zenon DEF BInv, TypeOK
<1>2. RefcntExact'
  BY <1>0, Zenon DEF BInv, TypeOK, RefcntExact
<1>3. OneBufferPerBlock'
  BY Zenon DEF BInv, TypeOK, OneBufferPerBlock
<1>4. Listed'
  BY Zenon DEF BInv, Listed
<1>5. LockHeld'
  BY DEF BInv, TypeOK, LockHeld
<1>6. Filled'
  BY DEF BInv, TypeOK, Filled, LockHeld
<1>7. PinnedCached'
  BY Zenon DEF BInv, TypeOK, Filled, PinnedCached
<1>8. Clean'
  BY DEF BInv, TypeOK, OneBufferPerBlock, LockHeld, Filled, Clean
<1> QED
  BY <1>1, <1>2, <1>3, <1>4, <1>5, <1>6, <1>7, <1>8, Zenon DEF BInv

\* The user changes the buffer.
LEMMA Changes ==
  ASSUME BInv, NEW p \in Proc, Change(p)
  PROVE  BInv'
<1> USE BioAssumption
<1>0. \A j \in Buf : Users(j)' = Users(j)
  BY DEF BInv, TypeOK, Users, Change
<1>1. TypeOK'
  BY DEF BInv, TypeOK, Change
<1>2. RefcntExact'
  BY <1>0, Zenon DEF BInv, TypeOK, RefcntExact, Change
<1>3. OneBufferPerBlock'
  BY Zenon DEF BInv, TypeOK, OneBufferPerBlock, Change
<1>4. Listed'
  BY Zenon DEF BInv, Listed, Change
<1>5. LockHeld'
  BY Zenon DEF BInv, TypeOK, LockHeld, Change
<1>6. Filled'
  BY Zenon DEF BInv, TypeOK, Filled, LockHeld, Change
<1>7. PinnedCached'
  BY Zenon DEF BInv, TypeOK, Filled, PinnedCached, Change
<1>8. Clean'
  BY DEF BInv, TypeOK, OneBufferPerBlock, LockHeld, Filled, Clean, Change
<1> QED
  BY <1>1, <1>2, <1>3, <1>4, <1>5, <1>6, <1>7, <1>8, Zenon DEF BInv

\* The user writes the buffer.
LEMMA Writes ==
  ASSUME BInv, NEW p \in Proc, pc[p] = "hold",
         disk' = [disk EXCEPT ![blockno[b[p]]] = data[b[p]]],
         dirty' = [dirty EXCEPT ![p] = FALSE],
         UNCHANGED <<pc, cache, pinned, b, reads>>
  PROVE  BInv'
<1> USE BioAssumption
<1>0. \A j \in Buf : Users(j)' = Users(j)
  BY Zenon DEF BInv, TypeOK, Users
<1>1. TypeOK'
  BY Zenon DEF BInv, TypeOK
<1>2. RefcntExact'
  BY <1>0, Zenon DEF BInv, TypeOK, RefcntExact
<1>3. OneBufferPerBlock'
  BY Zenon DEF BInv, TypeOK, OneBufferPerBlock
<1>4. Listed'
  BY Zenon DEF BInv, Listed
<1>5. LockHeld'
  BY Zenon DEF BInv, TypeOK, LockHeld
<1>6. Filled'
  BY Zenon DEF BInv, TypeOK, Filled, LockHeld
<1>7. PinnedCached'
  BY Zenon DEF BInv, TypeOK, Filled, PinnedCached
<1>8. Clean'
  BY DEF BInv, TypeOK, OneBufferPerBlock, LockHeld, Filled, Clean
<1> QED
  BY <1>1, <1>2, <1>3, <1>4, <1>5, <1>6, <1>7, <1>8, Zenon DEF BInv

\* log_write absorbs a pinned block.
LEMMA PinsAgain ==
  ASSUME BInv, NEW p \in Proc, pc[p] = "hold", blockno[b[p]] \in pinned,
         dirty' = [dirty EXCEPT ![p] = FALSE],
         UNCHANGED <<cache, disk, pinned, pc, b, reads>>
  PROVE  BInv'
<1> USE BioAssumption
<1>0. \A j \in Buf : Users(j)' = Users(j)
  BY Zenon DEF BInv, TypeOK, Users
<1>1. TypeOK'
  BY Zenon DEF BInv, TypeOK
<1>2. RefcntExact'
  BY <1>0, Zenon DEF BInv, TypeOK, RefcntExact
<1>3. OneBufferPerBlock'
  BY Zenon DEF BInv, TypeOK, OneBufferPerBlock
<1>4. Listed'
  BY Zenon DEF BInv, Listed
<1>5. LockHeld'
  BY Zenon DEF BInv, TypeOK, LockHeld
<1>6. Filled'
  BY Zenon DEF BInv, TypeOK, Filled, LockHeld
<1>7. PinnedCached'
  BY Zenon DEF BInv, TypeOK, Filled, PinnedCached
<1>8. Clean'
  BY DEF BInv, TypeOK, OneBufferPerBlock, LockHeld, Filled, Clean
<1> QED
  BY <1>1, <1>2, <1>3, <1>4, <1>5, <1>6, <1>7, <1>8, Zenon DEF BInv

\* log_write pins a block.
LEMMA PinsFirst ==
  ASSUME BInv, NEW p \in Proc, pc[p] = "hold", blockno[b[p]] \notin pinned,
         refcnt' = [refcnt EXCEPT ![b[p]] = @ + 1],
         pinned' = pinned \cup {blockno[b[p]]},
         dirty' = [dirty EXCEPT ![p] = FALSE],
         UNCHANGED <<blockno, valid, data, locked, lru, disk, pc, b, reads>>
  PROVE  BInv'
<1> USE BioAssumption
<1>0. (\A j \in Buf : Users(j)' = Users(j)) /\ p \in Users(b[p])
  BY Zenon DEF BInv, TypeOK, Users
<1>1. TypeOK'
  <2>1. blockno[b[p]] \in Block
    BY Zenon DEF BInv, TypeOK, Filled
  <2> QED
    BY <2>1 DEF BInv, TypeOK
<1>2. RefcntExact'
  <2> SUFFICES ASSUME NEW j \in Buf
               PROVE  refcnt'[j] = Cardinality(Users(j)') + Cardinality(pinned' \cap {blockno[j]})
    BY Zenon DEF RefcntExact
  <2>1. CASE j = b[p]
    <3>1. refcnt'[j] = refcnt[j] + 1
      BY <2>1, Zenon DEF BInv, TypeOK
    <3>2. refcnt[j] = Cardinality(Users(j))
      BY <2>1, RefcntCounts, UsersFinite DEF BInv
    <3>3. Cardinality(pinned' \cap {blockno[j]}) = 1
      BY <2>1, PinCount, Zenon
    <3> QED
      BY <1>0, <3>1, <3>2, <3>3, Zenon
  <2>2. CASE j # b[p]
    <3>1. blockno[j] # blockno[b[p]]
      BY <2>2, Zenon DEF BInv, TypeOK, OneBufferPerBlock, Filled
    <3>2. pinned' \cap {blockno[j]} = pinned \cap {blockno[j]}
      BY <3>1, Zenon
    <3> QED
      BY <1>0, <2>2, <3>2, Zenon DEF BInv, TypeOK, RefcntExact
  <2> QED
    BY <2>1, <2>2, Zenon
<1>3. OneBufferPerBlock'
  BY Zenon DEF BInv, TypeOK, OneBufferPerBlock
<1>4. Listed'
  BY Zenon DEF BInv, Listed
<1>5. LockHeld'
  BY Zenon DEF BInv, TypeOK, LockHeld
<1>6. Filled'
  BY Zenon DEF BInv, TypeOK, Filled, LockHeld
<1>7. PinnedCached'
  BY Zenon DEF BInv, TypeOK, Filled, PinnedCached
<1>8. Clean'
  BY DEF BInv, TypeOK, OneBufferPerBlock, LockHeld, Filled, Clean
<1> QED
  BY <1>1, <1>2, <1>3, <1>4, <1>5, <1>6, <1>7, <1>8, Zenon DEF BInv

\* install_trans unpins a block.
LEMMA Unpins ==
  ASSUME BInv, NEW p \in Proc, Bunpin(p)
  PROVE  BInv'
<1> USE BioAssumption
<1>0. (\A j \in Buf : Users(j)' = Users(j)) /\ p \in Users(b[p])
  BY Zenon DEF BInv, TypeOK, Users, Bunpin
<1>1. TypeOK'
  <2>1. refcnt[b[p]] >= 2 /\ b[p] \in Buf
    BY <1>0, RefcntCounts, Zenon DEF BInv, TypeOK, Bunpin
  <2>2. refcnt' \in [Buf -> Nat]
    BY <2>1 DEF BInv, TypeOK, Bunpin
  <2> QED
    BY <2>2, Zenon DEF BInv, TypeOK, Bunpin
<1>2. RefcntExact'
  <2> SUFFICES ASSUME NEW j \in Buf
               PROVE  refcnt'[j] = Cardinality(Users(j)') + Cardinality(pinned' \cap {blockno[j]})
    BY Zenon DEF RefcntExact, Bunpin
  <2>1. CASE j = b[p]
    <3>1. refcnt'[j] = refcnt[j] - 1
      BY <2>1, Zenon DEF BInv, TypeOK, Bunpin
    <3>2. refcnt[j] = Cardinality(Users(j)) + 1
      BY <2>1, RefcntCounts, Zenon DEF BInv, Bunpin
    <3>3. Cardinality(pinned' \cap {blockno[j]}) = 0
      BY <2>1, PinCount DEF Bunpin
    <3> QED
      BY <1>0, <3>1, <3>2, <3>3, UsersFinite
  <2>2. CASE j # b[p]
    <3>1. blockno[j] # blockno[b[p]]
      BY <2>2, Zenon DEF BInv, TypeOK, OneBufferPerBlock, Filled, Bunpin
    <3>2. pinned' \cap {blockno[j]} = pinned \cap {blockno[j]}
      BY <3>1, Zenon DEF Bunpin
    <3> QED
      BY <1>0, <2>2, <3>2, Zenon DEF BInv, TypeOK, RefcntExact, Bunpin
  <2> QED
    BY <2>1, <2>2, Zenon
<1>3. OneBufferPerBlock'
  BY Zenon DEF BInv, TypeOK, OneBufferPerBlock, Bunpin
<1>4. Listed'
  BY Zenon DEF BInv, Listed, Bunpin
<1>5. LockHeld'
  BY Zenon DEF BInv, TypeOK, LockHeld, Bunpin
<1>6. Filled'
  BY Zenon DEF BInv, TypeOK, Filled, LockHeld, Bunpin
<1>7. PinnedCached'
  BY Zenon DEF BInv, TypeOK, Filled, PinnedCached, Bunpin
<1>8. Clean'
  BY DEF BInv, TypeOK, OneBufferPerBlock, LockHeld, Filled, Clean, Bunpin
<1> QED
  BY <1>1, <1>2, <1>3, <1>4, <1>5, <1>6, <1>7, <1>8 DEF BInv

\* brelse releases the lock.
LEMMA Unlocks ==
  ASSUME BInv, NEW p \in Proc, pc[p] = "hold", ~dirty[p], locked[b[p]] = p,
         locked' = [locked EXCEPT ![b[p]] = None],
         pc' = [Woken(b[p]) EXCEPT ![p] = "release"],
         UNCHANGED <<blockno, valid, refcnt, data, lru, disk, pinned, b, dirty, reads>>
  PROVE  BInv'
<1> USE BioAssumption
<1>0. \A j \in Buf : Users(j)' = Users(j)
  BY Zenon DEF BInv, TypeOK, Users, Woken
<1>1. TypeOK'
  BY Zenon DEF BInv, TypeOK, Woken
<1>2. RefcntExact'
  BY <1>0, Zenon DEF BInv, TypeOK, RefcntExact, Woken
<1>3. OneBufferPerBlock'
  BY Zenon DEF BInv, TypeOK, OneBufferPerBlock, Woken
<1>4. Listed'
  BY Zenon DEF BInv, Listed, Woken
<1>5. LockHeld'
  BY DEF BInv, TypeOK, LockHeld, Woken
<1>6. Filled'
  BY Zenon DEF BInv, TypeOK, Filled, LockHeld, Woken
<1>7. PinnedCached'
  BY Zenon DEF BInv, TypeOK, Filled, PinnedCached, Woken
<1>8. Clean'
  <2>1. \A q \in Proc \ {p} : pc[q] = "hold" => pc'[q] = "hold"
    BY Zenon DEF BInv, TypeOK, Woken
  <2> QED
    BY <2>1 DEF BInv, Clean
<1> QED
  BY <1>1, <1>2, <1>3, <1>4, <1>5, <1>6, <1>7, <1>8, Zenon DEF BInv

\* brelse gives the reference back.
LEMMA Drops ==
  ASSUME BInv, NEW p \in Proc, BrelseDrop(p)
  PROVE  BInv'
<1> USE BioAssumption
<1>0. /\ \A j \in Buf : Users(j)' = IF j = b[p] THEN Users(j) \ {p} ELSE Users(j)
      /\ p \in Users(b[p])
  BY Zenon DEF BInv, TypeOK, Users, BrelseDrop
<1>1. TypeOK'
  <2>1. refcnt[b[p]] >= 1 /\ b[p] \in Buf
    BY <1>0, RefcntCounts DEF BInv, TypeOK
  <2>2. refcnt' \in [Buf -> Nat]
    BY <2>1 DEF BInv, TypeOK, BrelseDrop, Dropped
  <2>3. lru' \in [1..NBUF -> Buf]
    <3>1. PICK n \in 1..NBUF : MovedFirst(b[p]) =
            [k \in 1..NBUF |-> IF k = 1 THEN b[p] ELSE IF k <= n THEN lru[k - 1] ELSE lru[k]]
      BY <2>1, Zenon DEF BInv, Listed, MovedFirst
    <3>2. MovedFirst(b[p]) \in [1..NBUF -> Buf]
      BY <2>1, <3>1 DEF BInv, TypeOK
    <3> QED
      BY <3>2, Zenon DEF BInv, TypeOK, BrelseDrop
  <2> QED
    BY <2>2, <2>3, Zenon DEF BInv, TypeOK, BrelseDrop
<1>2. RefcntExact'
  <2> SUFFICES ASSUME NEW j \in Buf
               PROVE  refcnt'[j] = Cardinality(Users(j)') + Cardinality(pinned \cap {blockno[j]})
    BY Zenon DEF RefcntExact, BrelseDrop
  <2>1. CASE j = b[p]
    <3>1. Cardinality(Users(j)') = Cardinality(Users(j)) - 1
      BY <1>0, <2>1, UsersFinite, FS_RemoveElement
    <3>2. refcnt'[j] = refcnt[j] - 1
      BY <2>1, Zenon DEF BInv, TypeOK, BrelseDrop, Dropped
    <3>3. Cardinality(pinned \cap {blockno[j]}) \in Nat
      BY PinCount
    <3> QED
      BY <3>1, <3>2, <3>3, UsersFinite DEF BInv, RefcntExact
  <2>2. CASE j # b[p]
    BY <1>0, <2>2, Zenon DEF BInv, TypeOK, RefcntExact, BrelseDrop, Dropped
  <2> QED
    BY <2>1, <2>2, Zenon
<1>3. OneBufferPerBlock'
  BY Zenon DEF BInv, TypeOK, OneBufferPerBlock, BrelseDrop
<1>4. Listed'
  <2>1. ASSUME NEW j \in Buf PROVE \E n \in 1..NBUF : MovedFirst(b[p])[n] = j
    <3>1. PICK n \in 1..NBUF : /\ lru[n] = b[p]
                              /\ MovedFirst(b[p]) =
            [k \in 1..NBUF |-> IF k = 1 THEN b[p] ELSE IF k <= n THEN lru[k - 1] ELSE lru[k]]
      <4>1. b[p] \in Buf
        BY Zenon DEF BInv, TypeOK
      <4> QED
        BY <4>1, Zenon DEF BInv, Listed, MovedFirst
    <3>2. CASE j = b[p]
      <4>1. 1 \in 1..NBUF /\ MovedFirst(b[p])[1] = j
        BY <3>1, <3>2
      <4> QED
        BY <4>1, Zenon
    <3>3. CASE j # b[p]
      <4>1. PICK m \in 1..NBUF : lru[m] = j
        BY Zenon DEF BInv, Listed
      <4>2. CASE m < n
        <5>1. m + 1 \in 1..NBUF /\ MovedFirst(b[p])[m + 1] = j
          BY <3>1, <4>1, <4>2
        <5> QED
          BY <5>1, Zenon
      <4>3. CASE m > n
        <5>1. MovedFirst(b[p])[m] = j
          BY <3>1, <4>1, <4>3
        <5> QED
          BY <5>1, Zenon
      <4> QED
        BY <3>1, <3>3, <4>1, <4>2, <4>3
    <3> QED
      BY <3>2, <3>3, Zenon
  <2> QED
    BY <2>1, Zenon DEF BInv, Listed, BrelseDrop
<1>5. LockHeld'
  BY DEF BInv, TypeOK, LockHeld, BrelseDrop
<1>6. Filled'
  BY DEF BInv, TypeOK, Filled, LockHeld, BrelseDrop
<1>7. PinnedCached'
  BY Zenon DEF BInv, TypeOK, Filled, PinnedCached, BrelseDrop
<1>8. Clean'
  BY DEF BInv, TypeOK, OneBufferPerBlock, LockHeld, Filled, Clean, BrelseDrop
<1> QED
  BY <1>1, <1>2, <1>3, <1>4, <1>5, <1>6, <1>7, <1>8 DEF BInv

\* Every step preserves it.
LEMMA StepBInv == BInv /\ [Next]_vars => BInv'
<1> SUFFICES ASSUME BInv, [Next]_vars PROVE BInv'
  BY Zenon
<1>1. ASSUME NEW p \in Proc, NEW k \in Block, Bget(p, k) PROVE BInv'
  <2>1. CASE Cached(k) # {}
    <3> DEFINE i == CHOOSE i \in Cached(k) : TRUE
    <3>1. i \in Buf /\ blockno[i] = k
      BY <2>1, Zenon DEF Cached
    <3> QED
      BY <1>1, <2>1, <3>1, GetHit, Zenon DEF Bget
  <2>2. CASE Cached(k) = {} /\ Unused # {}
    <3>1. Victim \in Unused
      BY <2>2, VictimUnused, Zenon DEF BInv
    <3> QED
      BY <1>1, <2>2, <3>1, GetRecycled, Zenon DEF Bget, Recycled
  <2>3. CASE Cached(k) = {} /\ Unused = {}
    BY <1>1, <2>3, GetPanics, Zenon DEF Bget
  <2> QED
    BY <2>1, <2>2, <2>3, Zenon
<1>2. ASSUME NEW p \in Proc, AcquireSleep(p) PROVE BInv'
  BY <1>2, LockBusy, LockTaken, Zenon DEF AcquireSleep
<1>3. ASSUME NEW p \in Proc, Bread(p) PROVE BInv'
  BY <1>3, ReadCached, ReadDisk, Zenon DEF Bread
<1>4. ASSUME NEW p \in Proc, Change(p) PROVE BInv'
  BY <1>4, Changes, Zenon
<1>5. ASSUME NEW p \in Proc, Bwrite(p) PROVE BInv'
  <2>1. locked[b[p]] = p
    BY <1>5, Zenon DEF BInv, TypeOK, LockHeld, Bwrite
  <2> QED
    BY <1>5, <2>1, Writes, Zenon DEF Bwrite
<1>6. ASSUME NEW p \in Proc, Bpin(p) PROVE BInv'
  BY <1>6, PinsAgain, PinsFirst, Zenon DEF Bpin
<1>7. ASSUME NEW p \in Proc, Bunpin(p) PROVE BInv'
  BY <1>7, Unpins
<1>8. ASSUME NEW p \in Proc, BrelseUnlock(p) PROVE BInv'
  <2>1. locked[b[p]] = p
    BY <1>8, Zenon DEF BInv, TypeOK, LockHeld, BrelseUnlock
  <2> QED
    BY <1>8, <2>1, Unlocks, Zenon DEF BrelseUnlock
<1>9. ASSUME NEW p \in Proc, BrelseDrop(p) PROVE BInv'
  BY <1>9, Drops
<1>10. ASSUME UNCHANGED vars PROVE BInv'
  <2>1. TypeOK' /\ OneBufferPerBlock' /\ Listed' /\ LockHeld'
    BY <1>10 DEF vars, BInv, TypeOK, OneBufferPerBlock, Listed, LockHeld
  <2>2. Filled' /\ PinnedCached' /\ Clean'
    BY <1>10, Zenon DEF vars, BInv, Filled, PinnedCached, Clean
  <2>3. RefcntExact'
    BY <1>10, Zenon DEF vars, BInv, RefcntExact, Users
  <2> QED
    BY <2>1, <2>2, <2>3, Zenon DEF BInv
<1> QED
  BY <1>1, <1>2, <1>3, <1>4, <1>5, <1>6, <1>7, <1>8, <1>9, <1>10, Zenon DEF
     Next, Step, Use

\* So it holds in every reachable state.
LEMMA InvariantBInv == Spec => []BInv
BY InitBInv, StepBInv, PTL DEF Spec

\* Theorem: a block has one buffer at most, and the reference count of a buffer
\* is the number of its users plus its pin, whatever the number of processes,
\* blocks and buffers (bget, brelse, bpin, bunpin).
THEOREM BuffersStaySound == Spec => []BuffersSound
<1>1. BInv => BuffersSound
  BY Zenon DEF BInv, BuffersSound
<1> QED
  BY <1>1, InvariantBInv, PTL

-----------------------------------------------------------------------------
(* bget's panic. *)

\* When no buffer is unused, each of them is pinned or has a user, and they
\* hold different blocks.
LEMMA AllInUse ==
  ASSUME BInv, Unused = {}
  PROVE  Cardinality(pinned \cup {blockno[i] : i \in {j \in Buf : Users(j) # {}}}) = NBUF
<1> DEFINE S == pinned \cup {blockno[i] : i \in {j \in Buf : Users(j) # {}}}
<1>1. \A i \in Buf : blockno[i] \in pinned \/ Users(i) # {}
  <2> SUFFICES ASSUME NEW i \in Buf, blockno[i] \notin pinned, Users(i) = {}
               PROVE  FALSE
    BY Zenon
  <2>1. Cardinality(Users(i)) = 0
    BY FS_EmptySet, Zenon
  <2>2. refcnt[i] = 0
    BY <2>1, RefcntCounts DEF BInv
  <2> QED
    BY <2>2, Zenon DEF Unused
<1>2. \A i \in Buf : blockno[i] # None /\ blockno[i] \in S
  BY <1>1, BioAssumption DEF BInv, TypeOK, Filled, Users
<1>3. \A k \in S : \E i \in Buf : blockno[i] = k
  BY Zenon DEF BInv, PinnedCached
<1> HIDE DEF S
<1>4. blockno \in [Buf -> S]
  BY <1>2, Zenon DEF BInv, TypeOK
<1>5. blockno \in Bijection(Buf, S)
  BY <1>2, <1>3, <1>4, Zenon DEF BInv, OneBufferPerBlock, Bijection, Injection,
     Surjection, IsInjective
<1>6. IsFiniteSet(Buf) /\ Cardinality(Buf) = NBUF
  BY FS_Interval, BioAssumption DEF Buf
<1>7. Cardinality(S) = Cardinality(Buf)
  BY <1>5, <1>6, FS_Bijection, Zenon DEF ExistsBijection
<1> QED
  BY <1>6, <1>7, Zenon DEF S

\* Theorem: bget panics ("bget: no buffers") only when NBUF different blocks are
\* in use or pinned, for every order in which brelse arranged the list.
THEOREM PanicMeansFull == Spec => PanicOnlyWhenFull
<1> DEFINE Full(p) ==
      pc[p] # "panic" /\ pc'[p] = "panic" =>
       /\ pc[p] = "idle"
       /\ Cardinality(pinned \cup {blockno[i] : i \in {j \in Buf : Users(j) # {}}}) = NBUF
<1>1. ASSUME BInv, [Next]_vars, NEW p \in Proc PROVE Full(p)
  <2> SUFFICES ASSUME pc[p] # "panic", pc'[p] = "panic"
               PROVE  pc[p] = "idle" /\ Unused = {}
    BY <1>1, AllInUse, Zenon
  <2>1. ASSUME NEW q \in Proc, NEW k \in Block, Bget(q, k)
        PROVE  pc[p] = "idle" /\ Unused = {}
    BY <1>1, <2>1, Zenon DEF Bget, BInv, TypeOK
  <2>2. ASSUME NEW q \in Proc, Bwrite(q) \/ BrelseUnlock(q) PROVE FALSE
    <3>1. locked[b[q]] = q
      BY <1>1, <2>2 DEF BInv, TypeOK, LockHeld, Bwrite, BrelseUnlock
    <3> QED
      BY <1>1, <2>2, <3>1, Zenon DEF Bwrite, BrelseUnlock, BInv, TypeOK, Woken
  <2>3. ASSUME NEW q \in Proc,
               AcquireSleep(q) \/ Bread(q) \/ BrelseDrop(q) \/ Change(q) \/ Bpin(q) \/ Bunpin(q)
        PROVE  FALSE
    BY <1>1, <2>3, Zenon DEF AcquireSleep, Bread, BrelseDrop, Change, Bpin,
       Bunpin, BInv, TypeOK
  <2>4. CASE UNCHANGED vars
    BY <2>4, Zenon DEF vars
  <2> QED
    BY <1>1, <2>1, <2>2, <2>3, <2>4, Zenon DEF Next, Step, Use
<1>2. BInv /\ [Next]_vars => [\A p \in Proc : Full(p)]_vars
  BY <1>1, Zenon
<1> QED
  BY <1>2, InvariantBInv, PTL DEF Spec, PanicOnlyWhenFull

-----------------------------------------------------------------------------
(* The cache implements BlockStore. *)

\* Process p is the user of block k between bread and brelse.
Holds(p, k) == pc[p] = "hold" /\ blockno[b[p]] = k

\* The abstract owner of a block is the process that holds it, and there is one
\* at most.
OwnerFacts ==
  \A k \in Block :
    /\ Owner(k) \in Proc \cup {None}
    /\ \A p \in Proc : Owner(k) = p <=> Holds(p, k)

\* The abstract contents of a block are those of its valid buffer, or else those
\* of the disk.
ContentFacts ==
  \A k \in Block :
    /\ \A i \in Buf : blockno[i] = k /\ valid[i] => Content(k) = data[i]
    /\ (\A i \in Buf : ~(blockno[i] = k /\ valid[i])) => Content(k) = disk[k]

\* Both follow from the invariant.
LEMMA Views == BInv => OwnerFacts /\ ContentFacts
<1> SUFFICES ASSUME BInv PROVE OwnerFacts /\ ContentFacts
  BY Zenon
<1>1. OwnerFacts
  <2> SUFFICES ASSUME NEW k \in Block
               PROVE  /\ Owner(k) \in Proc \cup {None}
                      /\ \A p \in Proc : Owner(k) = p <=> Holds(p, k)
    BY Zenon DEF OwnerFacts
  <2>1. \A p, q \in Proc : Holds(p, k) /\ Holds(q, k) => p = q
    BY BioAssumption DEF Holds, BInv, TypeOK, OneBufferPerBlock, LockHeld
  <2>2. Owner(k) = IF \E p \in Proc : Holds(p, k)
                   THEN CHOOSE p \in Proc : Holds(p, k) ELSE None
    BY Zenon DEF Owner, Holds
  <2> QED
    BY <2>1, <2>2, BioAssumption, Zenon
<1>2. ContentFacts
  <2> SUFFICES ASSUME NEW k \in Block, NEW i \in Buf, blockno[i] = k, valid[i]
               PROVE  Content(k) = data[i]
    BY DEF ContentFacts, Content
  <2>1. \A j \in Buf : blockno[j] = k => j = i
    BY BioAssumption, Zenon DEF BInv, OneBufferPerBlock
  <2> QED
    BY <2>1, Zenon DEF Content
<1> QED
  BY <1>1, <1>2, Zenon

\* The same after a step.
LEMMA ViewsNext == BInv' => OwnerFacts' /\ ContentFacts'
BY Views, PTL

\* A step that moves nobody in or out of "hold" changes no owner.
LEMMA SameOwner ==
  ASSUME OwnerFacts, OwnerFacts',
         \A p \in Proc : /\ pc'[p] = "hold" <=> pc[p] = "hold"
                         /\ pc[p] = "hold" => blockno'[b'[p]] = blockno[b[p]]
  PROVE  [k \in Block |-> Owner(k)]' = [k \in Block |-> Owner(k)]
<1>1. \A p \in Proc, k \in Block : Holds(p, k)' <=> Holds(p, k)
  BY Zenon DEF Holds
<1>2. \A k \in Block : Owner(k)' = Owner(k)
  BY <1>1, BioAssumption, Zenon DEF OwnerFacts
<1> QED
  BY <1>2, Zenon

\* A step that leaves the disk, the data and the block of each valid buffer as
\* they are changes no content.
LEMMA SameContent ==
  ASSUME ContentFacts, ContentFacts',
         UNCHANGED <<blockno, valid, data, disk>>
  PROVE  [k \in Block |-> Content(k)]' = [k \in Block |-> Content(k)]
BY Zenon DEF Content

\* Theorem: the cache implements a store of blocks, each with its own lock:
\* bread returns what the last user of the block left, although buffers are
\* recycled in between (bread, bwrite, brelse, log_write).
THEOREM CacheImplementsBlockStore == Spec => ImplementsBlockStore
<1>1. Init => Store!StoreInit
  <2> SUFFICES ASSUME Init PROVE Store!StoreInit
    OBVIOUS
  <2>1. BInv /\ OwnerFacts /\ ContentFacts
    BY InitBInv, Views, Zenon
  <2>2. \A k \in Block : Owner(k) = None
    BY <2>1, Zenon DEF Init, Owner
  <2>3. \A k \in Block : Content(k) \in Data
    BY BioAssumption, Zenon DEF Init, Content, Zero
  <2> QED
    BY <2>2, <2>3, Zenon DEF Store!StoreInit
<1>2. ASSUME BInv, [Next]_vars, BInv', OwnerFacts, OwnerFacts', ContentFacts,
             ContentFacts'
      PROVE  [Store!StoreNext]_<<[k \in Block |-> Owner(k)], [k \in Block |-> Content(k)]>>
  <2> DEFINE owner == [k \in Block |-> Owner(k)]
             content == [k \in Block |-> Content(k)]
  <2>1. ASSUME NEW p \in Proc, NEW k \in Block, Bget(p, k)
        PROVE  owner' = owner /\ content' = content
    <3>1. CASE Cached(k) = {} /\ Unused # {}
      <4>1. Victim \in Buf /\ Victim \in Unused
        BY <1>2, <3>1, VictimUnused, Zenon DEF BInv, Unused
      <4>2. Users(Victim) = {} /\ blockno[Victim] \notin pinned
        BY <1>2, <4>1, RefcntCounts, Zenon DEF BInv, Unused
      <4>3. owner' = owner
        BY <1>2, <2>1, <3>1, <4>1, <4>2, SameOwner DEF Bget, Users, BInv, TypeOK
      <4>4. ASSUME NEW j \in Block PROVE Content(j)' = Content(j)
        <5>1. CASE j = k
          <6>1. Content(j) = disk[j]
            BY <1>2, <3>1, <5>1, Zenon DEF ContentFacts, Cached
          <6>2. \A i \in Buf : ~(blockno'[i] = j /\ valid'[i])
            BY <1>2, <2>1, <3>1, <4>1, <5>1 DEF Bget, Recycled, Cached, BInv, TypeOK
          <6>3. Content(j)' = disk'[j]
            BY <1>2, <6>2, Zenon DEF ContentFacts
          <6> QED
            BY <2>1, <6>1, <6>3, Zenon DEF Bget
        <5>2. CASE j # k /\ \E i \in Buf \ {Victim} : blockno[i] = j /\ valid[i]
          <6>1. PICK i \in Buf \ {Victim} : blockno[i] = j /\ valid[i]
            BY <5>2, Zenon
          <6>2. blockno'[i] = j /\ valid'[i] /\ data'[i] = data[i]
            BY <1>2, <2>1, <3>1, <4>1, <6>1 DEF Bget, Recycled, BInv, TypeOK
          <6> QED
            BY <1>2, <6>1, <6>2 DEF ContentFacts
        <5>3. CASE j # k /\ ~\E i \in Buf \ {Victim} : blockno[i] = j /\ valid[i]
          <6>1. Content(j) = disk[j]
            <7>1. CASE blockno[Victim] = j /\ valid[Victim]
              <8>1. data[Victim] = disk[j]
                BY <1>2, <4>1, <4>2, <7>1, BioAssumption, Zenon DEF BInv, TypeOK,
                   Clean, Users
              <8> QED
                BY <1>2, <4>1, <7>1, <8>1, Zenon DEF ContentFacts
            <7>2. CASE ~(blockno[Victim] = j /\ valid[Victim])
              BY <1>2, <5>3, <7>2 DEF ContentFacts
            <7> QED
              BY <7>1, <7>2, Zenon
          <6>2. ASSUME NEW i \in Buf, blockno'[i] = j, valid'[i] PROVE FALSE
            <7>0. blockno' = [blockno EXCEPT ![Victim] = k] /\ valid' = [valid EXCEPT ![Victim] = FALSE]
              BY <2>1, <3>1, Zenon DEF Bget, Recycled
            <7>1. blockno'[Victim] = k /\ (i # Victim => blockno'[i] = blockno[i] /\ valid'[i] = valid[i])
              BY <1>2, <4>1, <7>0, Zenon DEF BInv, TypeOK
            <7>2. i # Victim
              BY <5>3, <6>2, <7>1, Zenon
            <7> QED
              BY <5>3, <6>2, <7>1, <7>2, Zenon
          <6>3. Content(j)' = disk'[j]
            BY <1>2, <6>2 DEF ContentFacts
          <6> QED
            BY <2>1, <6>1, <6>3 DEF Bget
        <5> QED
          BY <5>1, <5>2, <5>3, Zenon
      <4> QED
        BY <4>3, <4>4, Zenon
    <3>2. CASE Cached(k) # {} \/ Unused = {}
      <4>1. UNCHANGED <<blockno, valid, data, disk>>
        BY <2>1, <3>2, Zenon DEF Bget
      <4>2. \A q \in Proc : /\ pc'[q] = "hold" <=> pc[q] = "hold"
                            /\ pc[q] = "hold" => b'[q] = b[q]
        <5>1. pc[p] = "idle" /\ \E l \in {"lock", "panic"} : pc' = [pc EXCEPT ![p] = l]
          BY <2>1, <3>2, Zenon DEF Bget, Goto
        <5>2. b' = b \/ \E i : b' = [b EXCEPT ![p] = i]
          BY <2>1, <3>2, Zenon DEF Bget
        <5>3. ASSUME NEW q \in Proc, q # p PROVE pc'[q] = pc[q] /\ b'[q] = b[q]
          BY <1>2, <5>1, <5>2, <5>3, Zenon DEF BInv, TypeOK
        <5>4. pc'[p] # "hold"
          BY <1>2, <5>1, Zenon DEF BInv, TypeOK
        <5> QED
          BY <5>1, <5>3, <5>4, Zenon
      <4> QED
        BY <1>2, <4>1, <4>2, SameOwner, SameContent, Zenon
    <3> QED
      BY <3>1, <3>2, Zenon
  <2>2. ASSUME NEW p \in Proc, AcquireSleep(p) \/ BrelseDrop(p) \/ Bpin(p) \/ Bunpin(p)
        PROVE  owner' = owner /\ content' = content
    <3>1. UNCHANGED <<blockno, valid, data, disk, b>>
      BY <2>2, Zenon DEF AcquireSleep, BrelseDrop, Bpin, Bunpin
    <3>2. \A q \in Proc : pc'[q] = "hold" <=> pc[q] = "hold"
      BY <1>2, <2>2, Zenon DEF AcquireSleep, BrelseDrop, Bpin, Bunpin, BInv,
         TypeOK
    <3> QED
      BY <1>2, <3>1, <3>2, SameOwner, SameContent, Zenon
  <2>3. ASSUME NEW p \in Proc, Bread(p) PROVE Store!StoreNext
    <3> DEFINE k == blockno[b[p]]
    <3>1. b[p] \in Buf /\ k \in Block
      BY <1>2, <2>3 DEF Bread, BInv, TypeOK, Filled
    <3>2. \A q \in Proc : pc[q] = "hold" => b[q] # b[p]
      BY <1>2, <2>3, <3>1, BioAssumption DEF Bread, BInv, TypeOK, LockHeld
    <3>3. owner[k] = None
      <4>1. \A q \in Proc : ~Holds(q, k)
        BY <1>2, <3>1, <3>2, BioAssumption, Zenon DEF Holds, BInv, TypeOK,
           OneBufferPerBlock
      <4> QED
        BY <1>2, <3>1, <4>1, Zenon DEF OwnerFacts
    <3>4. owner' = [owner EXCEPT ![k] = p]
      <4>1. ASSUME NEW j \in Block PROVE Owner(j)' = IF j = k THEN p ELSE Owner(j)
        <5>1. \A q \in Proc : Holds(q, j)' <=> Holds(q, j) \/ (q = p /\ j = k)
          BY <1>2, <2>3, Zenon DEF Holds, Bread, BInv, TypeOK
        <5> QED
          BY <1>2, <3>1, <3>3, <5>1, BioAssumption, Zenon DEF OwnerFacts
      <4> QED
        BY <3>1, <4>1, Zenon
    <3>5. content' = content
      <4>1. CASE valid[b[p]]
        BY <1>2, <2>3, <4>1, SameContent, Zenon DEF Bread
      <4>2. CASE ~valid[b[p]]
        <5>1. ASSUME NEW j \in Block PROVE Content(j)' = Content(j)
          <6>1. CASE j = k
            <7>0. OneBufferPerBlock /\ j # None
              BY <1>2, BioAssumption, Zenon DEF BInv
            <7>a. ASSUME NEW i \in Buf, blockno[i] = j, valid[i] PROVE FALSE
              <8>1. i = b[p]
                BY <3>1, <6>1, <7>0, <7>a, Zenon DEF OneBufferPerBlock
              <8> QED
                BY <4>2, <7>a, <8>1, Zenon
            <7>1. Content(j) = disk[j]
              BY <1>2, <7>a, Zenon DEF ContentFacts
            <7>2. blockno'[b[p]] = j /\ valid'[b[p]] /\ data'[b[p]] = disk[j]
              BY <1>2, <2>3, <3>1, <4>2, <6>1, Zenon DEF Bread, BInv, TypeOK
            <7> QED
              BY <1>2, <3>1, <7>1, <7>2, Zenon DEF ContentFacts
          <6>2. CASE j # k /\ \E i \in Buf : blockno[i] = j /\ valid[i]
            <7>1. PICK i \in Buf : blockno[i] = j /\ valid[i]
              BY <6>2, Zenon
            <7>2. blockno'[i] = j /\ valid'[i] /\ data'[i] = data[i]
              BY <1>2, <2>3, <4>2, <6>2, <7>1 DEF Bread, BInv, TypeOK
            <7> QED
              BY <1>2, <7>1, <7>2 DEF ContentFacts
          <6>3. CASE j # k /\ ~\E i \in Buf : blockno[i] = j /\ valid[i]
            <7>1. \A i \in Buf : ~(blockno'[i] = j /\ valid'[i])
              BY <1>2, <2>3, <3>1, <4>2, <6>3 DEF Bread, BInv, TypeOK
            <7>2. Content(j) = disk[j]
              BY <1>2, <6>3, Zenon DEF ContentFacts
            <7>3. Content(j)' = disk'[j]
              BY <1>2, <7>1, Zenon DEF ContentFacts
            <7> QED
              BY <2>3, <7>2, <7>3, Zenon DEF Bread
          <6> QED
            BY <6>1, <6>2, <6>3, Zenon
        <5> QED
          BY <5>1, Zenon
      <4> QED
        BY <4>1, <4>2, Zenon
    <3> QED
      BY <3>1, <3>3, <3>4, <3>5, Zenon DEF Store!StoreNext, Store!Take
  <2>4. ASSUME NEW p \in Proc, Change(p) PROVE Store!StoreNext
    <3> DEFINE k == blockno[b[p]]
    <3>0. TypeOK /\ Filled /\ pc[p] = "hold"
      BY <1>2, <2>4, Zenon DEF Change, BInv
    <3>a. b[p] \in Buf /\ valid[b[p]] /\ k # None
      BY <3>0, Zenon DEF TypeOK, Filled
    <3>1. b[p] \in Buf /\ k \in Block /\ valid[b[p]]
      BY <3>0, <3>a, Zenon DEF TypeOK
    <3>2. PICK d \in Data : data' = [data EXCEPT ![b[p]] = d]
      BY <2>4, Zenon DEF Change
    <3>3. owner[k] = p
      <4>1. Holds(p, k)
        BY <2>4, Zenon DEF Holds, Change
      <4> QED
        BY <1>2, <3>1, <4>1, Zenon DEF OwnerFacts
    <3>4. owner' = owner
      BY <1>2, <2>4, SameOwner, Zenon DEF Change
    <3>5. content' = [content EXCEPT ![k] = d]
      <4>1. ASSUME NEW j \in Block PROVE Content(j)' = IF j = k THEN d ELSE Content(j)
        <5>1. CASE j = k
          <6>1. blockno'[b[p]] = j /\ valid'[b[p]] /\ data'[b[p]] = d
            BY <1>2, <2>4, <3>1, <3>2, <5>1, Zenon DEF Change, BInv, TypeOK
          <6> QED
            BY <1>2, <3>1, <5>1, <6>1, Zenon DEF ContentFacts
        <5>2. CASE j # k /\ \E i \in Buf : blockno[i] = j /\ valid[i]
          <6>1. PICK i \in Buf : blockno[i] = j /\ valid[i]
            BY <5>2, Zenon
          <6>2. blockno'[i] = j /\ valid'[i] /\ data'[i] = data[i]
            BY <1>2, <2>4, <3>2, <5>2, <6>1, Zenon DEF Change, BInv, TypeOK
          <6> QED
            BY <1>2, <5>2, <6>1, <6>2 DEF ContentFacts
        <5>3. CASE j # k /\ ~\E i \in Buf : blockno[i] = j /\ valid[i]
          BY <1>2, <2>4, <5>3 DEF ContentFacts, Change
        <5> QED
          BY <5>1, <5>2, <5>3, Zenon
      <4> QED
        BY <3>1, <4>1, Zenon
    <3>6. Store!Update(p, k)
      BY <3>2, <3>3, <3>4, <3>5, Zenon DEF Store!Update
    <3> HIDE DEF k
    <3> QED
      BY <3>1, <3>6, Zenon DEF Store!StoreNext
  <2>5. ASSUME NEW p \in Proc, Bwrite(p) PROVE owner' = owner /\ content' = content
    <3> DEFINE k == blockno[b[p]]
    <3>1. b[p] \in Buf /\ k \in Block /\ valid[b[p]] /\ locked[b[p]] = p
      BY <1>2, <2>5 DEF Bwrite, BInv, TypeOK, Filled, LockHeld
    <3>2. owner' = owner
      BY <1>2, <2>5, <3>1, SameOwner, Zenon DEF Bwrite
    <3>3. ASSUME NEW j \in Block PROVE Content(j)' = Content(j)
      <4>1. CASE \E i \in Buf : blockno[i] = j /\ valid[i]
        BY <1>2, <2>5, <4>1 DEF ContentFacts, Bwrite
      <4>2. CASE ~\E i \in Buf : blockno[i] = j /\ valid[i]
        <5>1. j # k /\ disk'[j] = disk[j]
          BY <1>2, <2>5, <3>1, <4>2, Zenon DEF Bwrite, BInv, TypeOK
        <5> QED
          BY <1>2, <2>5, <4>2, <5>1 DEF ContentFacts, Bwrite
      <4> QED
        BY <4>1, <4>2, Zenon
    <3> QED
      BY <3>2, <3>3, Zenon
  <2>6. ASSUME NEW p \in Proc, BrelseUnlock(p) PROVE Store!StoreNext
    <3> DEFINE k == blockno[b[p]]
    <3>1. b[p] \in Buf /\ k \in Block /\ locked[b[p]] = p
      BY <1>2, <2>6 DEF BrelseUnlock, BInv, TypeOK, Filled, LockHeld
    <3>2. owner[k] = p
      <4>1. Holds(p, k)
        BY <2>6, Zenon DEF Holds, BrelseUnlock
      <4> QED
        BY <1>2, <3>1, <4>1, Zenon DEF OwnerFacts
    <3>3. owner' = [owner EXCEPT ![k] = None]
      <4>1. ASSUME NEW j \in Block PROVE Owner(j)' = IF j = k THEN None ELSE Owner(j)
        <5>1. \A q \in Proc : Holds(q, j)' <=> Holds(q, j) /\ q # p
          BY <1>2, <2>6, <3>1, Zenon DEF Holds, BrelseUnlock, Woken, BInv,
             TypeOK
        <5>2. Holds(p, j) <=> j = k
          BY <2>6, Zenon DEF Holds, BrelseUnlock
        <5> QED
          BY <1>2, <3>1, <3>2, <5>1, <5>2, BioAssumption, Zenon DEF OwnerFacts
      <4> QED
        BY <3>1, <4>1, Zenon
    <3>4. content' = content
      BY <1>2, <2>6, SameContent, Zenon DEF BrelseUnlock
    <3> QED
      BY <3>1, <3>2, <3>3, <3>4, Zenon DEF Store!StoreNext, Store!Drop
  <2>7. ASSUME UNCHANGED vars PROVE owner' = owner /\ content' = content
    BY <1>2, <2>7, SameOwner, SameContent, Zenon DEF vars
  <2> HIDE DEF owner, content
  <2> QED
    BY <1>2, <2>1, <2>2, <2>3, <2>4, <2>5, <2>6, <2>7, Zenon DEF Next, Step,
       Use, owner, content
<1>3. BInv /\ BInv' /\ [Next]_vars
        => [Store!StoreNext]_<<[k \in Block |-> Owner(k)], [k \in Block |-> Content(k)]>>
  BY <1>2, Views, ViewsNext, Zenon
<1> QED
  BY <1>1, <1>3, InvariantBInv, PTL DEF Spec, ImplementsBlockStore, Store!StoreSpec
=============================================================================
