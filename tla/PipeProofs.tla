----------------------------- MODULE PipeProofs -----------------------------
(***************************************************************************)
(* Proofs about Pipe, for every number of readers and writers, every size  *)
(* of the buffer and every width of its counters.                          *)
(***************************************************************************)
EXTENDS Pipe, NumberFacts, TLAPS

\* The control states in which a process holds pi->lock.
Holding == {"rwait", "rpark", "rloop", "wloop", "wpark"}

\* pi->lock is held by the process inside a critical section, if any.
Locked == \A p \in Proc : pc[p] \in Holding <=> lock = p

\* A process inside piperead or pipewrite holds a reference to its end.
Referenced ==
  /\ \A p \in Proc : pc[p] \in InRead => p \in refs["r"]
  /\ \A p \in Proc : pc[p] \in InWrite => p \in refs["w"]
  /\ refs["w"] \subseteq Writers

\* One that goes on to pipeclose dropped the last reference, and is alone.
Closing ==
  /\ \A p \in Proc : pc[p] = "rclose" => refs["r"] = {} /\ open["r"]
  /\ \A p \in Proc : pc[p] = "wclose" => refs["w"] = {} /\ open["w"]
  /\ \A p, q \in Proc : pc[p] = "rclose" /\ pc[q] = "rclose" => p = q
  /\ \A p, q \in Proc : pc[p] = "wclose" /\ pc[q] = "wclose" => p = q

\* An end that was closed has no references, and the pipe is freed once both
\* ends are closed (pipeclose).
Ended ==
  /\ \A e \in Ends : ~open[e] => refs[e] = {}
  /\ alive <=> \E e \in Ends : open[e]

\* The ring holds at most PIPESIZE bytes.
Bounded == Count <= PIPESIZE

\* A reader that has read nothing yet found a byte or no writer.
Reading == \A p \in Proc : pc[p] = "rloop" /\ i[p] = 0 => ~ReadMustWait

\* A process about to sleep has a reason to, which nobody else can remove.
Parking ==
  /\ \A p \in Proc : pc[p] = "rpark" => Count = 0 /\ open["w"]
  /\ \A p \in Proc : pc[p] = "wpark" => Count = PIPESIZE /\ open["r"]

\* A writer sleeps with a reason, or a reader is about to wake it.
WriterSleeps ==
  \A p \in Proc : pc[p] = "wsleep" =>
    open["r"] /\ (Count = PIPESIZE \/ \E q \in Proc : pc[q] = "rloop")

\* A reader sleeps with a reason, or a writer is about to wake it, until a
\* writer is killed.
ReaderSleeps ==
  \A p \in Proc : pc[p] = "rsleep" =>
    open["w"] /\ (Count = 0 \/ WriterKilled \/ \E q \in Proc : pc[q] = "wloop")

\* The inductive invariant.
PInv ==
  /\ TypeOK /\ Locked /\ Referenced /\ Closing /\ Ended /\ Bounded /\ Reading
  /\ Parking /\ WriterSleeps /\ ReaderSleeps

-----------------------------------------------------------------------------
\* How far counter w is ahead of counter r; Count is the gap of the two
\* counters.
Gap(r, w) == (w - r + UintMod) % UintMod

\* The counters wrap around at UintMod, and their gap still goes up and down by
\* one with them (piperead, pipewrite).
LEMMA GapFacts ==
  ASSUME NEW r \in 0..(UintMod - 1), NEW w \in 0..(UintMod - 1)
  PROVE  /\ Gap(r, w) \in 0..(UintMod - 1)
         /\ Gap(r, w) = 0 <=> r = w
         /\ w = (r + PIPESIZE) % UintMod <=> Gap(r, w) = PIPESIZE
         /\ Inc(r) \in 0..(UintMod - 1)
         /\ Gap(r, w) # 0 => Gap(Inc(r), w) = Gap(r, w) - 1
         /\ Gap(r, w) < PIPESIZE => Gap(r, Inc(w)) = Gap(r, w) + 1
<1>0. UintMod \in Nat \ {0} /\ UintMod > 1 /\ PIPESIZE < UintMod /\ PIPESIZE \in Nat \ {0}
  BY PipeAssumption
<1>2. \A x \in 0..(UintMod - 1) :
        Inc(x) = IF x = UintMod - 1 THEN 0 ELSE x + 1
  BY <1>0 DEF Inc
<1>3. \A x, y \in 0..(UintMod - 1) :
        Gap(x, y) = IF y < x THEN y - x + UintMod ELSE y - x
  BY <1>0 DEF Gap
<1>1. Gap(r, w) = IF w < r THEN w - r + UintMod ELSE w - r
  BY <1>3, Zenon
<1>4. (r + PIPESIZE) % UintMod =
        IF r + PIPESIZE < UintMod THEN r + PIPESIZE ELSE r + PIPESIZE - UintMod
  BY <1>0
<1>5. Inc(r) \in 0..(UintMod - 1) /\ Inc(w) \in 0..(UintMod - 1)
  BY <1>2, PipeAssumption
<1>6. Gap(r, w) # 0 => Gap(Inc(r), w) = Gap(r, w) - 1
  BY <1>1, <1>2, <1>3, <1>5, PipeAssumption
<1>7. Gap(r, w) < PIPESIZE => Gap(r, Inc(w)) = Gap(r, w) + 1
  BY <1>1, <1>2, <1>3, PipeAssumption
<1> QED
  BY <1>1, <1>5, <1>6, <1>7, PipeAssumption

\* pipealloc establishes the invariant.
LEMMA InitPInv == Init => PInv
<1>1. Init => Count = 0
  BY PipeAssumption DEF Init, Count
<1> QED
  BY PipeAssumption DEF Init, PInv, TypeOK, Locked, Referenced, Ended, Closing,
     Bounded, Reading, Parking, WriterSleeps, ReaderSleeps

USE DEF Ends, Holding, InRead, InWrite, ring, Goto, Return, WakeAll, WakeReaders,
        WakeWriters, ReadWake, WriteGivesUp

\* What a step of a counter does to the number of bytes in the ring.
LEMMA CountFacts ==
  ASSUME TypeOK
  PROVE  /\ Count \in Nat
         /\ nread = nwrite <=> Count = 0
         /\ Full <=> Count = PIPESIZE
         /\ Inc(nread) \in 0..(UintMod - 1) /\ Inc(nwrite) \in 0..(UintMod - 1)
         /\ nread # nwrite /\ nread' = Inc(nread) /\ nwrite' = nwrite => Count' = Count - 1
         /\ Count < PIPESIZE /\ nwrite' = Inc(nwrite) /\ nread' = nread => Count' = Count + 1
         /\ nwrite' = nwrite /\ nread' = nread => Count' = Count
<1>1. nread \in 0..(UintMod - 1) /\ nwrite \in 0..(UintMod - 1)
  BY Zenon DEF TypeOK
<1>2. Count = Gap(nread, nwrite) /\ Count' = Gap(nread', nwrite')
  BY Zenon DEF Count, Gap
<1>3. 0..(UintMod - 1) \subseteq Nat
  BY PipeAssumption
<1>4. /\ Count \in Nat
      /\ nread = nwrite <=> Count = 0
      /\ Full <=> Count = PIPESIZE
      /\ Inc(nread) \in 0..(UintMod - 1) /\ Inc(nwrite) \in 0..(UintMod - 1)
  <2>g. LET g == Gap(nread, nwrite)
        IN  g \in 0..(UintMod - 1) /\ (g = 0 <=> nread = nwrite)
    BY <1>1, GapFacts, Zenon
  <2>0. Count \in 0..(UintMod - 1) /\ (Count = 0 <=> nread = nwrite)
    BY <1>2, <2>g, Zenon
  <2>1. Count \in Nat /\ (nread = nwrite <=> Count = 0)
    BY <1>3, <2>0, Zenon
  <2>2. Full <=> Count = PIPESIZE
    BY <1>1, <1>2, GapFacts, Zenon DEF Full
  <2>3. Inc(nread) \in 0..(UintMod - 1) /\ Inc(nwrite) \in 0..(UintMod - 1)
    BY <1>1, GapFacts, Zenon
  <2> QED
    BY <2>1, <2>2, <2>3, Zenon
<1>5. nread # nwrite /\ nread' = Inc(nread) /\ nwrite' = nwrite => Count' = Count - 1
  BY <1>1, <1>2, GapFacts
<1>6. Count < PIPESIZE /\ nwrite' = Inc(nwrite) /\ nread' = nread => Count' = Count + 1
  BY <1>1, <1>2, GapFacts
<1>7. nwrite' = nwrite /\ nread' = nread => Count' = Count
  BY <1>2, Zenon
<1> QED
  BY <1>4, <1>5, <1>6, <1>7, Zenon

\* The number of bytes, and what the counters do to it, whatever the step.
CountStep ==
  /\ Count \in Nat
  /\ nread = nwrite <=> Count = 0
  /\ Full <=> Count = PIPESIZE
  /\ Inc(nread) \in 0..(UintMod - 1) /\ Inc(nwrite) \in 0..(UintMod - 1)
  /\ nwrite' = nwrite /\ nread' = nread => Count' = Count

\* They hold in every state of the invariant.
LEMMA CountNow ==
  ASSUME PInv
  PROVE  CountStep
BY CountFacts, Zenon DEF PInv, CountStep

\* acquire.
LEMMA AcquireKeeps ==
  ASSUME PInv, NEW p \in Proc, Acquire(p)
  PROVE  PInv'
<1> USE PipeAssumption
<1>n. CountStep
  BY CountNow, Zenon
<1>0. Count' = Count
  BY <1>n, Zenon DEF Acquire, CountStep
<1>1. TypeOK'
  BY Zenon DEF PInv, TypeOK, Acquire
<1>2. Locked'
  BY Zenon DEF PInv, TypeOK, Locked, Acquire
<1>3. Referenced'
  BY DEF PInv, Referenced, Acquire
<1>4. Closing'
  BY DEF PInv, Closing, Acquire
<1>5. Ended'
  BY Zenon DEF PInv, Ended, Acquire
<1>6. Bounded'
  BY <1>0, Zenon DEF PInv, Bounded
<1>7. Reading'
  BY DEF PInv, Reading, ReadMustWait, Acquire
<1>8. Parking'
  BY <1>0 DEF PInv, Parking, Acquire
<1>9. WriterSleeps'
  BY <1>0 DEF PInv, WriterSleeps, Acquire
<1>10. ReaderSleeps'
  <2>1. \A q \in Proc : /\ pc'[q] = "rsleep" => pc[q] = "rsleep"
                        /\ pc[q] = "wloop" => pc'[q] = "wloop"
    BY Zenon DEF PInv, TypeOK, Acquire
  <2>2. open' = open /\ killed' = killed
    BY Zenon DEF Acquire
  <2> QED
    BY <1>0, <2>1, <2>2, Zenon DEF PInv, ReaderSleeps, WriterKilled
<1> QED
  BY <1>1, <1>2, <1>3, <1>4, <1>5, <1>6, <1>7, <1>8, <1>9, <1>10, Zenon DEF PInv

\* sleep releases the lock and leaves the CPU in one step.
LEMMA SleepKeeps ==
  ASSUME PInv, NEW p \in Proc, Sleep(p)
  PROVE  PInv'
<1> USE PipeAssumption
<1>n. CountStep
  BY CountNow
<1>0. Count' = Count
  BY <1>n, Zenon DEF Sleep, CountStep
<1>1. TypeOK'
  BY Zenon DEF PInv, TypeOK, Sleep
<1>2. Locked'
  BY Zenon DEF PInv, TypeOK, Locked, Sleep
<1>3. Referenced'
  BY DEF PInv, Referenced, Sleep
<1>4. Closing'
  BY DEF PInv, Closing, Sleep
<1>5. Ended'
  BY Zenon DEF PInv, Ended, Sleep
<1>6. Bounded'
  BY <1>0 DEF PInv, Bounded
<1>7. Reading'
  BY DEF PInv, Reading, ReadMustWait, Sleep
<1>8. Parking'
  BY <1>0 DEF PInv, Parking, Sleep
<1>9. WriterSleeps'
  <2>1. /\ \A q \in Proc : q # p => pc'[q] = pc[q]
        /\ \/ pc[p] = "rpark" /\ pc'[p] = "rsleep"
           \/ pc[p] = "wpark" /\ pc'[p] = "wsleep"
    BY Zenon DEF PInv, TypeOK, Sleep
  <2>2. open' = open
    BY Zenon DEF Sleep
  <2> QED
    BY <1>0, <2>1, <2>2, Zenon DEF PInv, Parking, WriterSleeps
<1>10. ReaderSleeps'
  <2>1. /\ \A q \in Proc : q # p => pc'[q] = pc[q]
        /\ \/ pc[p] = "rpark" /\ pc'[p] = "rsleep"
           \/ pc[p] = "wpark" /\ pc'[p] = "wsleep"
    BY DEF PInv, TypeOK, Sleep
  <2>2. open' = open /\ killed' = killed
    BY Zenon DEF Sleep
  <2> QED
    BY <1>0, <2>1, <2>2, Zenon DEF PInv, Parking, ReaderSleeps, WriterKilled
<1> QED
  BY <1>1, <1>2, <1>3, <1>4, <1>5, <1>6, <1>7, <1>8, <1>9, <1>10 DEF PInv

\* pipewrite has written all it was asked to.
LEMMA WriteDoneKeeps ==
  ASSUME PInv, NEW p \in Proc, WriteDone(p)
  PROVE  PInv'
<1> USE PipeAssumption
<1>n. CountStep
  BY CountNow
<1>0. Count' = Count
  BY <1>n, Zenon DEF WriteDone, CountStep
<1>1. TypeOK'
  BY DEF PInv, TypeOK, WriteDone
<1>2. Locked'
  BY Zenon DEF PInv, Locked, WriteDone
<1>3. Referenced'
  BY Zenon DEF PInv, Referenced, WriteDone
<1>4. Closing'
  BY Zenon DEF PInv, Closing, WriteDone
<1>5. Ended'
  BY Zenon DEF PInv, Ended, WriteDone
<1>6. Bounded'
  BY <1>0 DEF PInv, Bounded
<1>7. Reading'
  BY Zenon DEF PInv, Reading, ReadMustWait, WriteDone
<1>8. Parking'
  BY <1>0, Zenon DEF PInv, Parking, WriteDone
<1>9. WriterSleeps'
  BY <1>0, Zenon DEF PInv, WriterSleeps, WriteDone
<1>10. ReaderSleeps'
  BY Zenon DEF ReaderSleeps, WriteDone
<1> QED
  BY <1>1, <1>2, <1>3, <1>4, <1>5, <1>6, <1>7, <1>8, <1>9, <1>10 DEF PInv

\* pipewrite finds the ring full.
LEMMA WriteFullKeeps ==
  ASSUME PInv, NEW p \in Proc, WriteFull(p)
  PROVE  PInv'
<1> USE PipeAssumption
<1>n. CountStep
  BY CountNow
<1>0. Count' = Count
  BY <1>n, Zenon DEF WriteFull, CountStep
<1>1. CASE WriteGivesUp(p)
  <2>0. /\ pc' = [pc EXCEPT ![p] = "user"] /\ lock' = None
        /\ ret' = [ret EXCEPT ![p] = -1]
        /\ UNCHANGED <<ring, open, alive, refs, i, n, got, killed, calls>>
    BY <1>1, Zenon DEF WriteFull
  <2>1. TypeOK'
    <3>1. ret' \in [Proc -> Int] /\ lock' \in Proc \cup {None}
      BY <2>0 DEF PInv, TypeOK
    <3>2. pc' \in [Proc -> {"user", "rlock", "rwait", "rpark", "rsleep", "rloop",
                          "rclose", "wlock", "wloop", "wpark", "wsleep", "wclose"}]
      BY <2>0, Zenon DEF PInv, TypeOK
    <3> QED
      BY <2>0, <3>1, <3>2, Zenon DEF PInv, TypeOK
  <2>2. Locked'
    BY <2>0, Zenon DEF PInv, TypeOK, Locked, WriteFull
  <2>3. Referenced'
    BY <2>0 DEF PInv, Referenced
  <2>4. Closing'
    <3>1. \A q \in Proc : pc'[q] \in {"rclose", "wclose"} => pc'[q] = pc[q]
      BY <2>0
    <3> QED
      BY <2>0 DEF PInv, Closing
  <2>5. Ended'
    BY <2>0, Zenon DEF PInv, Ended
  <2>6. Bounded'
    BY <1>0 DEF PInv, Bounded
  <2>7. Reading'
    BY <1>n, Zenon DEF Reading, ReadMustWait, WriteFull, CountStep
  <2>8. Parking'
    BY <1>n, <1>0, <1>1, <2>0, Zenon DEF PInv, TypeOK, Locked, Parking,
       ReadMustWait, WriteFull, CountStep
  <2>9. WriterSleeps'
    BY <1>0, <2>0 DEF PInv, WriterSleeps, WriteFull
  <2>10. ReaderSleeps'
    <3>1. \A q \in Proc : pc'[q] = "rsleep" => pc[q] = "rsleep"
      BY <2>0
    <3>2. CASE killed[p]
      <4>1. p \in Writers /\ WriterKilled'
        BY <3>2, Zenon DEF PInv, Referenced, WriteFull, WriterKilled
      <4> QED
        BY <2>0, <4>1 DEF PInv, ReaderSleeps
    <3>3. CASE ~open["r"]
      <4>1. \A q \in Proc : pc[q] # "rsleep"
        BY <3>3, Zenon DEF PInv, Referenced, Ended
      <4> QED
        BY <3>1, <4>1, Zenon DEF ReaderSleeps
    <3> QED
      BY <1>1, <3>2, <3>3, Zenon
  <2> QED
    BY <2>1, <2>2, <2>3, <2>4, <2>5, <2>6, <2>7, <2>8, <2>9, <2>10 DEF PInv
<1>2. CASE ~WriteGivesUp(p)
  <2>0. /\ pc' = [WakeReaders(pc) EXCEPT ![p] = "wpark"]
        /\ UNCHANGED <<lock, ret>>
        /\ UNCHANGED <<ring, open, alive, refs, i, n, got, killed, calls>>
    BY <1>2, Zenon DEF WriteFull
  <2>1. TypeOK'
    BY <2>0, Zenon DEF PInv, TypeOK
  <2>2. Locked'
    BY <2>0, Zenon DEF PInv, Locked, WriteFull
  <2>3. Referenced'
    BY <2>0, Zenon DEF PInv, Referenced, WriteFull
  <2>4. Closing'
    <3>1. \A q \in Proc : pc'[q] \in {"rclose", "wclose"} => pc'[q] = pc[q]
      BY <2>0, Zenon
    <3> QED
      BY <2>0, Zenon DEF PInv, Closing
  <2>5. Ended'
    BY <2>0, Zenon DEF PInv, Ended
  <2>6. Bounded'
    BY <1>0 DEF PInv, Bounded
  <2>7. Reading'
    BY <1>n DEF Reading, ReadMustWait, WriteFull, CountStep
  <2>8. Parking'
    BY <1>n, <2>0, Zenon DEF PInv, Parking, WriteFull, CountStep
  <2>9. WriterSleeps'
    BY <1>n, <2>0, Zenon DEF WriterSleeps, WriteFull, CountStep
  <2>10. ReaderSleeps'
    <3>1. \A q \in Proc : pc'[q] # "rsleep"
      BY <2>0, Zenon
    <3> QED
      BY <3>1, Zenon DEF ReaderSleeps
  <2> QED
    BY <2>1, <2>2, <2>3, <2>4, <2>5, <2>6, <2>7, <2>8, <2>9, <2>10 DEF PInv
<1> QED
  BY <1>1, <1>2, Zenon

\* pipewrite stores a byte.
LEMMA WriteByteKeeps ==
  ASSUME PInv, NEW p \in Proc, WriteByte(p)
  PROVE  PInv'
<1> USE PipeAssumption
<1>n. CountStep
  BY CountNow
<1>0. Count' = Count + 1
  BY CountFacts DEF PInv, Bounded, WriteByte
<1>1. TypeOK'
  <2>1. nwrite' \in 0..(UintMod - 1) /\ i' \in [Proc -> Nat]
    BY <1>n DEF PInv, TypeOK, WriteByte, CountStep
  <2>2. data' \in [0..(PIPESIZE - 1) -> Byte]
    BY Zenon DEF PInv, TypeOK, WriteByte
  <2> QED
    BY <2>1, <2>2, Zenon DEF PInv, TypeOK, WriteByte
<1>2. Locked'
  BY Zenon DEF PInv, Locked, WriteByte
<1>3. Referenced'
  BY Zenon DEF PInv, Referenced, WriteByte
<1>4. Closing'
  BY Zenon DEF PInv, Closing, WriteByte
<1>5. Ended'
  BY Zenon DEF PInv, Ended, WriteByte
<1>6. Bounded'
  BY <1>n, <1>0 DEF PInv, Bounded, WriteByte, CountStep
<1>7. Reading'
  BY Zenon DEF PInv, Locked, Reading, WriteByte
<1>8. Parking'
  BY Zenon DEF PInv, Locked, Parking, WriteByte
<1>9. WriterSleeps'
  BY <1>n, Zenon DEF PInv, WriterSleeps, WriteByte, CountStep
<1>10. ReaderSleeps'
  BY Zenon DEF PInv, ReaderSleeps, WriteByte
<1> QED
  BY <1>1, <1>2, <1>3, <1>4, <1>5, <1>6, <1>7, <1>8, <1>9, <1>10 DEF PInv

\* copyin fails.
LEMMA WriteFaultKeeps ==
  ASSUME PInv, NEW p \in Proc, WriteFault(p)
  PROVE  PInv'
<1> USE PipeAssumption
<1>n. CountStep
  BY CountNow
<1>0. Count' = Count
  BY <1>n, Zenon DEF WriteFault, CountStep
<1>1. TypeOK'
  BY DEF PInv, TypeOK, WriteFault
<1>2. Locked'
  BY Zenon DEF PInv, Locked, WriteFault
<1>3. Referenced'
  BY Zenon DEF PInv, Referenced, WriteFault
<1>4. Closing'
  BY Zenon DEF PInv, Closing, WriteFault
<1>5. Ended'
  BY Zenon DEF PInv, Ended, WriteFault
<1>6. Bounded'
  BY <1>0 DEF PInv, Bounded
<1>7. Reading'
  BY Zenon DEF PInv, Reading, ReadMustWait, WriteFault
<1>8. Parking'
  BY <1>0, Zenon DEF PInv, Parking, WriteFault
<1>9. WriterSleeps'
  BY <1>0, Zenon DEF PInv, WriterSleeps, WriteFault
<1>10. ReaderSleeps'
  BY Zenon DEF ReaderSleeps, WriteFault
<1> QED
  BY <1>1, <1>2, <1>3, <1>4, <1>5, <1>6, <1>7, <1>8, <1>9, <1>10 DEF PInv

\* piperead waits for a byte.
LEMMA ReadWaitKeeps ==
  ASSUME PInv, NEW p \in Proc, ReadWait(p)
  PROVE  PInv'
<1> USE PipeAssumption
<1>n. CountStep
  BY CountNow
<1>0. Count' = Count
  BY <1>n, Zenon DEF ReadWait, CountStep
<1>1. CASE ~ReadMustWait
  <2>0. /\ pc' = [pc EXCEPT ![p] = "rloop"]
        /\ UNCHANGED <<lock, ret>>
        /\ UNCHANGED <<ring, open, alive, refs, i, n, got, killed, calls>>
    BY <1>1, Zenon DEF ReadWait
  <2>1. TypeOK'
    BY <2>0, Zenon DEF PInv, TypeOK
  <2>2. Locked'
    <3>1. \A q \in Proc : pc'[q] \in Holding <=> pc[q] \in Holding
      BY <2>0, Zenon DEF PInv, TypeOK, ReadWait
    <3> QED
      BY <2>0, <3>1, Zenon DEF PInv, Locked
  <2>3. Referenced'
    <3>1. \A q \in Proc : /\ pc'[q] \in InRead <=> pc[q] \in InRead
                          /\ pc'[q] \in InWrite <=> pc[q] \in InWrite
      BY <2>0, Zenon DEF PInv, TypeOK, ReadWait
    <3> QED
      BY <2>0, <3>1, Zenon DEF PInv, Referenced
  <2>4. Closing'
    <3>1. \A q \in Proc : pc'[q] \in {"rclose", "wclose"} => pc'[q] = pc[q]
      BY <2>0
    <3> QED
      BY <2>0 DEF PInv, Closing
  <2>5. Ended'
    BY <2>0, Zenon DEF PInv, Ended
  <2>6. Bounded'
    BY <1>0 DEF PInv, Bounded
  <2>7. Reading'
    BY <1>1, <2>0, Zenon DEF Reading, ReadMustWait
  <2>8. Parking'
    BY <1>0, <2>0 DEF PInv, Parking
  <2>9. WriterSleeps'
    BY <1>0, <2>0 DEF PInv, WriterSleeps
  <2>10. ReaderSleeps'
    <3>1. \A q \in Proc : /\ pc'[q] = "rsleep" => pc[q] = "rsleep"
                          /\ pc[q] = "wloop" => pc'[q] = "wloop"
      BY <2>0 DEF ReadWait
    <3>2. (WriterKilled' <=> WriterKilled)
      BY <2>0, Zenon DEF WriterKilled
    <3> QED
      BY <1>0, <2>0, <3>1, <3>2, Zenon DEF PInv, ReaderSleeps
  <2> QED
    BY <2>1, <2>2, <2>3, <2>4, <2>5, <2>6, <2>7, <2>8, <2>9, <2>10 DEF PInv
<1>2. CASE ReadMustWait /\ killed[p]
  <2>0. /\ pc' = [pc EXCEPT ![p] = "user"] /\ lock' = None
        /\ ret' = [ret EXCEPT ![p] = -1]
        /\ UNCHANGED <<ring, open, alive, refs, i, n, got, killed, calls>>
    BY <1>2, Zenon DEF ReadWait
  <2>1. TypeOK'
    <3>1. ret' \in [Proc -> Int] /\ lock' \in Proc \cup {None}
      BY <2>0 DEF PInv, TypeOK
    <3>2. pc' \in [Proc -> {"user", "rlock", "rwait", "rpark", "rsleep", "rloop",
                          "rclose", "wlock", "wloop", "wpark", "wsleep", "wclose"}]
      BY <2>0 DEF PInv, TypeOK
    <3> QED
      BY <2>0, <3>1, <3>2 DEF PInv, TypeOK
  <2>2. Locked'
    BY DEF PInv, TypeOK, Locked, ReadWait
  <2>3. Referenced'
    BY <2>0 DEF PInv, Referenced
  <2>4. Closing'
    <3>1. \A q \in Proc : pc'[q] \in {"rclose", "wclose"} => pc'[q] = pc[q]
      BY <2>0
    <3> QED
      BY <2>0 DEF PInv, Closing
  <2>5. Ended'
    BY <2>0 DEF PInv, Ended
  <2>6. Bounded'
    BY <1>0 DEF PInv, Bounded
  <2>7. Reading'
    BY <1>2, <2>0 DEF PInv, Reading
  <2>8. Parking'
    BY <1>0, <2>0 DEF PInv, Parking
  <2>9. WriterSleeps'
    BY <1>0, <2>0 DEF PInv, WriterSleeps, ReadWait
  <2>10. ReaderSleeps'
    <3>1. \A q \in Proc : /\ pc'[q] = "rsleep" => pc[q] = "rsleep"
                          /\ pc[q] = "wloop" => pc'[q] = "wloop"
      BY <2>0 DEF ReadWait
    <3>2. (WriterKilled' <=> WriterKilled)
      BY <2>0, Zenon DEF WriterKilled
    <3> QED
      BY <1>0, <2>0, <3>1, <3>2, Zenon DEF PInv, ReaderSleeps
  <2> QED
    BY <2>1, <2>2, <2>3, <2>4, <2>5, <2>6, <2>7, <2>8, <2>9, <2>10 DEF PInv
<1>3. CASE ReadMustWait /\ ~killed[p]
  <2>0. /\ pc' = [pc EXCEPT ![p] = "rpark"]
        /\ UNCHANGED <<lock, ret>>
        /\ UNCHANGED <<ring, open, alive, refs, i, n, got, killed, calls>>
    BY <1>3, Zenon DEF ReadWait
  <2>1. TypeOK'
    BY <2>0, Zenon DEF PInv, TypeOK
  <2>2. Locked'
    <3>1. \A q \in Proc : pc'[q] \in Holding <=> pc[q] \in Holding
      BY <2>0, Zenon DEF PInv, TypeOK, ReadWait
    <3> QED
      BY <2>0, <3>1, Zenon DEF PInv, Locked
  <2>3. Referenced'
    BY <2>0 DEF PInv, Referenced, ReadWait
  <2>4. Closing'
    <3>1. \A q \in Proc : pc'[q] \in {"rclose", "wclose"} => pc'[q] = pc[q]
      BY <2>0
    <3> QED
      BY <2>0 DEF PInv, Closing
  <2>5. Ended'
    BY <2>0, Zenon DEF PInv, Ended
  <2>6. Bounded'
    BY <1>0 DEF PInv, Bounded
  <2>7. Reading'
    BY <1>3, <2>0 DEF PInv, Reading
  <2>8. Parking'
    BY <1>n, <1>3, <2>0 DEF PInv, Parking, ReadMustWait, CountStep
  <2>9. WriterSleeps'
    BY <1>0, <2>0 DEF PInv, WriterSleeps, ReadWait
  <2>10. ReaderSleeps'
    <3>1. \A q \in Proc : /\ pc'[q] = "rsleep" => pc[q] = "rsleep"
                          /\ pc[q] = "wloop" => pc'[q] = "wloop"
      BY <2>0 DEF ReadWait
    <3>2. (WriterKilled' <=> WriterKilled)
      BY <2>0, Zenon DEF WriterKilled
    <3> QED
      BY <1>0, <2>0, <3>1, <3>2, Zenon DEF PInv, ReaderSleeps
  <2> QED
    BY <2>1, <2>2, <2>3, <2>4, <2>5, <2>6, <2>7, <2>8, <2>9, <2>10 DEF PInv
<1> QED
  BY <1>1, <1>2, <1>3, Zenon

\* piperead is done or finds the ring empty.
LEMMA ReadDoneKeeps ==
  ASSUME PInv, NEW p \in Proc, ReadDone(p)
  PROVE  PInv'
<1> USE PipeAssumption
<1>n. CountStep
  BY CountNow
<1>0. Count' = Count
  BY <1>n, Zenon DEF ReadDone, CountStep
<1>1. TypeOK'
  BY <1>n, <1>0 DEF PInv, TypeOK, ReadDone, CountStep
<1>2. Locked'
  BY Zenon DEF PInv, Locked, ReadDone
<1>3. Referenced'
  BY Zenon DEF PInv, Referenced, ReadDone
<1>4. Closing'
  BY Zenon DEF PInv, Closing, ReadDone
<1>5. Ended'
  BY Zenon DEF PInv, Ended, ReadDone
<1>6. Bounded'
  BY <1>0 DEF PInv, Bounded
<1>7. Reading'
  BY Zenon DEF PInv, Reading, ReadMustWait, ReadDone
<1>8. Parking'
  BY <1>0, Zenon DEF PInv, Parking, ReadDone
<1>9. WriterSleeps'
  BY Zenon DEF WriterSleeps, ReadDone
<1>10. ReaderSleeps'
  BY <1>0, Zenon DEF PInv, ReaderSleeps, WriterKilled, ReadDone
<1> QED
  BY <1>1, <1>2, <1>3, <1>4, <1>5, <1>6, <1>7, <1>8, <1>9, <1>10 DEF PInv

\* piperead takes a byte.
LEMMA ReadByteKeeps ==
  ASSUME PInv, NEW p \in Proc, ReadByte(p)
  PROVE  PInv'
<1> USE PipeAssumption
<1>n. CountStep
  BY CountNow
<1>0. Count' = Count - 1
  BY CountFacts, Zenon DEF PInv, ReadByte
<1>1. TypeOK'
  <2>1. nread' \in 0..(UintMod - 1)
    BY <1>n, Zenon DEF ReadByte, CountStep
  <2>5. i' \in [Proc -> Nat]
    <3>1. i \in [Proc -> Nat] /\ i[p] + 1 \in Nat
      BY DEF PInv, TypeOK
    <3> QED
      BY <3>1, Zenon DEF ReadByte
  <2>2. nread % PIPESIZE \in 0..(PIPESIZE - 1)
    BY DEF PInv, TypeOK
  <2>3. Oldest \in Byte
    BY DEF PInv, TypeOK, Oldest
  <2>4. got' \in [Proc -> Seq(Byte)]
    BY <2>3 DEF PInv, TypeOK, ReadByte
  <2> QED
    BY <2>1, <2>4, <2>5, Zenon DEF PInv, TypeOK, ReadByte
<1>2. Locked'
  BY Zenon DEF PInv, Locked, ReadByte
<1>3. Referenced'
  BY Zenon DEF PInv, Referenced, ReadByte
<1>4. Closing'
  BY Zenon DEF PInv, Closing, ReadByte
<1>5. Ended'
  BY <1>n, <1>0, Zenon DEF PInv, TypeOK, Closing, Ended, ReadByte, CountStep
<1>6. Bounded'
  BY <1>n, <1>0 DEF PInv, Bounded, CountStep
<1>7. Reading'
  BY <1>n, <1>0 DEF PInv, TypeOK, Locked, Reading, ReadMustWait, ReadByte,
     CountStep
<1>8. Parking'
  BY Zenon DEF PInv, Locked, Parking, ReadByte
<1>9. WriterSleeps'
  BY Zenon DEF PInv, WriterSleeps, ReadByte
<1>10. ReaderSleeps'
  BY <1>n, Zenon DEF PInv, ReaderSleeps, WriterKilled, ReadByte, CountStep
<1> QED
  BY <1>1, <1>2, <1>3, <1>4, <1>5, <1>6, <1>7, <1>8, <1>9, <1>10 DEF PInv

\* copyout fails.
LEMMA ReadFaultKeeps ==
  ASSUME PInv, NEW p \in Proc, ReadFault(p)
  PROVE  PInv'
<1> USE PipeAssumption
<1>n. CountStep
  BY CountNow
<1>0. Count' = Count - 1
  BY CountFacts, Zenon DEF PInv, ReadFault
<1>1. TypeOK'
  BY <1>n, <1>0 DEF PInv, TypeOK, ReadFault, CountStep
<1>2. Locked'
  BY <1>n, <1>0, Zenon DEF PInv, TypeOK, Locked, ReadFault, CountStep
<1>3. Referenced'
  BY Zenon DEF PInv, Referenced, ReadFault
<1>4. Closing'
  BY Zenon DEF PInv, TypeOK, Closing, Referenced, ReadFault
<1>5. Ended'
  BY Zenon DEF PInv, Ended, ReadFault
<1>6. Bounded'
  BY <1>n, <1>0 DEF PInv, Bounded, CountStep
<1>7. Reading'
  BY Zenon DEF PInv, Locked, Reading, ReadFault
<1>8. Parking'
  BY Zenon DEF PInv, Locked, Parking, ReadFault
<1>9. WriterSleeps'
  BY Zenon DEF WriterSleeps, ReadFault
<1>10. ReaderSleeps'
  BY <1>n, Zenon DEF PInv, ReaderSleeps, WriterKilled, ReadFault, CountStep
<1> QED
  BY <1>1, <1>2, <1>3, <1>4, <1>5, <1>6, <1>7, <1>8, <1>9, <1>10 DEF PInv

\* pipeclose.
LEMMA PipeCloseKeeps ==
  ASSUME PInv, NEW p \in Proc, PipeClose(p)
  PROVE  PInv'
<1> USE PipeAssumption
<1>n. CountStep
  BY CountNow
<1>0. Count' = Count
  BY <1>n, Zenon DEF PipeClose, CountStep
<1>1. TypeOK'
  BY Zenon DEF PInv, TypeOK, PipeClose
<1>2. Locked'
  BY Zenon DEF PInv, Locked, PipeClose
<1>3. Referenced'
  BY Zenon DEF PInv, Referenced, PipeClose
<1>4. Closing'
  <2>1. \A q \in Proc : pc'[q] \in {"rclose", "wclose"} => q # p /\ pc'[q] = pc[q]
    BY Zenon DEF PInv, TypeOK, PipeClose
  <2>2. /\ pc[p] = "rclose" => open'["w"] = open["w"]
        /\ pc[p] = "wclose" => open'["r"] = open["r"]
        /\ pc[p] \in {"rclose", "wclose"} /\ refs' = refs
    BY Zenon DEF PInv, TypeOK, PipeClose
  <2> QED
    BY <2>1, <2>2, Zenon DEF PInv, Closing
<1>5. Ended'
  <2>1. \A e \in Ends : ~open'[e] => refs'[e] = {}
    BY Zenon DEF PInv, TypeOK, Closing, Ended, PipeClose
  <2>2. alive' <=> \E e \in Ends : open'[e]
    BY Zenon DEF PInv, Closing, Ended, PipeClose, BothClosed
  <2> QED
    BY <2>1, <2>2, Zenon DEF Ended
<1>6. Bounded'
  BY <1>0 DEF PInv, Bounded
<1>7. Reading'
  BY DEF PInv, Reading, ReadMustWait, PipeClose
<1>8. Parking'
  BY Zenon DEF PInv, Locked, Parking, PipeClose
<1>9. WriterSleeps'
  BY Zenon DEF PInv, Referenced, Closing, WriterSleeps, PipeClose
<1>10. ReaderSleeps'
  BY Zenon DEF PInv, Referenced, Closing, ReaderSleeps, PipeClose
<1> QED
  BY <1>1, <1>2, <1>3, <1>4, <1>5, <1>6, <1>7, <1>8, <1>9, <1>10 DEF PInv

\* kill.
LEMMA KillKeeps ==
  ASSUME PInv, NEW p \in Proc, Kill(p)
  PROVE  PInv'
<1> USE PipeAssumption
<1>n. CountStep
  BY CountNow
<1>0. Count' = Count
  BY <1>n, Zenon DEF Kill, CountStep
<1>1. TypeOK'
  BY Zenon DEF PInv, TypeOK, Kill
<1>2. Locked'
  BY DEF PInv, Locked, Kill
<1>3. Referenced'
  BY <1>n, <1>0, Zenon DEF PInv, TypeOK, Referenced, Kill, CountStep
<1>4. Closing'
  <2>1. \A q \in Proc : pc'[q] \in {"rclose", "wclose"} => pc'[q] = pc[q]
    BY DEF Kill
  <2> QED
    BY <2>1, Zenon DEF PInv, Closing, Kill
<1>5. Ended'
  BY <1>n, <1>0 DEF PInv, TypeOK, Closing, Ended, Kill, CountStep
<1>6. Bounded'
  BY <1>0 DEF PInv, Bounded
<1>7. Reading'
  BY DEF PInv, Reading, ReadMustWait, Kill
<1>8. Parking'
  BY <1>n, <1>0 DEF PInv, TypeOK, Locked, Parking, ReadMustWait, Kill, CountStep
<1>9. WriterSleeps'
  <2>1. open' = open
    BY Zenon DEF Kill
  <2>2. ASSUME NEW q \in Proc
        PROVE  /\ pc'[q] = "wsleep" => pc[q] = "wsleep"
               /\ pc[q] = "rloop" => pc'[q] = "rloop"
    BY DEF Kill, PInv, TypeOK
  <2> QED
    BY <1>0, <2>1, <2>2, Zenon DEF PInv, WriterSleeps
<1>10. ReaderSleeps'
  <2>1. \A q \in Proc : /\ pc'[q] = "rsleep" => pc[q] = "rsleep"
                        /\ pc[q] = "wloop" => pc'[q] = "wloop"
    BY DEF Kill
  <2>2. WriterKilled => WriterKilled'
    BY DEF WriterKilled, Kill
  <2> QED
    BY <1>0, <2>2 DEF PInv, ReaderSleeps, Kill
<1> QED
  BY <1>1, <1>2, <1>3, <1>4, <1>5, <1>6, <1>7, <1>8, <1>9, <1>10 DEF PInv

\* A read or write begins.
LEMMA CallKeeps ==
  ASSUME PInv, NEW p \in Proc, NEW e \in Ends, Call(p, e)
  PROVE  PInv'
<1> USE PipeAssumption
<1>n. CountStep
  BY CountNow, Zenon
<1>0. Count' = Count
  BY <1>n, Zenon DEF Call, CountStep
<1>1. TypeOK'
  <2>1. n' \in [Proc -> Sizes \cup {0}] /\ i' \in [Proc -> Nat]
    BY DEF PInv, TypeOK, Call
  <2>2. calls' \in [Proc -> 0..MaxCalls]
    <3>1. calls \in [Proc -> 0..MaxCalls] /\ calls[p] + 1 \in 0..MaxCalls
      BY DEF PInv, TypeOK, Call
    <3> QED
      BY <3>1, Zenon DEF Call
  <2>3. got' \in [Proc -> Seq(Byte)]
    BY DEF PInv, TypeOK, Call
  <2> QED
    BY <2>1, <2>2, <2>3, Zenon DEF PInv, TypeOK, Call
<1>2. Locked'
  BY DEF PInv, Locked, Call
<1>3. Referenced'
  BY <1>n, <1>0 DEF PInv, TypeOK, Referenced, Call, CountStep
<1>4. Closing'
  <2>1. \A q \in Proc : pc'[q] \in {"rclose", "wclose"} => pc'[q] = pc[q]
    BY Zenon DEF PInv, TypeOK, Call
  <2>2. refs' = refs /\ open' = open
    BY Zenon DEF Call
  <2> QED
    BY <2>1, <2>2, Zenon DEF PInv, Closing
<1>5. Ended'
  BY Zenon DEF PInv, Ended, Call
<1>6. Bounded'
  BY <1>0, Zenon DEF PInv, Bounded
<1>7. Reading'
  BY DEF PInv, Reading, ReadMustWait, Call
<1>8. Parking'
  BY <1>0 DEF PInv, Parking, Call
<1>9. WriterSleeps'
  BY <1>0 DEF PInv, WriterSleeps, Call
<1>10. ReaderSleeps'
  <2>1. \A q \in Proc : /\ pc'[q] = "rsleep" => pc[q] = "rsleep"
                        /\ pc[q] = "wloop" => pc'[q] = "wloop"
    BY DEF Call
  <2>2. WriterKilled => WriterKilled'
    BY Zenon DEF WriterKilled, Call
  <2>3. open' = open
    BY Zenon DEF Call
  <2> QED
    BY <1>0, <2>1, <2>2, <2>3, Zenon DEF PInv, ReaderSleeps
<1> QED
  BY <1>1, <1>2, <1>3, <1>4, <1>5, <1>6, <1>7, <1>8, <1>9, <1>10, Zenon DEF PInv

\* fileclose.
LEMMA CloseKeeps ==
  ASSUME PInv, NEW p \in Proc, NEW e \in Ends, Close(p, e)
  PROVE  PInv'
<1> USE PipeAssumption
<1>n. CountStep
  BY CountNow
<1>0. Count' = Count
  BY <1>n, Zenon DEF Close, CountStep
<1>1. TypeOK'
  BY <1>n, <1>0, Zenon DEF PInv, TypeOK, Close, CountStep
<1>a. /\ \A q \in Proc : q # p => pc'[q] = pc[q]
      /\ pc[p] = "user" /\ pc'[p] \in {"user", "rclose", "wclose"}
      /\ \A x \in Ends : refs'[x] \subseteq refs[x] /\ refs[x] \ {p} \subseteq refs'[x]
      /\ UNCHANGED <<lock, open, nread, nwrite, i>>
  BY Zenon DEF PInv, TypeOK, Close
<1>2. Locked'
  BY <1>a, Zenon DEF PInv, Locked
<1>3. Referenced'
  BY <1>a, Zenon DEF PInv, Referenced
<1>4. Closing'
  <2>1. CASE refs[e] = {p}
    <3>1. \A q \in Proc : q # p => pc'[q] = pc[q]
      BY Zenon DEF PInv, TypeOK, Close
    <3>2. CASE e = "r"
      <4>1. pc'[p] = "rclose" /\ refs'["r"] = {} /\ open["r"]
        BY <2>1, <3>2, Zenon DEF PInv, TypeOK, Ended, Close
      <4>2. \A q \in Proc : pc[q] # "rclose"
        BY <2>1, <3>2, Zenon DEF PInv, Closing
      <4>3. refs'["w"] = refs["w"] /\ open' = open
        BY <3>2 DEF Close
      <4> QED
        BY <3>1, <4>1, <4>2, <4>3, Zenon DEF PInv, Closing
    <3>3. CASE e = "w"
      <4>1. pc'[p] = "wclose" /\ refs'["w"] = {} /\ open["w"]
        BY <2>1, <3>3, Zenon DEF PInv, TypeOK, Ended, Close
      <4>2. \A q \in Proc : pc[q] # "wclose"
        BY <2>1, <3>3, Zenon DEF PInv, Closing
      <4>3. refs'["r"] = refs["r"] /\ open' = open
        BY <3>3 DEF Close
      <4> QED
        BY <3>1, <4>1, <4>2, <4>3, Zenon DEF PInv, Closing
    <3> QED
      BY <3>2, <3>3, Zenon
  <2>2. CASE refs[e] # {p}
    <3>1. pc' = pc
      BY <2>2, Zenon DEF Close
    <3> QED
      BY <1>a, <3>1, Zenon DEF PInv, Closing
  <2> QED
    BY <2>1, <2>2, Zenon
<1>5. Ended'
  BY DEF PInv, Ended, Close
<1>6. Bounded'
  BY <1>0 DEF PInv, Bounded
<1>7. Reading'
  BY <1>a, Zenon DEF PInv, Reading, ReadMustWait
<1>8. Parking'
  BY <1>0, <1>a, Zenon DEF PInv, Parking
<1>9. WriterSleeps'
  BY <1>0, <1>a, Zenon DEF PInv, WriterSleeps
<1>10. ReaderSleeps'
  <2>1. \A q \in Proc : /\ pc'[q] = "rsleep" => pc[q] = "rsleep"
                        /\ pc[q] = "wloop" => pc'[q] = "wloop"
    BY Zenon DEF PInv, TypeOK, Close
  <2>2. (WriterKilled' <=> WriterKilled) /\ open' = open
    BY Zenon DEF WriterKilled, Close
  <2>3. ASSUME NEW q \in Proc, pc'[q] = "rsleep"
        PROVE  /\ open'["w"]
               /\ Count' = 0 \/ WriterKilled' \/ \E r \in Proc : pc'[r] = "wloop"
    <3>1. open["w"] /\ (Count = 0 \/ WriterKilled \/ \E r \in Proc : pc[r] = "wloop")
      BY <2>1, <2>3, Zenon DEF PInv, ReaderSleeps
    <3> QED
      BY <1>0, <2>1, <2>2, <3>1, Zenon
  <2> QED
    BY <2>3, Zenon DEF ReaderSleeps
<1> QED
  BY <1>1, <1>2, <1>3, <1>4, <1>5, <1>6, <1>7, <1>8, <1>9, <1>10 DEF PInv

\* Nothing happens.
LEMMA StutterKeeps ==
  ASSUME PInv, UNCHANGED vars
  PROVE  PInv'
<1> USE PipeAssumption
<1>n. CountStep
  BY CountNow, Zenon
<1>0. Count' = Count
  BY <1>n, Zenon DEF vars, CountStep
<1>1. TypeOK'
  BY Zenon DEF PInv, TypeOK, vars
<1>2. Locked'
  BY Zenon DEF PInv, Locked, vars
<1>3. Referenced'
  BY Zenon DEF PInv, Referenced, vars
<1>4. Closing'
  BY Zenon DEF PInv, Closing, vars
<1>5. Ended'
  BY Zenon DEF PInv, Ended, vars
<1>6. Bounded'
  BY <1>0, Zenon DEF PInv, Bounded
<1>7. Reading'
  BY Zenon DEF PInv, Reading, ReadMustWait, vars
<1>8. Parking'
  BY <1>0, Zenon DEF PInv, Parking, vars
<1>9. WriterSleeps'
  BY <1>0, Zenon DEF PInv, WriterSleeps, vars
<1>10. ReaderSleeps'
  BY <1>0, Zenon DEF PInv, ReaderSleeps, WriterKilled, vars
<1> QED
  BY <1>1, <1>2, <1>3, <1>4, <1>5, <1>6, <1>7, <1>8, <1>9, <1>10, Zenon DEF PInv

\* Every step of piperead, pipewrite, pipeclose and kill preserves it.
LEMMA StepPInv == PInv /\ [Next]_vars => PInv'
BY AcquireKeeps, SleepKeeps, WriteDoneKeeps, WriteFullKeeps, WriteByteKeeps,
   WriteFaultKeeps, ReadWaitKeeps, ReadDoneKeeps, ReadByteKeeps, ReadFaultKeeps,
   PipeCloseKeeps, KillKeeps, CallKeeps, CloseKeeps, StutterKeeps, Zenon DEF Next,
   Step, WriteStep, ReadStep

\* So it holds in every reachable state.
LEMMA InvariantPInv == Spec => []PInv
BY InitPInv, StepPInv, PTL DEF Spec

\* Every process inside pipewrite, piperead or pipeclose works on a pipe that
\* has not been freed, and the fields of the pipe are well formed: the last
\* pipeclose is the one that frees, whatever the order of the two.
THEOREM PipeStaysSound == Spec => []PipeSound
<1>1. PInv => PipeSound
  BY Zenon DEF PInv, TypeOK, Referenced, Closing, Ended, PipeSound,
     NoUseAfterFree
<1> QED
  BY <1>1, InvariantPInv, PTL

\* No wakeup is lost: a process asleep in piperead or pipewrite while the lock is
\* free has a reason to be, or a writer was killed beside the reader.
THEOREM NoLostWakeup == Spec => []SleepersHaveReason
<1>1. PInv => SleepersHaveReason
  <2> SUFFICES ASSUME PInv, lock = None
               PROVE  /\ (\E p \in Proc : pc[p] = "rsleep") =>
                           open["w"] /\ (Count = 0 \/ WriterKilled)
                      /\ (\E p \in Proc : pc[p] = "wsleep") => Count = PIPESIZE /\ open["r"]
    BY Zenon DEF SleepersHaveReason
  <2>1. \A q \in Proc : pc[q] \notin {"rloop", "wloop"}
    BY PipeAssumption, Zenon DEF PInv, Locked
  <2> QED
    BY <2>1, Zenon DEF PInv, WriterSleeps, ReaderSleeps
<1> QED
  BY <1>1, InvariantPInv, PTL

-----------------------------------------------------------------------------
\* A read that asked for bytes and returns 0 without a fault has met the end of
\* the file: the pipe is empty and nobody holds the write end any more.
THEOREM EndOfFileIsFinal == Spec => EofIsFinal
<1> DEFINE Eof == \A p \in Proc :
              pc[p] = "rloop" /\ pc'[p] = "user" /\ n[p] > 0 /\ ret'[p] = 0 /\ nread' = nread
                => Count = 0 /\ refs["w"] = {}
<1>1. PInv /\ [Next]_vars => Eof \/ UNCHANGED vars
  <2> SUFFICES ASSUME PInv, Next, NEW p \in Proc, pc[p] = "rloop", pc'[p] = "user",
                      n[p] > 0, ret'[p] = 0, nread' = nread
               PROVE  Count = 0 /\ refs["w"] = {}
    BY Zenon
  <2>1. nread # Inc(nread)
    <3>1. UintMod \in Nat /\ UintMod > 1 /\ nread \in 0..(UintMod - 1)
      BY PipeAssumption DEF PInv, TypeOK
    <3> QED
      BY <3>1 DEF Inc
  <2>2. PICK q \in Proc : \/ Step(q)
                          \/ \E e \in Ends : Call(q, e) \/ Close(q, e)
                          \/ Kill(q)
    BY Zenon DEF Next
  <2>3. CASE ReadDone(q)
    <3>1. q = p
      BY <2>3, Zenon DEF ReadDone
    <3>2. i[p] = 0
      BY <2>3, Zenon DEF PInv, TypeOK, ReadDone
    <3>5. n[p] \in Int
      <4>1. n[p] \in Sizes \cup {0}
        BY Zenon DEF PInv, TypeOK
      <4>2. \A x \in Sizes \cup {0} : x \in Int
        BY PipeAssumption
      <4> QED
        BY <4>1, <4>2, Zenon
    <3>3. nread = nwrite
      <4>1. i[p] >= n[p] \/ nread = nwrite
        BY <2>3, <3>1, Zenon DEF ReadDone
      <4> QED
        BY <3>2, <3>5, <4>1
    <3>4. Count = 0 /\ ~open["w"]
      BY <3>2, <3>3, CountFacts, Zenon DEF PInv, Reading, ReadMustWait
    <3> QED
      BY <3>4, Zenon DEF PInv, Ended
  <2>4. CASE ~ReadDone(q)
    <3>1. pc'[p] = pc[p] \/ nread' = Inc(nread)
      BY <2>2, <2>4, Zenon DEF PInv, TypeOK, Locked, Step, WriteStep, ReadStep,
         Acquire, Sleep, WriteDone, WriteFull, WriteByte, WriteFault, ReadWait,
         ReadByte, ReadFault, PipeClose, Call, Close, Kill
    <3> QED
      BY <2>1, <3>1, Zenon
  <2> QED
    BY <2>3, <2>4, Zenon
<1>2. PInv /\ [Next]_vars => [Eof]_vars
  BY <1>1, Zenon
<1> QED
  BY <1>2, InvariantPInv, PTL DEF Spec, EofIsFinal

-----------------------------------------------------------------------------
(* The ring as a queue. *)

\* A sequence is a function on the numbers up to its length.
LEMMA SeqIsFunction ==
  ASSUME NEW s \in Seq(Byte)
  PROVE  s \in [1..Len(s) -> Byte]
OBVIOUS

\* The bytes between the counters form a sequence.
LEMMA QueueIsSeq ==
  ASSUME TypeOK
  PROVE  Queue \in Seq(Byte) /\ Len(Queue) = Count
<1>1. Count \in Nat
  BY CountFacts, Zenon
<1>2. \A k \in 1..Count : (nread + k - 1) % PIPESIZE \in 0..(PIPESIZE - 1)
  <2>1. nread \in Int /\ PIPESIZE \in Nat \ {0}
    BY PipeAssumption DEF TypeOK
  <2> QED
    BY <1>1, <2>1
<1>3. Queue \in [1..Count -> Byte]
  BY <1>2, Zenon DEF TypeOK, Queue
<1> QED
  BY <1>1, <1>3

\* Wrapping a counter around keeps its slot, because the ring divides its range.
LEMMA WrapKeepsSlot ==
  ASSUME NEW x \in Int
  PROVE  (x + UintMod) % PIPESIZE = x % PIPESIZE
<1> DEFINE k == UintMod \div PIPESIZE
<1>1. PIPESIZE \in Nat \ {0} /\ UintMod \in Nat
  BY PipeAssumption, Zenon
<1>2. k \in Int /\ UintMod = k * PIPESIZE + (UintMod % PIPESIZE)
  BY <1>1
<1>3. UintMod = k * PIPESIZE
  BY PipeAssumption
<1> HIDE DEF k
<1> QED
  BY <1>1, <1>2, <1>3, ModShift, Zenon

\* Storing a byte at nwrite appends it to that sequence (pipewrite).
LEMMA QueuePut ==
  ASSUME TypeOK, Count < PIPESIZE, NEW b \in Byte,
         data' = [data EXCEPT ![nwrite % PIPESIZE] = b],
         nwrite' = Inc(nwrite), nread' = nread
  PROVE  Queue' = Append(Queue, b)
<1>1. Count \in Nat /\ Count' = Count + 1
  BY CountFacts, Zenon
<1>2. Len(Queue) = Count /\ Queue \in Seq(Byte)
  BY QueueIsSeq, Zenon
<1>3. nread \in Int /\ nwrite \in Int /\ PIPESIZE \in Nat \ {0}
  BY PipeAssumption DEF TypeOK
<1>4. (nread + Count) % PIPESIZE = nwrite % PIPESIZE
  <2>1. nread + Count = nwrite \/ nread + Count = nwrite + UintMod
    <3>1. UintMod \in Nat \ {0} /\ nread \in 0..(UintMod - 1) /\ nwrite \in 0..(UintMod - 1)
      BY PipeAssumption DEF TypeOK
    <3> QED
      BY <3>1 DEF Count
  <2> QED
    BY <1>3, <2>1, WrapKeepsSlot, Zenon
<1>5. \A k \in 1..Count : data'[(nread + k - 1) % PIPESIZE] = Queue[k]
  <2> SUFFICES ASSUME NEW k \in 1..Count
               PROVE  data'[(nread + k - 1) % PIPESIZE] = Queue[k]
    BY Zenon
  <2>1. (nread + k - 1) % PIPESIZE # (nread + Count) % PIPESIZE
    <3>1. Count - k + 1 \in 1..(PIPESIZE - 1) /\ nread + k - 1 \in Int
      BY <1>1, <1>3
    <3>2. (nread + k - 1) + (Count - k + 1) = nread + Count
      BY <1>1, <1>3
    <3> QED
      BY <1>3, <3>1, <3>2, ModApart, Zenon
  <2>2. (nread + k - 1) % PIPESIZE \in 0..(PIPESIZE - 1)
    BY <1>1, <1>3
  <2> QED
    BY <1>4, <2>1 DEF Queue
<1>6. data'[(nread + Count) % PIPESIZE] = b
  <2>1. nwrite % PIPESIZE \in 0..(PIPESIZE - 1)
    BY <1>3
  <2> QED
    BY <1>4, <2>1, Zenon DEF TypeOK
<1>7. Queue' = [k \in 1..(Count + 1) |-> data'[(nread + k - 1) % PIPESIZE]]
  BY <1>1 DEF Queue
<1>8. Append(Queue, b) = [k \in 1..(Count + 1) |-> IF k = Count + 1 THEN b ELSE Queue[k]]
  <2>1. Append(Queue, b) \in Seq(Byte) /\ Len(Append(Queue, b)) = Count + 1
    BY <1>2
  <2>2. Append(Queue, b) \in [1..(Count + 1) -> Byte]
    BY <2>1, SeqIsFunction, Zenon
  <2>3. \A k \in 1..(Count + 1) :
           Append(Queue, b)[k] = IF k = Count + 1 THEN b ELSE Queue[k]
    BY <1>1, <1>2
  <2> QED
    BY <2>2, <2>3, Zenon
<1>9. \A k \in 1..(Count + 1) :
         data'[(nread + k - 1) % PIPESIZE] = IF k = Count + 1 THEN b ELSE Queue[k]
  BY <1>1, <1>3, <1>5, <1>6
<1> QED
  BY <1>7, <1>8, <1>9, Zenon

\* Taking the byte at nread removes the head of the sequence (piperead).
LEMMA QueueGet ==
  ASSUME TypeOK, nread # nwrite,
         data' = data, nread' = Inc(nread), nwrite' = nwrite
  PROVE  Queue # <<>> /\ Queue' = Tail(Queue) /\ Head(Queue) = Oldest
<1>1. Count \in Nat \ {0} /\ Count' = Count - 1
  BY CountFacts, Zenon
<1>2. Len(Queue) = Count /\ Queue \in Seq(Byte)
  BY QueueIsSeq, Zenon
<1>3. nread \in Int /\ nwrite \in Int /\ PIPESIZE \in Nat \ {0}
  BY PipeAssumption DEF TypeOK
<1>4. \A k \in Int : (Inc(nread) + k) % PIPESIZE = (nread + 1 + k) % PIPESIZE
  <2> SUFFICES ASSUME NEW k \in Int
               PROVE  (Inc(nread) + k) % PIPESIZE = (nread + 1 + k) % PIPESIZE
    BY Zenon
  <2>1. UintMod \in Nat \ {0} /\ nread \in 0..(UintMod - 1)
    BY PipeAssumption DEF TypeOK
  <2>2. Inc(nread) \in Int /\ (Inc(nread) = nread + 1 \/ Inc(nread) + UintMod = nread + 1)
    BY <2>1 DEF Inc
  <2>3. CASE Inc(nread) = nread + 1
    BY <2>3, Zenon
  <2>4. CASE Inc(nread) + UintMod = nread + 1
    <3>1. (Inc(nread) + k) + UintMod = nread + 1 + k /\ Inc(nread) + k \in Int
      BY <1>3, <2>1, <2>2, <2>4
    <3> QED
      BY <3>1, WrapKeepsSlot, Zenon
  <2> QED
    BY <2>2, <2>3, <2>4, Zenon
<1>5. Queue' = [k \in 1..(Count - 1) |-> data[(Inc(nread) + k - 1) % PIPESIZE]]
  BY <1>1, Zenon DEF Queue
<1>6. Tail(Queue) = [k \in 1..(Count - 1) |-> Queue[k + 1]]
  <2>1. /\ Tail(Queue) \in Seq(Byte) /\ Len(Tail(Queue)) = Count - 1
        /\ \A k \in 1..(Count - 1) : Tail(Queue)[k] = Queue[k + 1]
    BY <1>1, <1>2
  <2>2. Tail(Queue) \in [1..(Count - 1) -> Byte]
    BY <2>1, SeqIsFunction, Zenon
  <2> QED
    BY <2>1, <2>2, Zenon
<1>7. \A k \in 1..(Count - 1) : data[(Inc(nread) + k - 1) % PIPESIZE] = Queue[k + 1]
  <2> SUFFICES ASSUME NEW k \in 1..(Count - 1)
               PROVE  data[(Inc(nread) + k - 1) % PIPESIZE] = Queue[k + 1]
    BY Zenon
  <2>1. /\ k + 1 \in 1..Count /\ k - 1 \in Int
        /\ Inc(nread) + k - 1 = Inc(nread) + (k - 1)
        /\ nread + (k + 1) - 1 = nread + 1 + (k - 1)
    BY <1>3, CountFacts
  <2>2. Queue[k + 1] = data[(nread + (k + 1) - 1) % PIPESIZE]
    BY <2>1, Zenon DEF Queue
  <2> QED
    BY <1>4, <2>1, <2>2, Zenon
<1>8. Queue # <<>> /\ Head(Queue) = Oldest
  BY <1>1, <1>2, <1>3 DEF Queue, Oldest
<1> QED
  BY <1>5, <1>6, <1>7, <1>8, Zenon

\* Theorem: a pipe is a bounded FIFO queue.  Every byte written is read once, in
\* order, for every interleaving of readers and writers and across the wrap-
\* around of both counters.
THEOREM PipeImplementsFifo == Spec => ImplementsFifo
<1>1. Init => F!FifoInit
  <2>1. Init => Count = 0
    BY PipeAssumption DEF Init, Count
  <2> QED
    BY <2>1 DEF Init, F!FifoInit, Queue
<1>2. PInv /\ [Next]_vars => [F!FifoNext]_<<Queue, got>>
  <2> SUFFICES ASSUME PInv, [Next]_vars PROVE [F!FifoNext]_<<Queue, got>>
    BY Zenon
  <2>0. TypeOK
    BY Zenon DEF PInv
  <2>1. ASSUME NEW p \in Proc, WriteByte(p) PROVE F!FifoNext
    <3>1. PICK b \in Byte : data' = [data EXCEPT ![nwrite % PIPESIZE] = b]
      BY <2>1, Zenon DEF WriteByte
    <3>2. Count < PIPESIZE
      <4>1. Count \in Nat /\ Count # PIPESIZE
        BY <2>0, <2>1, CountFacts, Zenon DEF WriteByte
      <4>2. Count <= PIPESIZE
        BY Zenon DEF PInv, Bounded
      <4> QED
        BY <4>1, <4>2, PipeAssumption
    <3>3. Queue' = Append(Queue, b)
      BY <2>0, <2>1, <3>1, <3>2, QueuePut, Zenon DEF WriteByte
    <3> QED
      BY <2>0, <2>1, <3>2, <3>3, QueueIsSeq, Zenon DEF F!FifoNext, F!Put,
         WriteByte
  <2>2. ASSUME NEW p \in Proc, ReadByte(p) PROVE F!FifoNext
    BY <2>0, <2>2, QueueGet, Zenon DEF F!FifoNext, F!Get, ReadByte
  <2>3. ASSUME NEW p \in Proc, ReadFault(p) PROVE F!FifoNext
    BY <2>0, <2>3, QueueGet, Zenon DEF F!FifoNext, F!Lose, ReadFault
  <2>4. ASSUME NEW p \in Proc, NEW e \in Ends, Call(p, e) PROVE F!FifoNext
    BY <2>4, Zenon DEF F!FifoNext, F!NewRead, Call, Queue, Count
  <2>5. CASE UNCHANGED <<data, nread, nwrite, got>>
    BY <2>5, Zenon DEF Queue, Count
  <2> QED
    BY <2>1, <2>2, <2>3, <2>4, <2>5, Zenon DEF Next, Step, WriteStep, ReadStep,
       Acquire, Sleep, WriteDone, WriteFull, WriteFault, ReadWait, ReadDone,
       PipeClose, Close, Kill, vars
<1> QED
  BY <1>1, <1>2, InvariantPInv, PTL DEF Spec, ImplementsFifo, F!FifoSpec
=============================================================================
