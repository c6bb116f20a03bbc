----------------------------- MODULE CrashProofs ----------------------------
(***************************************************************************)
(* Proofs about the data of Log: the blocks in the cache, in the log and   *)
(* on the disk, and what a crash leaves of them.  LogProofs has the        *)
(* control.                                                                *)
(***************************************************************************)
EXTENDS LogProofs

\* The log holds a block once (absorption, log.c:224).
Distinct ==
  /\ \A i, j \in 1..Len(lh) : lh[i] = lh[j] => i = j
  /\ \A i, j \in 1..Len(head) : head[i] = head[j] => i = j

\* A call holds one buffer at most, nobody else does, and it stays in the cache.
HeldSound ==
  /\ \A p \in Proc : held[p] # {} => pc[p] \in {"modify", "log_write", "brelse", "panic"}
  /\ \A p, q \in Proc : \A b \in held[p] \cap held[q] : p = q
  /\ \A p \in Proc : \A a, b \in held[p] : a = b
  /\ \A p \in Proc : held[p] \subseteq resident
  /\ \A p \in Proc : pc[p] = "brelse" => held[p] \subseteq Logged(lh)

\* b->data is changed and the block is not yet in the log.
Dirty(b) == \E p \in Proc : b \in held[p] /\ pc[p] \in {"log_write", "panic"}

\* A cached block that is not in the log, or is installed, and not being
\* changed, is the one on the disk.
Clean ==
  \A b \in resident :
    (b \notin Logged(lh) \/ Installed(b)) /\ ~Dirty(b) => cache[b] = home[b]

\* The header on the disk is empty, or the log that is being installed.
HeadSound ==
  /\ \A p \in Actor : pc[p] = "install" => head = lh
  /\ (pc[Boot] = "up" /\ \A p \in Proc : pc[p] # "install") => head = <<>>

\* Recovery begins with an empty log in memory and an empty cache, and knows
\* which blocks it replays.
BootSound ==
  /\ pc[Boot] = "read_head" => lh = <<>> /\ resident = {}
  /\ pc[Boot] = "install" => Logged(lh) \subseteq replayed

\* What write_log has copied so far.
Written ==
  PinsKept =>
    \A p \in Proc, i \in 1..Len(lh) :
      \/ pc[p] = "write_log" /\ i <= tail[p]
      \/ pc[p] = "write_head"
      => logblk[i] = Contents(lh[i])

\* What install_trans has copied so far, and what it has still to copy.
Installing ==
  /\ \A p \in Actor, i \in 1..Len(lh) :
       pc[p] = "install" /\ i <= tail[p] => home[lh[i]] = logblk[i]
  /\ PinsKept =>
       \A p \in Proc, i \in 1..Len(lh) :
         pc[p] = "install" => Contents(lh[i]) = logblk[i]

\* A call has the buffer of block b.
HeldBy(b) == \E p \in Proc : b \in held[p]

\* Block b is in the log and not yet installed.
Pinned(b) == b \in Logged(lh) /\ ~Installed(b)

\* RefcntExact, given that a block has one user at most.
Exact ==
  \A b \in Block \ replayed :
    refcnt[b] = (IF HeldBy(b) THEN 1 ELSE 0) + (IF Pinned(b) THEN 1 ELSE 0)

\* The invariant of the data; CInv of LogProofs is the one of the control.
DInv == /\ Distinct /\ HeldSound /\ Exact /\ PinnedUntilInstalled /\ Clean
        /\ HeadSound /\ BootSound /\ Written /\ Installing

\* While a call is inside an operation there is neither a commit nor recovery.
LEMMA CallFacts ==
  ASSUME CInv, NEW p \in Proc, pc[p] \in InOp
  PROVE  pc[Boot] = "up" /\ \A q \in Actor : pc[q] \notin InCommit \cup {"read_head"}
<1>1. committing = 0 /\ p \in Actor
  BY CallCounted, Zenon DEF Actor
<1>2. pc[Boot] = "up"
  BY Zenon DEF CInv, Control, InOp
<1>3. \A q \in Proc : pc[q] \notin InCommit \cup {"read_head"}
  BY <1>1 DEF CInv, Committing, Control
<1> QED
  BY <1>2, <1>3, Zenon DEF Actor, InCommit

\* While one commits, nobody else is inside an operation.
LEMMA CommitFacts ==
  ASSUME CInv, NEW p \in Proc, pc[p] \in InCommit
  PROVE  /\ pc[Boot] = "up" /\ p \in Actor /\ Boot \in Actor /\ p # Boot
         /\ \A q \in Actor \ {p} : pc[q] \notin InOp \cup InCommit \cup {"panic", "read_head"}
<1>1. pc[Boot] = "up" /\ p \in Actor /\ Boot \in Actor /\ p # Boot
  BY LogAssumption, Zenon DEF CInv, Control, InCommit, Actor
<1>2. \A q \in Proc \ {p} : pc[q] \notin InOp \cup InCommit \cup {"panic", "read_head"}
  BY <1>1, CommitExcludesCalls, Zenon DEF CInv, Control
<1> QED
  BY <1>1, <1>2, Zenon DEF Actor, InOp, InCommit

\* The same while one installs, after a commit or in recovery.
LEMMA InstallFacts ==
  ASSUME CInv, NEW p \in Actor, pc[p] = "install"
  PROVE  /\ Boot \in Actor /\ \A q \in Proc : q \in Actor
         /\ \A q \in Actor \ {p} : pc[q] \notin InOp \cup InCommit \cup {"panic", "read_head"}
         /\ p = Boot \/ (p \in Proc /\ pc[Boot] = "up")
<1>1. CASE p = Boot
  BY <1>1, LogAssumption, Zenon DEF Actor, CInv, Control, InOp, InCommit
<1>2. CASE p \in Proc
  BY <1>2, CommitFacts, Zenon DEF Actor, InCommit
<1> QED
  BY <1>1, <1>2, Zenon DEF Actor

\* A buffer that is recycled has the contents of the disk.
LEMMA RecycledClean ==
  ASSUME CInv, DInv, NEW b \in Block, Recycle(b), b \notin replayed
  PROVE  cache[b] = home[b] /\ (b \in Logged(lh) => Installed(b))
<1>1. ~HeldBy(b) /\ ~Dirty(b) /\ b \in resident /\ refcnt[b] = 0
  BY Zenon DEF Recycle, HeldBy, Dirty
<1>2. ~Pinned(b)
  BY <1>1 DEF DInv, Exact
<1> QED
  BY <1>1, <1>2, Zenon DEF DInv, Clean, Pinned

\* A reference count of at most two does not wrap around.
LEMMA RefSteps ==
  /\ \A n \in {0, 1} : (n + 1) % RefMod = n + 1
  /\ \A n \in {1, 2} : (n + RefMod - 1) % RefMod = n - 1
<1>1. RefMod \in Nat /\ RefMod > 3
  BY LogAssumption
<1>2. \A n \in {0, 1} : (n + 1) % RefMod = n + 1
  BY <1>1
<1>3. \A n \in {1, 2} : (n + RefMod - 1) % RefMod = n - 1
  BY <1>1
<1> QED
  BY <1>2, <1>3, Zenon

\* Appending a new block keeps the log free of duplicates.
LEMMA DistinctAppend ==
  ASSUME NEW s \in Seq(Block), NEW b \in Block, b \notin Logged(s),
         \A i, j \in 1..Len(s) : s[i] = s[j] => i = j
  PROVE  LET t == Append(s, b)
         IN  \A i, j \in 1..Len(t) : t[i] = t[j] => i = j
<1>1. Len(Append(s, b)) = Len(s) + 1 /\ Len(s) \in Nat
  OBVIOUS
<1>2. \A i \in 1..Len(s) : Append(s, b)[i] = s[i] /\ s[i] # b
  BY DEF Logged
<1>3. Append(s, b)[Len(s) + 1] = b
  OBVIOUS
<1>4. \A i \in 1..(Len(s) + 1) : i \in 1..Len(s) \/ i = Len(s) + 1
  BY <1>1
<1> QED
  BY <1>1, <1>2, <1>3, <1>4, Zenon

\* Steps that change neither the disk, nor the buffers, nor the log.
LEMMA QuietKeeps ==
  ASSUME CInv, DInv, UNCHANGED <<disk, lh, bcache, replayed>>,
         \A p \in Actor :
           /\ \/ pc'[p] = pc[p]
              \/ /\ pc[p] \in {"idle", "begin", "asleep", "inop", "finish"}
                 /\ pc'[p] \in {"idle", "begin", "asleep", "inop", "finish"}
              \/ /\ p \in Proc /\ pc[p] = "inop"
                 /\ pc'[p] = "write_log" /\ tail'[p] = 0
           /\ pc[p] \in {"install", "write_log", "write_head"} => tail'[p] = tail[p]
  PROVE  DInv'
<1>1. home' = home /\ logblk' = logblk /\ head' = head /\ lh' = lh
      /\ resident' = resident /\ cache' = cache /\ refcnt' = refcnt
      /\ held' = held /\ replayed' = replayed
  BY Zenon DEF disk, bcache
<1>2. \A q \in Proc : q \in Actor
  BY Zenon DEF Actor
<1>3. \A a \in Block : Installed(a)' <=> Installed(a)
  BY <1>1 DEF Installed
<1>4. \A a \in Block : /\ Dirty(a)' <=> Dirty(a)
                       /\ HeldBy(a)' <=> HeldBy(a)
                       /\ Pinned(a)' <=> Pinned(a)
                       /\ Contents(a)' = Contents(a)
  BY <1>1, <1>2, <1>3, Zenon DEF Dirty, HeldBy, Pinned, Contents
<1>5. Distinct'
  BY <1>1 DEF DInv, Distinct
<1>6. HeldSound'
  BY <1>1, <1>2 DEF DInv, HeldSound
<1>7. Exact'
  BY <1>1, <1>4, Zenon DEF DInv, Exact
<1>8. pc'[Boot] = pc[Boot] /\ Boot \in Actor
  BY Zenon DEF Actor, CInv, Control
<1>9. PinnedUntilInstalled'
  BY <1>1, <1>3, <1>8 DEF DInv, PinnedUntilInstalled, Logged, CInv, TypeOK,
     TypeDisk, TypeLog, TypeCache, TypeProc
<1>10. Clean'
  BY <1>1, <1>3, <1>4, Zenon DEF DInv, Clean, CInv, TypeOK, TypeDisk, TypeLog,
     TypeCache, TypeProc
<1>11. HeadSound'
  BY <1>1, <1>2, <1>8, Zenon DEF DInv, HeadSound
<1>12. BootSound'
  BY <1>1, <1>8, Zenon DEF DInv, BootSound
<1>13. \A i \in 1..Len(lh) : lh[i] \in Block /\ ~(i <= 0)
  BY DEF CInv, TypeOK, TypeDisk, TypeLog, TypeCache, TypeProc
<1>14. Written'
  BY <1>1, <1>2, <1>4, <1>13 DEF DInv, Written, PinsKept
<1>15. Installing'
  BY <1>1, <1>2, <1>4, <1>13 DEF DInv, Installing, PinsKept
<1> QED
  BY <1>5, <1>6, <1>7, <1>9, <1>10, <1>11, <1>12, <1>14, <1>15, Zenon DEF DInv

\* A call reads a block.
LEMMA BreadKeeps ==
  ASSUME CInv, DInv, NEW p \in Proc, NEW b \in Block, OpBread(p, b)
  PROVE  DInv'
<1>1. /\ pc[p] = "inop" /\ \A q \in Proc : b \notin held[q]
      /\ resident' = resident \cup {b}
      /\ \A a \in Block : cache'[a] = IF a = b THEN Contents(b) ELSE cache[a]
      /\ \A a \in Block :
           refcnt'[a] = IF a = b THEN (refcnt[b] + 1) % RefMod ELSE refcnt[a]
      /\ \A q \in Proc : held'[q] = IF q = p THEN {b} ELSE held[q]
      /\ \A q \in Actor : pc'[q] = IF q = p THEN "modify" ELSE pc[q]
      /\ home' = home /\ head' = head /\ lh' = lh /\ replayed' = replayed
  BY Zenon DEF OpBread, Fill, RefUp, Goto, disk, bounds, CInv, TypeOK, TypeDisk,
     TypeLog, TypeCache, TypeProc
<1>2. pc[Boot] = "up" /\ \A q \in Actor : pc[q] \notin InCommit \cup {"read_head"}
  BY <1>1, CallFacts, Zenon DEF InOp
<1>3. \A q \in Actor : pc'[q] \notin InCommit \cup {"read_head"}
  BY <1>1, <1>2, Zenon DEF InCommit
<1>4. pc'[Boot] = "up" /\ Boot \in Actor /\ \A q \in Proc : q \in Actor
  BY <1>1, <1>2, LogAssumption, Zenon DEF Actor
<1>5. \A a \in Block : ~Installed(a) /\ ~Installed(a)' 
  BY <1>2, <1>3, Zenon DEF Installed, InCommit
<1>6. held[p] = {}
  BY <1>1, Zenon DEF DInv, HeldSound
<1>7. \A a \in Block : /\ HeldBy(a)' <=> HeldBy(a) \/ a = b
                       /\ ~HeldBy(b)
                       /\ Pinned(a)' <=> Pinned(a)
                       /\ Dirty(a)' <=> Dirty(a)
  BY <1>1, <1>5, <1>6, <1>4 DEF HeldBy, Pinned, Dirty
<1>8. HeldSound'
  BY <1>1, <1>4 DEF DInv, HeldSound
<1>9. Exact'
  <2> SUFFICES ASSUME NEW a \in Block \ replayed
               PROVE  refcnt'[a] = (IF HeldBy(a)' THEN 1 ELSE 0) + (IF Pinned(a)' THEN 1 ELSE 0)
    BY <1>1, Zenon DEF Exact
  <2>1. refcnt[a] = (IF HeldBy(a) THEN 1 ELSE 0) + (IF Pinned(a) THEN 1 ELSE 0)
    BY Zenon DEF DInv, Exact
  <2>2. CASE a = b
    <3>1. refcnt[a] \in {0, 1}
      BY <1>7, <2>1, <2>2
    <3>2. refcnt'[a] = refcnt[a] + 1
      BY <1>1, <2>2, <3>1, RefSteps, Zenon
    <3> QED
      BY <1>7, <2>1, <2>2, <3>1, <3>2
  <2>3. CASE a # b
    BY <1>1, <1>7, <2>1, <2>3, Zenon
  <2> QED
    BY <2>2, <2>3, Zenon
<1>10. PinnedUntilInstalled'
  BY <1>1, <1>2, <1>5 DEF DInv, PinnedUntilInstalled, HeldSound, Logged, CInv,
     TypeOK, TypeDisk, TypeLog, TypeCache, TypeProc
<1>11. Clean'
  BY <1>1, <1>5, <1>7 DEF DInv, Clean, Contents, TypeCache, TypeOK, CInv
<1>12. HeadSound'
  BY <1>1, <1>2, <1>3, <1>4, Zenon DEF DInv, HeadSound, InCommit
<1>13. BootSound'
  BY <1>4, Zenon DEF BootSound
<1>14. Written'
  BY <1>3, <1>4, Zenon DEF Written, InCommit
<1>15. Installing'
  BY <1>3, <1>4, Zenon DEF Installing, InCommit
<1>16. Distinct'
  BY <1>1 DEF DInv, Distinct
<1> QED
  BY <1>8, <1>9, <1>10, <1>11, <1>12, <1>13, <1>14, <1>15, <1>16, Zenon DEF DInv

\* A call changes its buffer and enters log_write.
LEMMA CheckKeeps ==
  ASSUME CInv, DInv, NEW p \in Proc, NEW b \in Block, NEW d \in Data,
         LogWriteCheck(p, b, d)
  PROVE  DInv'
<1>1. /\ pc[p] = "modify" /\ b \in held[p]
      /\ \A a \in Block : cache'[a] = IF a = b THEN d ELSE cache[a]
      /\ \E l \in {"panic", "log_write"} :
           \A q \in Actor : pc'[q] = IF q = p THEN l ELSE pc[q]
      /\ resident' = resident /\ refcnt' = refcnt /\ held' = held
      /\ home' = home /\ head' = head /\ lh' = lh /\ replayed' = replayed
  BY Zenon DEF LogWriteCheck, Goto, disk, bounds, CInv, TypeOK, TypeDisk,
     TypeLog, TypeCache, TypeProc
<1>2. pc[Boot] = "up" /\ \A q \in Actor : pc[q] \notin InCommit \cup {"read_head"}
  BY <1>1, CallFacts, Zenon DEF InOp
<1>3. \A q \in Actor : pc'[q] \notin InCommit \cup {"read_head"}
  BY <1>1, <1>2, Zenon DEF InCommit
<1>4. pc'[Boot] = "up" /\ Boot \in Actor /\ \A q \in Proc : q \in Actor
  BY <1>1, <1>2, LogAssumption, Zenon DEF Actor
<1>5. \A a \in Block : ~Installed(a) /\ ~Installed(a)' 
  BY <1>2, <1>3, Zenon DEF Installed, InCommit
<1>6. held[p] = {b}
  BY <1>1 DEF DInv, HeldSound, CInv, TypeOK, TypeDisk, TypeLog, TypeCache, TypeProc
<1>7. \A a \in Block : /\ HeldBy(a)' <=> HeldBy(a)
                       /\ Pinned(a)' <=> Pinned(a)
                       /\ Dirty(a)' <=> Dirty(a) \/ a = b
  BY <1>1, <1>5, <1>6, <1>4, Zenon DEF HeldBy, Pinned, Dirty
<1>8. HeldSound'
  BY <1>1, <1>4, Zenon DEF DInv, HeldSound
<1>9. Exact'
  BY <1>1, <1>7, Zenon DEF DInv, Exact
<1>10. PinnedUntilInstalled'
  BY <1>1, <1>2, <1>5 DEF DInv, PinnedUntilInstalled, HeldSound, Logged, CInv,
     TypeOK, TypeDisk, TypeLog, TypeCache, TypeProc
<1>11. Clean'
  BY <1>1, <1>5, <1>7, Zenon DEF DInv, Clean, TypeCache, TypeOK, CInv
<1>12. HeadSound'
  BY <1>1, <1>2, <1>3, <1>4, Zenon DEF DInv, HeadSound, InCommit
<1>13. BootSound'
  BY <1>4, Zenon DEF BootSound
<1>14. Written'
  BY <1>3, <1>4, Zenon DEF Written, InCommit
<1>15. Installing'
  BY <1>3, <1>4, Zenon DEF Installing, InCommit
<1>16. Distinct'
  BY <1>1 DEF DInv, Distinct
<1> QED
  BY <1>8, <1>9, <1>10, <1>11, <1>12, <1>13, <1>14, <1>15, <1>16, Zenon DEF DInv

\* log_write absorbs a block that is in the log.
LEMMA AbsorbKeeps ==
  ASSUME CInv, DInv, NEW p \in Proc, NEW b \in Block, LogWrite(p, b), b \in Logged(lh)
  PROVE  DInv'
<1>1. /\ pc[p] = "log_write" /\ b \in held[p] /\ lh' = lh
      /\ \A q \in Actor : pc'[q] = IF q = p THEN "brelse" ELSE pc[q]
      /\ resident' = resident /\ refcnt' = refcnt /\ held' = held /\ cache' = cache
      /\ home' = home /\ head' = head /\ replayed' = replayed
  BY Zenon DEF LogWrite, Record, Goto, disk, bounds, CInv, TypeOK, TypeDisk,
     TypeLog, TypeCache, TypeProc
<1>2. pc[Boot] = "up" /\ \A q \in Actor : pc[q] \notin InCommit \cup {"read_head"}
  BY <1>1, CallFacts, Zenon DEF InOp
<1>3. \A q \in Actor : pc'[q] \notin InCommit \cup {"read_head"}
  BY <1>1, <1>2, Zenon DEF InCommit
<1>4. pc'[Boot] = "up" /\ Boot \in Actor /\ \A q \in Proc : q \in Actor
  BY <1>1, <1>2, LogAssumption, Zenon DEF Actor
<1>5. \A a \in Block : ~Installed(a) /\ ~Installed(a)' 
  BY <1>2, <1>3, Zenon DEF Installed, InCommit
<1>6. held[p] = {b}
  BY <1>1 DEF DInv, HeldSound, CInv, TypeOK, TypeDisk, TypeLog, TypeCache, TypeProc
<1>7. \A a \in Block : /\ HeldBy(a)' <=> HeldBy(a)
                       /\ Pinned(a)' <=> Pinned(a)
                       /\ a # b => (Dirty(a)' <=> Dirty(a))
  BY <1>1, <1>5, <1>6, <1>4, Zenon DEF HeldBy, Pinned, Dirty
<1>8. HeldSound'
  BY <1>1, <1>4, <1>6 DEF DInv, HeldSound
<1>9. Exact'
  BY <1>1, <1>7, Zenon DEF DInv, Exact
<1>10. PinnedUntilInstalled'
  BY <1>1, <1>2, <1>5 DEF DInv, PinnedUntilInstalled, HeldSound, Logged, CInv,
     TypeOK, TypeDisk, TypeLog, TypeCache, TypeProc
<1>11. Clean'
  BY <1>1, <1>5, <1>7, Zenon DEF DInv, Clean, TypeCache, TypeOK, CInv
<1>12. HeadSound'
  BY <1>1, <1>2, <1>3, <1>4, Zenon DEF DInv, HeadSound, InCommit
<1>13. BootSound'
  BY <1>4, Zenon DEF BootSound
<1>14. Written'
  BY <1>3, <1>4, Zenon DEF Written, InCommit
<1>15. Installing'
  BY <1>3, <1>4, Zenon DEF Installing, InCommit
<1>16. Distinct'
  BY <1>1 DEF DInv, Distinct
<1> QED
  BY <1>8, <1>9, <1>10, <1>11, <1>12, <1>13, <1>14, <1>15, <1>16, Zenon DEF DInv

\* log_write adds a block to the log and pins it.
LEMMA AppendKeeps ==
  ASSUME CInv, DInv, NEW p \in Proc, NEW b \in Block, LogWrite(p, b), b \notin Logged(lh)
  PROVE  DInv'
<1>1. /\ pc[p] = "log_write" /\ b \in held[p] /\ lh' = Append(lh, b)
      /\ \A a \in Block :
           refcnt'[a] = IF a = b THEN (refcnt[b] + 1) % RefMod ELSE refcnt[a]
      /\ \A q \in Actor : pc'[q] = IF q = p THEN "brelse" ELSE pc[q]
      /\ resident' = resident /\ held' = held /\ cache' = cache
      /\ home' = home /\ head' = head /\ replayed' = replayed
  BY Zenon DEF LogWrite, Record, RefUp, Goto, disk, bounds, CInv, TypeOK,
     TypeDisk, TypeLog, TypeCache, TypeProc
<1>2. pc[Boot] = "up" /\ \A q \in Actor : pc[q] \notin InCommit \cup {"read_head"}
  BY <1>1, CallFacts, Zenon DEF InOp
<1>3. \A q \in Actor : pc'[q] \notin InCommit \cup {"read_head"}
  BY <1>1, <1>2, Zenon DEF InCommit
<1>4. pc'[Boot] = "up" /\ Boot \in Actor /\ \A q \in Proc : q \in Actor
  BY <1>1, <1>2, LogAssumption, Zenon DEF Actor
<1>5. \A a \in Block : ~Installed(a) /\ ~Installed(a)' 
  BY <1>2, <1>3, Zenon DEF Installed, InCommit
<1>6. held[p] = {b}
  BY <1>1 DEF DInv, HeldSound, CInv, TypeOK, TypeDisk, TypeLog, TypeCache, TypeProc
<1>7. Logged(lh') = Logged(lh) \cup {b}
  BY <1>1, LoggedAppend, Zenon DEF CInv, TypeOK, TypeDisk, TypeLog, TypeCache,
     TypeProc
<1>8. \A a \in Block : /\ HeldBy(a)' <=> HeldBy(a)
                       /\ HeldBy(b) /\ ~Pinned(b)
                       /\ Pinned(a)' <=> Pinned(a) \/ a = b
                       /\ a # b => (Dirty(a)' <=> Dirty(a))
  BY <1>1, <1>5, <1>6, <1>4, <1>7, Zenon DEF HeldBy, Pinned, Dirty
<1>9. Distinct'
  BY <1>1, DistinctAppend, Zenon DEF DInv, Distinct, CInv, TypeOK, TypeDisk,
     TypeLog, TypeCache, TypeProc
<1>10. HeldSound'
  BY <1>1, <1>4, <1>6, <1>7 DEF DInv, HeldSound
<1>11. Exact'
  BY <1>1, <1>8, RefSteps DEF DInv, Exact
<1>12. PinnedUntilInstalled'
  BY <1>1, <1>2, <1>5 DEF DInv, PinnedUntilInstalled, HeldSound, Logged, CInv,
     TypeOK, TypeDisk, TypeLog, TypeCache, TypeProc
<1>13. Clean'
  BY <1>1, <1>5, <1>7, <1>8, Zenon DEF DInv, Clean, TypeCache, TypeOK, CInv
<1>14. HeadSound'
  BY <1>1, <1>2, <1>3, <1>4, Zenon DEF DInv, HeadSound, InCommit
<1>15. BootSound'
  BY <1>4, Zenon DEF BootSound
<1>16. Written'
  BY <1>3, <1>4, Zenon DEF Written, InCommit
<1>17. Installing'
  BY <1>3, <1>4, Zenon DEF Installing, InCommit
<1> QED
  BY <1>9, <1>10, <1>11, <1>12, <1>13, <1>14, <1>15, <1>16, <1>17 DEF DInv

\* A call releases its buffer.
LEMMA BrelseKeeps ==
  ASSUME CInv, DInv, NEW p \in Proc, NEW b \in Block, OpBrelse(p, b)
  PROVE  DInv'
<1>1. /\ pc[p] = "brelse" /\ b \in held[p]
      /\ \A a \in Block :
           refcnt'[a] = IF a = b THEN (refcnt[b] + RefMod - 1) % RefMod ELSE refcnt[a]
      /\ \A q \in Proc : held'[q] = IF q = p THEN {} ELSE held[q]
      /\ \A q \in Actor : pc'[q] = IF q = p THEN "inop" ELSE pc[q]
      /\ resident' = resident /\ cache' = cache
      /\ home' = home /\ head' = head /\ lh' = lh /\ replayed' = replayed
  BY Zenon DEF OpBrelse, RefDown, Goto, disk, bounds, CInv, TypeOK, TypeDisk,
     TypeLog, TypeCache, TypeProc
<1>2. pc[Boot] = "up" /\ \A q \in Actor : pc[q] \notin InCommit \cup {"read_head"}
  BY <1>1, CallFacts, Zenon DEF InOp
<1>3. \A q \in Actor : pc'[q] \notin InCommit \cup {"read_head"}
  BY <1>1, <1>2 DEF InCommit
<1>4. pc'[Boot] = "up" /\ Boot \in Actor /\ \A q \in Proc : q \in Actor
  BY <1>1, <1>2, LogAssumption, Zenon DEF Actor
<1>5. \A a \in Block : ~Installed(a) /\ ~Installed(a)' 
  BY <1>2, <1>3 DEF Installed, InCommit
<1>6. held[p] = {b} /\ \A q \in Proc \ {p} : b \notin held[q]
  BY <1>1 DEF DInv, HeldSound, CInv, TypeOK, TypeDisk, TypeLog, TypeCache, TypeProc
<1>7. \A a \in Block : /\ HeldBy(a)' <=> HeldBy(a) /\ a # b
                       /\ HeldBy(b)
                       /\ Pinned(a)' <=> Pinned(a)
                       /\ Dirty(a)' <=> Dirty(a)
  BY <1>1, <1>5, <1>6, <1>4 DEF HeldBy, Pinned, Dirty
<1>8. HeldSound'
  BY <1>1, <1>4 DEF DInv, HeldSound
<1>9. Exact'
  <2> SUFFICES ASSUME NEW a \in Block \ replayed
               PROVE  refcnt'[a] = (IF HeldBy(a)' THEN 1 ELSE 0) + (IF Pinned(a)' THEN 1 ELSE 0)
    BY <1>1, Zenon DEF Exact
  <2>1. refcnt[a] = (IF HeldBy(a) THEN 1 ELSE 0) + (IF Pinned(a) THEN 1 ELSE 0)
    BY DEF DInv, Exact
  <2>2. CASE a = b
    <3>1. refcnt[a] \in {1, 2}
      BY <1>7, <2>1, <2>2
    <3>2. refcnt'[a] = refcnt[a] - 1
      BY <1>1, <2>2, <3>1, RefSteps, Zenon
    <3> QED
      BY <1>7, <2>1, <2>2, <3>1, <3>2
  <2>3. CASE a # b
    BY <1>1, <1>7, <2>1, <2>3
  <2> QED
    BY <2>2, <2>3
<1>10. PinnedUntilInstalled'
  BY <1>1, <1>2, <1>5 DEF DInv, PinnedUntilInstalled, HeldSound, Logged, CInv,
     TypeOK, TypeDisk, TypeLog, TypeCache, TypeProc
<1>11. Clean'
  BY <1>1, <1>5, <1>7, Zenon DEF DInv, Clean, TypeCache, TypeOK, CInv
<1>12. HeadSound'
  BY <1>1, <1>2, <1>3, <1>4 DEF DInv, HeadSound, InCommit
<1>13. BootSound'
  BY <1>4 DEF BootSound
<1>14. Written'
  BY <1>3, <1>4 DEF Written, InCommit
<1>15. Installing'
  BY <1>3, <1>4 DEF Installing, InCommit
<1>16. Distinct'
  BY <1>1 DEF DInv, Distinct
<1> QED
  BY <1>8, <1>9, <1>10, <1>11, <1>12, <1>13, <1>14, <1>15, <1>16 DEF DInv

\* write_log copies a block into the log.
LEMMA WriteLogKeeps ==
  ASSUME CInv, DInv, NEW p \in Proc, WriteLog(p)
  PROVE  DInv'
<1>1. pc[p] = "write_log" /\ tail[p] \in Nat /\ tail[p] < Len(lh) /\ Len(lh) \in Nat
  BY DEF WriteLog, Tails, Actor, CInv, TypeOK, TypeDisk, TypeLog, TypeCache, TypeProc
<1>2. tail[p] + 1 \in 1..Len(lh) /\ Len(lh) <= LOGSIZE
  BY <1>1, LogBounded
<1>3. PICK b \in Block : b = lh[tail[p] + 1]
  BY <1>2 DEF CInv, TypeOK, TypeDisk, TypeLog, TypeCache, TypeProc
<1>4. /\ resident' = resident \cup {b}
      /\ \A a \in Block : cache'[a] = IF a = b THEN Contents(b) ELSE cache[a]
      /\ \A i \in 1..LOGSIZE :
           logblk'[i] = IF i = tail[p] + 1 THEN Contents(b) ELSE logblk[i]
      /\ tail[p] + 1 = Len(lh) =>
           \A q \in Actor : pc'[q] = IF q = p THEN "write_head" ELSE pc[q]
      /\ tail[p] + 1 # Len(lh) =>
           /\ \A q \in Actor : pc'[q] = IF q = p THEN "write_log" ELSE pc[q]
           /\ tail'[p] = tail[p] + 1
      /\ home' = home /\ head' = head /\ lh' = lh /\ replayed' = replayed
      /\ held' = held /\ refcnt' = refcnt
  BY <1>3, Zenon DEF WriteLog, Fill, Goto, Actor, bounds, CInv, TypeOK,
     TypeDisk, TypeLog, TypeCache, TypeProc
<1>5. /\ pc[Boot] = "up" /\ p \in Actor /\ Boot \in Actor /\ p # Boot
      /\ \A q \in Proc : q \in Actor
      /\ \A q \in Actor \ {p} : pc[q] \notin InOp \cup InCommit \cup {"panic", "read_head"}
  BY <1>1, CommitFacts, Zenon DEF InCommit, Actor
<1>6. /\ pc'[p] \in {"write_log", "write_head"}
      /\ \A q \in Actor \ {p} : pc'[q] = pc[q]
  BY <1>4, <1>5, Zenon
<1>7. \A a \in Block : ~Installed(a) /\ ~Installed(a)'
  BY <1>1, <1>5, <1>6, Zenon DEF Installed, InCommit
<1>8. \A a \in Block : /\ HeldBy(a)' <=> HeldBy(a)
                       /\ Pinned(a)' <=> Pinned(a)
                       /\ Dirty(a)' <=> Dirty(a)
                       /\ Contents(a)' = Contents(a)
  BY <1>1, <1>4, <1>5, <1>6, <1>7 DEF HeldBy, Pinned, Dirty, Contents
<1>9. Distinct'
  BY <1>4 DEF DInv, Distinct
<1>10. HeldSound'
  <2>1. held' = held /\ lh' = lh /\ resident \subseteq resident'
    BY <1>4, Zenon
  <2>2. held[p] = {}
    BY <1>1, Zenon DEF DInv, HeldSound
  <2>3. \A q \in Proc : held[q] # {} => pc'[q] = pc[q]
    BY <1>5, <1>6, <2>2, Zenon
  <2>4. \A q \in Proc : pc'[q] = "brelse" => pc[q] = "brelse"
    BY <1>5, <1>6, Zenon
  <2> QED
    BY <2>1, <2>3, <2>4, Zenon DEF DInv, HeldSound
<1>11. Exact'
  BY <1>4, <1>8, Zenon DEF DInv, Exact
<1>12. PinnedUntilInstalled'
  BY <1>4, <1>5, <1>7 DEF DInv, PinnedUntilInstalled, Logged, CInv, TypeOK,
     TypeDisk, TypeLog, TypeCache, TypeProc
<1>13. Clean'
  BY <1>4, <1>7, <1>8, Zenon DEF DInv, Clean, Contents, TypeCache, TypeOK, CInv
<1>14. HeadSound'
  BY <1>1, <1>4, <1>5, <1>6, Zenon DEF DInv, HeadSound, InCommit
<1>15. BootSound'
  BY <1>5, <1>6, Zenon DEF BootSound
<1>16. Written'
  <2> SUFFICES ASSUME PinsKept, NEW i \in 1..Len(lh),
                      pc'[p] = "write_log" => i <= tail'[p]
               PROVE  logblk'[i] = Contents(lh[i])'
    <3>1. lh' = lh /\ replayed' = replayed
      BY <1>4, Zenon
    <3>2. PinsKept' <=> PinsKept
      BY <3>1, Zenon DEF PinsKept
    <3>3. \A q \in Proc : q # p => pc'[q] \notin {"write_log", "write_head"}
      BY <1>5, <1>6, Zenon DEF InCommit
    <3> QED
      BY <3>1, <3>2, <3>3, Zenon DEF Written
  <2>1. lh[i] \in Block /\ i \in 1..LOGSIZE /\ i <= tail[p] + 1
    BY <1>1, <1>2, <1>4, <1>5, LogAssumption DEF CInv, TypeOK, TypeDisk, TypeLog,
       TypeCache, TypeProc
  <2>2. Contents(lh[i])' = Contents(lh[i])
    BY <1>4, <1>8, <2>1, Zenon
  <2>3. CASE i = tail[p] + 1
    BY <1>3, <1>4, <2>1, <2>2, <2>3, Zenon
  <2>4. CASE i # tail[p] + 1
    <3>1. i <= tail[p]
      BY <1>1, <2>1, <2>4
    <3> QED
      BY <1>1, <1>4, <2>1, <2>2, <2>4, <3>1 DEF DInv, Written
  <2> QED
    BY <2>3, <2>4, Zenon
<1>17. Installing'
  BY <1>1, <1>5, <1>6 DEF Installing, InCommit, PinsKept
<1> QED
  BY <1>9, <1>10, <1>11, <1>12, <1>13, <1>14, <1>15, <1>16, <1>17, Zenon DEF
     DInv

\* write_head writes the header: the commit.
LEMMA WriteHeadKeeps ==
  ASSUME CInv, DInv, NEW p \in Proc, WriteHead(p)
  PROVE  DInv'
<1>1. /\ pc[p] = "write_head" /\ head' = lh
      /\ \A q \in Actor : pc'[q] = IF q = p THEN "install" ELSE pc[q]
      /\ home' = home /\ logblk' = logblk /\ lh' = lh /\ replayed' = replayed
      /\ held' = held /\ refcnt' = refcnt /\ cache' = cache /\ resident' = resident
      /\ tail' = tail
  BY Zenon DEF WriteHead, Goto, bounds, bcache, CInv, TypeOK, TypeDisk, TypeLog,
     TypeCache, TypeProc
<1>2. tail[p] = 0 /\ \A i \in 1..Len(lh) : ~(i <= 0) /\ lh[i] \in Block
  BY <1>1 DEF Tails, Actor, CInv, TypeOK, TypeDisk, TypeLog, TypeCache, TypeProc
<1>3. /\ pc[Boot] = "up" /\ p \in Actor /\ Boot \in Actor /\ p # Boot
      /\ \A q \in Proc : q \in Actor
      /\ \A q \in Actor \ {p} : pc[q] \notin InOp \cup InCommit \cup {"panic", "read_head"}
  BY <1>1, CommitFacts, Zenon DEF InCommit, Actor
<1>4. \A a \in Block : ~Installed(a) /\ ~Installed(a)'
  BY <1>1, <1>2, <1>3, Zenon DEF Installed, InCommit
<1>5. \A a \in Block : /\ HeldBy(a)' <=> HeldBy(a)
                       /\ Pinned(a)' <=> Pinned(a)
                       /\ Dirty(a)' <=> Dirty(a)
                       /\ Contents(a)' = Contents(a)
  BY <1>1, <1>3, <1>4, Zenon DEF HeldBy, Pinned, Dirty, Contents
<1>6. Distinct'
  BY <1>1, Zenon DEF DInv, Distinct
<1>7. HeldSound'
  BY <1>1, <1>3, Zenon DEF DInv, HeldSound
<1>8. Exact'
  BY <1>1, <1>5, Zenon DEF DInv, Exact
<1>9. PinnedUntilInstalled'
  BY <1>1, <1>3, <1>4 DEF DInv, PinnedUntilInstalled, Logged, CInv, TypeOK,
     TypeDisk, TypeLog, TypeCache, TypeProc
<1>10. Clean'
  BY <1>1, <1>4, <1>5, Zenon DEF DInv, Clean, TypeCache, TypeOK, CInv
<1>11. HeadSound'
  BY <1>1, <1>3, Zenon DEF HeadSound
<1>12. BootSound'
  BY <1>1, <1>3, Zenon DEF BootSound
<1>13. Written'
  BY <1>1, <1>3, Zenon DEF Written, InCommit
<1>14. Installing'
  <2>1. PinsKept => \A i \in 1..Len(lh) : logblk[i] = Contents(lh[i])
    BY <1>1, Zenon DEF DInv, Written
  <2>2. \A i \in 1..Len(lh) : Contents(lh[i])' = Contents(lh[i])
    BY <1>1, <1>2, <1>5, Zenon
  <2> QED
    BY <1>1, <1>2, <1>3, <2>1, <2>2 DEF Installing, InCommit, PinsKept
<1> QED
  BY <1>6, <1>7, <1>8, <1>9, <1>10, <1>11, <1>12, <1>13, <1>14 DEF DInv

\* install_trans copies a block home and unpins it.
LEMMA InstallKeeps ==
  ASSUME CInv, DInv, NEW p \in Actor, InstallTrans(p)
  PROVE  DInv'
<1>1. pc[p] = "install" /\ tail[p] \in Nat /\ tail[p] < Len(lh) /\ Len(lh) \in Nat
  BY DEF InstallTrans, CInv, TypeOK, TypeDisk, TypeLog, TypeCache, TypeProc
<1>2. tail[p] + 1 \in 1..Len(lh) /\ tail[p] + 1 \in 1..LOGSIZE
  BY <1>1, LogBounded, LogAssumption
<1>3. PICK b \in Block : b = lh[tail[p] + 1]
  BY <1>2 DEF CInv, TypeOK, TypeDisk, TypeLog, TypeCache, TypeProc
<1>4. /\ resident' = resident \cup {b}
      /\ \A a \in Block :
           home'[a] = IF a = b THEN logblk[tail[p] + 1] ELSE home[a]
      /\ \A a \in Block :
           cache'[a] = IF a = b THEN logblk[tail[p] + 1] ELSE cache[a]
      /\ \A a \in Block :
           refcnt'[a] = IF a = b THEN (refcnt[b] + RefMod - 1) % RefMod ELSE refcnt[a]
      /\ \A q \in Actor : tail'[q] = IF q = p THEN tail[p] + 1 ELSE tail[q]
      /\ logblk' = logblk /\ head' = head /\ lh' = lh /\ replayed' = replayed
      /\ held' = held /\ pc' = pc
  BY <1>3, Zenon DEF InstallTrans, RefDown, bounds, CInv, TypeOK, TypeDisk,
     TypeLog, TypeCache, TypeProc
<1>5. /\ Boot \in Actor /\ \A q \in Proc : q \in Actor
      /\ \A q \in Actor \ {p} : pc[q] \notin InCommit \cup {"read_head"}
      /\ p = Boot \/ (p \in Proc /\ pc[Boot] = "up")
  BY <1>1, InstallFacts, Zenon DEF InCommit
<1>6. \A i \in 1..Len(lh) : lh[i] = b <=> i = tail[p] + 1
  BY <1>2, <1>3, Zenon DEF DInv, Distinct
<1>7. /\ \A i \in 1..Len(lh) : i <= tail[p] + 1 <=> i <= tail[p] \/ i = tail[p] + 1
      /\ ~(tail[p] + 1 <= tail[p])
  BY <1>1
<1>8. \A a \in Block : Installed(a)' <=> Installed(a) \/ a = b
  BY <1>1, <1>2, <1>3, <1>4, <1>5, <1>7 DEF Installed, InCommit
<1>9. ~Installed(b) /\ b \in Logged(lh)
  BY <1>1, <1>2, <1>3, <1>5, <1>6, <1>7, Zenon DEF Installed, InCommit, Logged
<1>10. \A a \in Block : /\ HeldBy(a)' <=> HeldBy(a)
                        /\ Pinned(a)' <=> Pinned(a) /\ a # b
                        /\ Dirty(a)' <=> Dirty(a)
                        /\ Pinned(b)
  BY <1>4, <1>8, <1>9, Zenon DEF HeldBy, Pinned, Dirty
<1>11. /\ \A a \in Block \ {b} : Contents(a)' = Contents(a)
       /\ Contents(b)' = logblk[tail[p] + 1]
  BY <1>4, Zenon DEF Contents
<1>12. Distinct'
  BY <1>4 DEF DInv, Distinct
<1>13. HeldSound'
  BY <1>4 DEF DInv, HeldSound
<1>14. Exact'
  <2> SUFFICES ASSUME NEW a \in Block \ replayed
               PROVE  refcnt'[a] = (IF HeldBy(a)' THEN 1 ELSE 0) + (IF Pinned(a)' THEN 1 ELSE 0)
    BY <1>4, Zenon DEF Exact
  <2>1. refcnt[a] = (IF HeldBy(a) THEN 1 ELSE 0) + (IF Pinned(a) THEN 1 ELSE 0)
    BY Zenon DEF DInv, Exact
  <2>2. CASE a = b
    <3>1. refcnt[a] \in {1, 2}
      BY <1>10, <2>1, <2>2
    <3>2. refcnt'[a] = refcnt[a] - 1
      BY <1>4, <2>2, <3>1, RefSteps
    <3> QED
      BY <1>10, <2>1, <2>2, <3>1, <3>2
  <2>3. CASE a # b
    BY <1>4, <1>10, <2>1, <2>3, Zenon
  <2> QED
    BY <2>2, <2>3, Zenon
<1>15. PinnedUntilInstalled'
  BY <1>4, <1>8 DEF DInv, PinnedUntilInstalled, Logged, CInv, TypeOK, TypeDisk,
     TypeLog, TypeCache, TypeProc
<1>16. Clean'
  BY <1>4, <1>8, <1>10, Zenon DEF DInv, Clean, TypeCache, TypeOK, CInv
<1>17. HeadSound'
  BY <1>4, Zenon DEF DInv, HeadSound
<1>18. BootSound'
  BY <1>1, <1>4, <1>5, Zenon DEF DInv, BootSound
<1>19. Written'
  BY <1>1, <1>4, <1>5, Zenon DEF Written, InCommit, PinsKept
<1>20. Installing'
  <2>1. \A i \in 1..Len(lh) : lh[i] \in Block
    BY DEF CInv, TypeOK, TypeDisk, TypeLog, TypeCache, TypeProc
  <2>2. \A i \in 1..Len(lh) : i <= tail[p] + 1 => home'[lh[i]] = logblk[i]
    <3> SUFFICES ASSUME NEW i \in 1..Len(lh), i <= tail[p] + 1
                 PROVE  home'[lh[i]] = logblk[i]
      BY Zenon
    <3>1. CASE i = tail[p] + 1
      BY <1>3, <1>4, <3>1, Zenon
    <3>2. CASE i # tail[p] + 1
      <4>1. lh[i] # b /\ i <= tail[p]
        BY <1>6, <1>7, <3>2, Zenon
      <4>2. home[lh[i]] = logblk[i]
        BY <1>1, <4>1, Zenon DEF DInv, Installing
      <4> QED
        BY <1>4, <2>1, <4>1, <4>2, Zenon
    <3> QED
      BY <3>1, <3>2, Zenon
  <2>3. PinsKept => \A i \in 1..Len(lh) : p \in Proc => Contents(lh[i])' = logblk[i]
    <3> SUFFICES ASSUME PinsKept, NEW i \in 1..Len(lh), p \in Proc
                 PROVE  Contents(lh[i])' = logblk[i]
      BY Zenon
    <3>1. CASE i = tail[p] + 1
      <4>1. lh' = lh /\ lh[i] = b
        BY <1>3, <1>4, <3>1, Zenon
      <4> QED
        BY <1>11, <3>1, <4>1, Zenon
    <3>2. CASE i # tail[p] + 1
      <4>1. lh' = lh /\ lh[i] # b
        BY <1>4, <1>6, <3>2, Zenon
      <4>2. Contents(lh[i]) = logblk[i]
        BY <1>1, Zenon DEF DInv, Installing
      <4> QED
        BY <1>11, <2>1, <4>1, <4>2, Zenon
    <3> QED
      BY <3>1, <3>2, Zenon
  <2> QED
    BY <1>1, <1>4, <1>5, <2>1, <2>2, <2>3 DEF Installing, InCommit, PinsKept
<1> QED
  BY <1>12, <1>13, <1>14, <1>15, <1>16, <1>17, <1>18, <1>19, <1>20, Zenon DEF
     DInv

\* commit, or recovery, clears the header.
LEMMA ClearKeeps ==
  ASSUME CInv, DInv, NEW p \in Actor, ClearHead(p)
  PROVE  DInv'
<1>1. /\ pc[p] = "install" /\ tail[p] >= Len(lh) /\ lh' = <<>> /\ head' = <<>>
      /\ \A q \in Actor :
           pc'[q] = IF q = p THEN IF p = Boot THEN "up" ELSE "finish" ELSE pc[q]
      /\ home' = home /\ resident' = resident /\ cache' = cache
      /\ refcnt' = refcnt /\ held' = held /\ replayed' = replayed
  BY Zenon DEF ClearHead, InstallDone, Goto, bounds, bcache, CInv, TypeOK,
     TypeDisk, TypeLog, TypeCache, TypeProc
<1>2. /\ Boot \in Actor /\ \A q \in Proc : q \in Actor
      /\ \A q \in Actor \ {p} : pc[q] \notin InCommit \cup {"read_head"}
      /\ p = Boot \/ (p \in Proc /\ pc[Boot] = "up")
  BY <1>1, InstallFacts, Zenon DEF InCommit
<1>3. \A a \in Block : (a \in Logged(lh) => Installed(a)) /\ a \notin Logged(lh')
  <2>1. tail[p] \in Nat /\ Len(lh) \in Nat
    BY DEF CInv, TypeOK, TypeDisk, TypeLog, TypeCache, TypeProc
  <2>2. \A i \in 1..Len(lh) : i <= tail[p]
    BY <1>1, <2>1
  <2>3. \A a \in Block : a \in Logged(lh) => Installed(a)
    BY <1>1, <2>2, Zenon DEF Installed, Logged
  <2> QED
    BY <1>1, <2>3 DEF Logged
<1>4. \A a \in Block : /\ HeldBy(a)' <=> HeldBy(a)
                       /\ ~Pinned(a)' /\ ~Pinned(a)
                       /\ Dirty(a)' <=> Dirty(a)
  BY <1>1, <1>2, <1>3, Zenon DEF HeldBy, Pinned, Dirty
<1>5. Distinct'
  BY <1>1 DEF DInv, Distinct
<1>6. HeldSound'
  BY <1>1, <1>2, InstallFacts DEF DInv, HeldSound, InOp, InCommit
<1>7. Exact'
  BY <1>1, <1>4, Zenon DEF DInv, Exact
<1>8. PinnedUntilInstalled'
  BY <1>1 DEF PinnedUntilInstalled, Logged
<1>9. Clean'
  BY <1>1, <1>3, <1>4, Zenon DEF DInv, Clean, TypeCache, TypeOK, CInv
<1>10. HeadSound'
  BY <1>1, <1>2, Zenon DEF HeadSound, InCommit
<1>11. BootSound'
  BY <1>1, <1>2, Zenon DEF BootSound
<1>12. Written'
  BY <1>1, <1>2 DEF Written
<1>13. Installing'
  BY <1>1, <1>2 DEF Installing
<1> QED
  BY <1>5, <1>6, <1>7, <1>8, <1>9, <1>10, <1>11, <1>12, <1>13, Zenon DEF DInv

\* Recovery reads the header.
LEMMA ReadHeadKeeps ==
  ASSUME CInv, DInv, ReadHead
  PROVE  DInv'
<1>1. /\ pc[Boot] = "read_head" /\ lh' = head
      /\ replayed' = replayed \cup Logged(head)
      /\ \A q \in Actor : pc'[q] = IF q = Boot THEN "install" ELSE pc[q]
      /\ home' = home /\ head' = head /\ resident' = resident /\ cache' = cache
      /\ refcnt' = refcnt /\ held' = held /\ logblk' = logblk /\ tail' = tail
  BY Zenon DEF ReadHead, Goto, disk, bcache, CInv, TypeOK, TypeDisk, TypeLog,
     TypeCache, TypeProc
<1>2. /\ Boot \in Actor /\ \A q \in Proc : q \in Actor /\ q # Boot
      /\ \A q \in Proc : pc[q] = "idle" /\ pc'[q] = "idle"
      /\ tail[Boot] = 0 /\ lh = <<>> /\ resident = {}
  BY <1>1, LogAssumption, Zenon DEF Actor, CInv, Control, Tails, DInv, BootSound
<1>3. \A i \in 1..Len(head) : ~(i <= 0)
  BY DEF CInv, TypeOK, TypeDisk, TypeLog, TypeCache, TypeProc
<1>4. \A a \in Block \ replayed' : /\ HeldBy(a)' <=> HeldBy(a)
                                   /\ ~Pinned(a)
                                   /\ ~Pinned(a)' 
  BY <1>1, <1>2 DEF HeldBy, Pinned, Logged
<1>5. Distinct'
  BY <1>1 DEF DInv, Distinct
<1>6. HeldSound'
  BY <1>1, <1>2, Zenon DEF DInv, HeldSound
<1>7. Exact'
  BY <1>1, <1>4, Zenon DEF DInv, Exact
<1>8. PinnedUntilInstalled'
  BY <1>1, <1>2, Zenon DEF PinnedUntilInstalled
<1>9. Clean'
  BY <1>1, <1>2, Zenon DEF Clean
<1>10. HeadSound'
  BY <1>1, <1>2, Zenon DEF HeadSound
<1>11. BootSound'
  BY <1>1, <1>2, Zenon DEF BootSound
<1>12. Written'
  BY <1>2, Zenon DEF Written
<1>13. Installing'
  BY <1>1, <1>2, <1>3, Zenon DEF Installing, Actor
<1> QED
  BY <1>5, <1>6, <1>7, <1>8, <1>9, <1>10, <1>11, <1>12, <1>13, Zenon DEF DInv

\* A block is read outside of any transaction.
LEMMA ReadOnlyKeeps ==
  ASSUME CInv, DInv, NEW b \in Block, ReadOnly(b)
  PROVE  DInv'
<1>1. /\ pc[Boot] = "up" /\ b \notin resident /\ resident' = resident \cup {b}
      /\ \A a \in Block : cache'[a] = IF a = b THEN home[b] ELSE cache[a]
      /\ home' = home /\ logblk' = logblk /\ head' = head /\ lh' = lh /\ pc' = pc
      /\ held' = held /\ refcnt' = refcnt /\ tail' = tail /\ replayed' = replayed
  BY Zenon DEF ReadOnly, Fill, Contents, disk, bounds, CInv, TypeOK, TypeDisk,
     TypeLog, TypeCache, TypeProc
<1>2. \A a \in Block : /\ Installed(a)' <=> Installed(a)
                       /\ Dirty(a)' <=> Dirty(a)
                       /\ HeldBy(a)' <=> HeldBy(a)
                       /\ Pinned(a)' <=> Pinned(a)
  BY <1>1, Zenon DEF Installed, Dirty, HeldBy, Pinned
<1>3. \A a \in Block : PinsKept => Contents(a)' = Contents(a)
  BY <1>1, Zenon DEF Contents
<1>4. \A i \in 1..Len(lh) : lh[i] \in Block
  BY DEF CInv, TypeOK, TypeDisk, TypeLog, TypeCache, TypeProc
<1>5. Distinct'
  BY <1>1, Zenon DEF DInv, Distinct
<1>6. HeldSound'
  BY <1>1, Zenon DEF DInv, HeldSound
<1>7. Exact'
  BY <1>1, <1>2, Zenon DEF DInv, Exact
<1>8. PinnedUntilInstalled'
  <2>1. resident \subseteq resident' /\ lh' = lh /\ replayed' = replayed
    BY <1>1, Zenon
  <2>2. Logged(lh) \subseteq Block
    BY <1>4, Zenon DEF Logged
  <2>3. \A a \in Logged(lh) \ (Recyclable \cap replayed) : a \in resident \/ Installed(a)
    BY <1>1, Zenon DEF DInv, PinnedUntilInstalled
  <2> QED
    BY <1>2, <2>1, <2>2, <2>3, Zenon DEF PinnedUntilInstalled
<1>9. Clean'
  BY <1>1, <1>2, Zenon DEF DInv, Clean, CInv, TypeOK, TypeDisk, TypeLog,
     TypeCache, TypeProc
<1>10. HeadSound'
  BY <1>1, Zenon DEF DInv, HeadSound
<1>11. BootSound'
  BY <1>1, Zenon DEF DInv, BootSound
<1>12. Written'
  BY <1>1, <1>3, <1>4, Zenon DEF DInv, Written, PinsKept
<1>13. Installing'
  BY <1>1, <1>3, <1>4, Zenon DEF DInv, Installing, PinsKept
<1> QED
  BY <1>5, <1>6, <1>7, <1>8, <1>9, <1>10, <1>11, <1>12, <1>13 DEF DInv

\* bget recycles a buffer.
LEMMA RecycleKeeps ==
  ASSUME CInv, DInv, NEW b \in Block, Recycle(b)
  PROVE  DInv'
<1>1. /\ b \in resident \cap Recyclable /\ refcnt[b] = 0
      /\ \A q \in Proc : b \notin held[q]
      /\ resident' = resident \ {b} /\ cache' = cache
      /\ home' = home /\ logblk' = logblk /\ head' = head /\ lh' = lh /\ pc' = pc
      /\ held' = held /\ refcnt' = refcnt /\ tail' = tail /\ replayed' = replayed
  BY Zenon DEF Recycle, disk, bounds, CInv, TypeOK, TypeDisk, TypeLog,
     TypeCache, TypeProc
<1>2. \A a \in Block : /\ Installed(a)' <=> Installed(a)
                       /\ Dirty(a)' <=> Dirty(a)
                       /\ HeldBy(a)' <=> HeldBy(a)
                       /\ Pinned(a)' <=> Pinned(a)
  BY <1>1, Zenon DEF Installed, Dirty, HeldBy, Pinned
<1>3. \A a \in Block : PinsKept => Contents(a)' = Contents(a)
  BY <1>1, RecycledClean, Zenon DEF Contents, PinsKept
<1>4. \A i \in 1..Len(lh) : lh[i] \in Block
  BY DEF CInv, TypeOK, TypeDisk, TypeLog, TypeCache, TypeProc
<1>5. Distinct'
  <2>1. lh' = lh /\ head' = head
    BY <1>1, Zenon
  <2> QED
    BY <2>1, Zenon DEF DInv, Distinct
<1>6. HeldSound'
  <2>1. held' = held /\ pc' = pc /\ lh' = lh
    BY <1>1, Zenon
  <2>2. resident' = resident \ {b} /\ \A q \in Proc : b \notin held[q]
    BY <1>1, Zenon
  <2>3. \A q \in Proc : held[q] \subseteq resident
    BY Zenon DEF DInv, HeldSound
  <2>4. \A q \in Proc : held[q] \subseteq resident'
    BY <2>2, <2>3, Zenon
  <2> QED
    BY <2>1, <2>4, Zenon DEF DInv, HeldSound
<1>7. Exact'
  BY <1>1, <1>2, Zenon DEF DInv, Exact
<1>8. PinnedUntilInstalled'
  <2>1. resident' = resident \ {b} /\ lh' = lh /\ replayed' = replayed /\ pc' = pc
        /\ b \in Recyclable
    BY <1>1, Zenon
  <2>2. Logged(lh) \subseteq Block
    BY <1>4, Zenon DEF Logged
  <2>3. b \notin replayed /\ b \in Logged(lh) => Installed(b)
    BY RecycledClean, Zenon
  <2> QED
    BY <1>2, <2>1, <2>2, <2>3, Zenon DEF DInv, PinnedUntilInstalled
<1>9. Clean'
  BY <1>1, <1>2, Zenon DEF DInv, Clean, CInv, TypeOK, TypeDisk, TypeLog,
     TypeCache, TypeProc
<1>10. HeadSound'
  BY <1>1, Zenon DEF DInv, HeadSound
<1>11. BootSound'
  BY <1>1, Zenon DEF DInv, BootSound
<1>12. Written'
  BY <1>1, <1>3, <1>4, Zenon DEF DInv, Written, PinsKept
<1>13. Installing'
  BY <1>1, <1>3, <1>4 DEF DInv, Installing, PinsKept
<1> QED
  BY <1>5, <1>6, <1>7, <1>8, <1>9, <1>10, <1>11, <1>12, <1>13 DEF DInv

\* A crash leaves the disk alone.
LEMMA CrashKeeps ==
  ASSUME CInv, DInv, Crash
  PROVE  DInv'
<1>1. /\ lh' = <<>> /\ resident' = {} /\ refcnt' = [b \in Block |-> 0]
      /\ held' = [p \in Proc |-> {}] /\ replayed' = {} /\ head' = head
      /\ pc' = [p \in Actor |-> IF p = Boot THEN "read_head" ELSE "idle"]
  BY Zenon DEF Crash, disk
<1>2. /\ pc'[Boot] = "read_head" /\ \A q \in Proc : q \in Actor /\ pc'[q] = "idle"
      /\ \A q \in Actor : pc'[q] # "install" 
  BY <1>1, LogAssumption, Zenon DEF Actor
<1>3. \A a \in Block : ~HeldBy(a)' /\ ~Pinned(a)'
  BY <1>1 DEF HeldBy, Pinned, Logged
<1>4. Distinct'
  BY <1>1 DEF DInv, Distinct
<1>5. HeldSound'
  BY <1>1, <1>2, Zenon DEF HeldSound
<1>6. Exact'
  BY <1>1, <1>3 DEF Exact
<1>7. PinnedUntilInstalled'
  BY <1>2, Zenon DEF PinnedUntilInstalled
<1>8. Clean'
  BY <1>1, Zenon DEF Clean
<1>9. HeadSound'
  BY <1>2, Zenon DEF HeadSound
<1>10. BootSound'
  BY <1>1, <1>2, Zenon DEF BootSound
<1>11. Written'
  BY <1>2, Zenon DEF Written
<1>12. Installing'
  BY <1>2, Zenon DEF Installing
<1> QED
  BY <1>4, <1>5, <1>6, <1>7, <1>8, <1>9, <1>10, <1>11, <1>12 DEF DInv

\* The invariant holds at the first boot.
LEMMA InitDInv == Init => DInv
<1> SUFFICES ASSUME Init PROVE DInv
  BY Zenon
<1>1. /\ lh = <<>> /\ resident = {} /\ refcnt = [b \in Block |-> 0]
      /\ held = [p \in Proc |-> {}] /\ head = <<>>
      /\ pc = [p \in Actor |-> IF p = Boot THEN "read_head" ELSE "idle"]
  BY Zenon DEF Init, PowerOn
<1>2. /\ pc[Boot] = "read_head" /\ \A q \in Proc : q \in Actor /\ pc[q] = "idle"
      /\ \A q \in Actor : pc[q] # "install"
  BY <1>1, LogAssumption, Zenon DEF Actor
<1>3. \A a \in Block : ~HeldBy(a) /\ ~Pinned(a)
  BY <1>1 DEF HeldBy, Pinned, Logged
<1>4. Distinct /\ HeldSound /\ Exact
  BY <1>1, <1>2, <1>3 DEF Distinct, HeldSound, Exact
<1>5. PinnedUntilInstalled /\ Clean /\ HeadSound /\ BootSound
  BY <1>1, <1>2, Zenon DEF PinnedUntilInstalled, Clean, HeadSound, BootSound
<1>6. Written /\ Installing
  BY <1>1, <1>2, Zenon DEF Written, Installing
<1> QED
  BY <1>4, <1>5, <1>6, Zenon DEF DInv

\* begin_op and end_op are such steps, up to the commit.
LEMMA QuietSteps ==
  ASSUME CInv, DInv, NEW p \in Proc, StartOp(p) \/ BeginOp(p) \/ EndOp(p) \/ Finish(p)
  PROVE  DInv'
<1>1. \A q \in Actor : pc[q] \in {"idle", "begin", "asleep", "panic", "read_head", "up"}
                                  \cup InOp \cup InCommit
  BY Zenon DEF CInv, TypeOK, TypeProc
<1>2. CASE StartOp(p)
  BY <1>2, QuietKeeps, Zenon DEF StartOp, Goto, bounds, CInv, TypeOK, TypeProc
<1>3. CASE BeginOp(p)
  BY <1>3, QuietKeeps, Zenon DEF BeginOp, Goto, bounds, CInv, TypeOK, TypeProc
<1>4. CASE EndOp(p)
  <2>1. committing = 0 /\ pc[p] = "inop"
    BY <1>4, CallCounted, Zenon DEF EndOp, InOp
  <2>2. UNCHANGED <<disk, lh, bcache, replayed>>
    BY <1>4, Zenon DEF EndOp, bounds
  <2>3. \A q \in Actor : tail'[q] = IF q = p THEN 0 ELSE tail[q]
    BY <1>4, Zenon DEF EndOp, CInv, TypeOK, TypeProc
  <2>4. pc'[p] \in {"finish", "write_log", "idle"}
    BY <1>4, <2>1 DEF EndOp, Goto, Return, GotoAndWake, CInv, TypeOK, TypeProc, Actor
  <2>5. \A q \in Actor \ {p} : \/ pc'[q] = pc[q]
                               \/ pc[q] = "asleep" /\ pc'[q] = "begin"
    BY <1>4, <2>1, Zenon DEF EndOp, Goto, Return, GotoAndWake, CInv, TypeOK,
       TypeProc
  <2> QED
    BY <2>1, <2>2, <2>3, <2>4, <2>5, QuietKeeps, Zenon
<1>5. CASE Finish(p)
  BY <1>5, QuietKeeps, Zenon DEF Finish, Return, GotoAndWake, bounds, CInv,
     TypeOK, TypeProc
<1> QED
  BY <1>2, <1>3, <1>4, <1>5, Zenon

\* Every step preserves the invariant.
LEMMA StepDInv == CInv /\ DInv /\ [Next]_vars => DInv'
<1> SUFFICES ASSUME CInv, DInv, [Next]_vars PROVE DInv'
  BY Zenon
<1>1. CASE UNCHANGED vars
  BY <1>1, QuietKeeps, Zenon DEF vars, bounds
<1>2. ASSUME NEW p \in Proc, NEW b \in Block, LogWrite(p, b) PROVE DInv'
  BY <1>2, AbsorbKeeps, AppendKeeps, Zenon
<1> QED
  BY <1>1, <1>2, NextCases, QuietSteps, BreadKeeps, CheckKeeps, BrelseKeeps,
     WriteLogKeeps, WriteHeadKeeps, InstallKeeps, ClearKeeps, ReadHeadKeeps,
     ReadOnlyKeeps, RecycleKeeps, CrashKeeps

\* So it holds in every reachable state.
LEMMA InvariantDInv == Spec => []DInv
BY InitDInv, StepDInv, ControlInvariant, PTL DEF Spec

\* It implies BuffersPinned.
LEMMA DInvPinned == CInv /\ DInv => BuffersPinned
<1> SUFFICES ASSUME CInv, DInv PROVE BuffersPinned
  BY Zenon
<1>1. ASSUME NEW b \in Block PROVE Cardinality(Users(b)) = IF HeldBy(b) THEN 1 ELSE 0
  <2>1. CASE HeldBy(b)
    <3>1. PICK p \in Proc : b \in held[p]
      BY <2>1, Zenon DEF HeldBy
    <3>2. Users(b) = {p}
      BY <3>1 DEF Users, DInv, HeldSound
    <3> QED
      BY <2>1, <3>2, FS_Singleton, Zenon
  <2>2. CASE ~HeldBy(b)
    BY <2>2, FS_EmptySet, Zenon DEF Users, HeldBy
  <2> QED
    BY <2>1, <2>2, Zenon
<1>2. RefcntExact
  BY <1>1, Zenon DEF RefcntExact, DInv, Exact, Pinned
<1> QED
  BY <1>2, Zenon DEF BuffersPinned, DInv

\* Theorem: a block of the log stays in the cache until install_trans has copied
\* it home, and its reference count is exact, outside of the blocks recovery
\* unpins without having pinned them (log_write, install_trans, bpin, bunpin).
THEOREM BuffersStayPinned == Spec => []BuffersPinned
BY InvariantDInv, ControlInvariant, DInvPinned, PTL

-----------------------------------------------------------------------------
(* Crash safety: the log implements the transactional disk. *)

\* What a restart would find, block by block.
RecoveredFacts ==
  /\ Recovered = [b \in Block |-> Recovered[b]]
  /\ \A i \in 1..Len(head) : Recovered[head[i]] = logblk[i]
  /\ \A b \in Block \ Logged(head) : Recovered[b] = home[b]

\* They follow from the invariant.
LEMMA RecoveredBlocks == CInv /\ DInv => RecoveredFacts
<1> SUFFICES ASSUME CInv, DInv PROVE RecoveredFacts
  BY Zenon
<1>1. \A i \in 1..Len(head) : head[i] \in Block
  BY DEF CInv, TypeOK, TypeDisk
<1>2. ASSUME NEW i \in 1..Len(head)
      PROVE  Recovered[head[i]] = logblk[i]
  <2>1. \A j \in 1..Len(head) : head[j] = head[i] => j = i
    BY Zenon DEF DInv, Distinct
  <2>2. (CHOOSE j \in 1..Len(head) : head[j] = head[i]) = i
    BY <2>1, Zenon
  <2>3. head[i] \in Logged(head)
    BY Zenon DEF Logged
  <2> QED
    BY <1>1, <2>2, <2>3, Zenon DEF Recovered
<1>3. \A b \in Block \ Logged(head) : Recovered[b] = home[b]
  BY Zenon DEF Recovered
<1>4. Recovered = [b \in Block |-> Recovered[b]]
  BY DEF Recovered
<1> QED
  BY <1>2, <1>3, <1>4, Zenon DEF RecoveredFacts

\* The same after a step.
LEMMA RecoveredBlocksNext == CInv' /\ DInv' => RecoveredFacts'
BY RecoveredBlocks, PTL

\* What a restart would find is given by its blocks.
LEMMA SameRecovered ==
  ASSUME RecoveredFacts, RecoveredFacts',
         \A b \in Block : Recovered'[b] = Recovered[b]
  PROVE  Recovered' = Recovered
BY Zenon DEF RecoveredFacts

\* A step that leaves the disk and the buffers as they are.
LEMMA SameView ==
  ASSUME home' = home, logblk' = logblk, head' = head,
         resident' = resident, cache' = cache,
         pc'[Boot] = "up" <=> pc[Boot] = "up"
  PROVE  Recovered' = Recovered /\ View' = View
<1>1. Recovered' = Recovered
  BY DEF Recovered, Logged
<1>2. \A b \in Block : Contents(b)' = Contents(b)
  BY Zenon DEF Contents
<1> QED
  BY <1>1, <1>2, Zenon DEF View

\* A step that changes no contents after recovery.
LEMMA SameContents ==
  ASSUME pc[Boot] = "up", pc'[Boot] = "up",
         \A b \in Block : Contents(b)' = Contents(b)
  PROVE  View' = View
BY Zenon DEF View

\* A step that takes no call in or out of an operation.
LEMMA SameActive ==
  ASSUME \A q \in Proc : pc'[q] \in InOp <=> pc[q] \in InOp
  PROVE  Active' = Active
BY Zenon DEF Active

\* Reading a block into the cache changes no contents.
LEMMA FillSame ==
  ASSUME NEW b \in Block, Fill(b), home' = home, CInv
  PROVE  \A a \in Block : Contents(a)' = Contents(a)
BY Zenon DEF Fill, Contents, CInv, TypeOK, TypeCache

\* The steps of a call.
LEMMA CallMaps ==
  ASSUME CInv, DInv, NEW p \in Proc,
         StartOp(p) \/ BeginOp(p) \/ EndOp(p) \/ Finish(p)
  PROVE  Tx!TxNext \/ UNCHANGED <<Recovered, View, Active>>
<1>1. p # Boot /\ Boot \in Actor /\ \A q \in Proc : q \in Actor
  BY LogAssumption, Zenon DEF Actor
<1>2. pc[Boot] \in {"read_head", "install", "up"}
  BY Zenon DEF CInv, Control
<1>3. Recovered' = Recovered /\ View' = View
  <2>1. pc'[Boot] = pc[Boot]
    BY <1>1, <1>2, Zenon DEF StartOp, BeginOp, EndOp, Finish, Goto, Return,
       GotoAndWake, CInv, TypeOK, TypeProc
  <2> QED
    BY <2>1, SameView, Zenon DEF StartOp, BeginOp, EndOp, Finish, disk, bcache
<1>4. CASE StartOp(p)
  <2>1. \A q \in Proc : pc'[q] \in InOp <=> pc[q] \in InOp
    BY <1>1, <1>4, Zenon DEF StartOp, Goto, InOp, CInv, TypeOK, TypeProc
  <2> QED
    BY <1>3, <2>1, SameActive, Zenon
<1>5. CASE BeginOp(p)
  <2>1. CASE MustWait
    <3>1. \A q \in Proc : pc'[q] \in InOp <=> pc[q] \in InOp
      BY <1>1, <1>5, <2>1, Zenon DEF BeginOp, Goto, InOp, CInv, TypeOK, TypeProc
    <3> QED
      BY <1>3, <3>1, SameActive
  <2>2. CASE ~MustWait
    <3>1. p \notin Active /\ \A q \in Proc : pc'[q] \in InOp <=> pc[q] \in InOp \/ q = p
      BY <1>1, <1>5, <2>2, Zenon DEF BeginOp, Goto, InOp, Active, CInv, TypeOK,
         TypeProc
    <3>2. Active' = Active \cup {p}
      BY <3>1, Zenon DEF Active
    <3>3. Tx!Begin(p)
      BY <1>3, <3>1, <3>2, Zenon DEF Tx!Begin
    <3> QED
      BY <3>3, Zenon DEF Tx!TxNext
  <2> QED
    BY <2>1, <2>2, Zenon
<1>6. CASE EndOp(p)
  <2>0. committing = 0 /\ pc[p] = "inop"
    BY <1>6, CallCounted DEF EndOp, InOp
  <2>1. p \in Active /\ \A q \in Proc : pc'[q] \in InOp <=> pc[q] \in InOp /\ q # p
    BY <1>1, <1>6, <2>0, Zenon DEF EndOp, Goto, Return, GotoAndWake, InOp,
       Active, CInv, TypeOK, TypeProc
  <2>2. Active' = Active \ {p}
    BY <2>1, Zenon DEF Active
  <2>3. Tx!End(p)
    BY <1>3, <2>1, <2>2 DEF Tx!End
  <2> QED
    BY <2>3, Zenon DEF Tx!TxNext
<1>7. CASE Finish(p)
  <2>1. \A q \in Proc : pc'[q] \in InOp <=> pc[q] \in InOp
    BY <1>1, <1>7, Zenon DEF Finish, Return, GotoAndWake, InOp, CInv, TypeOK,
       TypeProc
  <2> QED
    BY <1>3, <2>1, SameActive
<1> QED
  BY <1>4, <1>5, <1>6, <1>7, Zenon

\* Reading, logging and releasing a buffer is invisible.
LEMMA BufferMaps ==
  ASSUME CInv, DInv, NEW p \in Proc, NEW b \in Block,
         OpBread(p, b) \/ LogWrite(p, b) \/ OpBrelse(p, b)
  PROVE  UNCHANGED <<Recovered, View, Active>>
<1>1. p # Boot /\ Boot \in Actor /\ \A q \in Proc : q \in Actor
  BY LogAssumption, Zenon DEF Actor
<1>2. pc[Boot] = "up" /\ pc[p] \in InOp
  BY CallFacts, Zenon DEF OpBread, LogWrite, OpBrelse, InOp
<1>3. pc'[Boot] = "up" /\ \A q \in Proc : pc'[q] \in InOp <=> pc[q] \in InOp
  BY <1>1, <1>2, Zenon DEF OpBread, LogWrite, OpBrelse, Goto, InOp, CInv,
     TypeOK, TypeProc
<1>4. home' = home /\ logblk' = logblk /\ head' = head
  BY Zenon DEF OpBread, LogWrite, OpBrelse, disk
<1>5. \A a \in Block : Contents(a)' = Contents(a)
  <2>1. CASE OpBread(p, b)
    BY <1>4, <2>1, FillSame, Zenon DEF OpBread
  <2>2. CASE LogWrite(p, b) \/ OpBrelse(p, b)
    BY <1>4, <2>2, Zenon DEF LogWrite, OpBrelse, Contents
  <2> QED
    BY <2>1, <2>2, Zenon
<1>6. Recovered' = Recovered
  BY <1>4 DEF Recovered, Logged
<1> QED
  BY <1>2, <1>3, <1>5, <1>6, SameContents, SameActive, Zenon

\* Changing a buffer is a write of the abstract transaction.
LEMMA ChangeMaps ==
  ASSUME CInv, DInv, NoPanic', NEW p \in Proc, NEW b \in Block, NEW d \in Data,
         LogWriteCheck(p, b, d)
  PROVE  Tx!TxNext
<1>1. p # Boot /\ Boot \in Actor /\ \A q \in Proc : q \in Actor
  BY LogAssumption, Zenon DEF Actor
<1>2. pc[Boot] = "up" /\ pc[p] = "modify"
  BY CallFacts, Zenon DEF LogWriteCheck, InOp
<1>3. pc' = [pc EXCEPT ![p] = "log_write"]
  BY <1>1, <1>2, Zenon DEF LogWriteCheck, Goto, NoPanic, CInv, TypeOK, TypeProc
<1>4. pc'[Boot] = "up" /\ \A q \in Proc : pc'[q] \in InOp <=> pc[q] \in InOp
  BY <1>1, <1>2, <1>3, Zenon DEF InOp, CInv, TypeOK, TypeProc
<1>5. b \in resident /\ p \in Active
  BY <1>2, Zenon DEF LogWriteCheck, Active, InOp, DInv, HeldSound
<1>6. Recovered' = Recovered
  BY DEF LogWriteCheck, disk, Recovered, Logged
<1>7. \A a \in Block : Contents(a)' = IF a = b THEN d ELSE Contents(a)
  BY <1>5, Zenon DEF LogWriteCheck, disk, Contents, CInv, TypeOK, TypeCache
<1>8. View' = [View EXCEPT ![b] = d]
  BY <1>2, <1>4, <1>7, Zenon DEF View
<1>9. Active' = Active
  BY <1>4, SameActive, Zenon
<1>10. Tx!Write(p, b, d)
  BY <1>5, <1>6, <1>8, <1>9, Zenon DEF Tx!Write
<1> QED
  BY <1>10, Zenon DEF Tx!TxNext

\* Copying into the log is invisible: the header does not name it yet.
LEMMA WriteLogMaps ==
  ASSUME CInv, DInv, CInv', DInv', NEW p \in Proc, WriteLog(p)
  PROVE  UNCHANGED <<Recovered, View, Active>>
<1>0. pc[p] = "write_log" /\ p \in Actor
  BY Zenon DEF WriteLog, Actor
<1>1. /\ pc[Boot] = "up" /\ Boot \in Actor /\ p # Boot
      /\ \A q \in Actor \ {p} : pc[q] \notin InOp \cup InCommit \cup {"panic", "read_head"}
  BY <1>0, CommitFacts, Zenon DEF InCommit
<1>2. head = <<>> /\ head' = <<>> /\ home' = home
  BY <1>0, <1>1, Zenon DEF WriteLog, DInv, HeadSound, InCommit, Actor
<1>3. Recovered' = Recovered
  BY <1>2 DEF Recovered, Logged
<1>4. lh[tail[p] + 1] \in Block
  BY <1>0 DEF CInv, Tails, TypeOK, TypeLog, TypeProc
<1>5. \A a \in Block : Contents(a)' = Contents(a)
  BY <1>2, <1>4, FillSame, Zenon DEF WriteLog
<1>6. pc'[Boot] = "up" /\ \A q \in Proc : pc'[q] \in InOp <=> pc[q] \in InOp
  BY <1>0, <1>1, Zenon DEF WriteLog, Goto, InOp, Actor, CInv, TypeOK, TypeProc
<1> QED
  BY <1>1, <1>3, <1>5, <1>6, SameContents, SameActive, Zenon

\* write_head is the commit point (log.c:103).
LEMMA WriteHeadMaps ==
  ASSUME CInv, DInv, CInv', DInv', PinsReliable, NEW p \in Proc, WriteHead(p)
  PROVE  Tx!TxNext
<1>0. pc[p] = "write_head" /\ p \in Actor
  BY Zenon DEF WriteHead, Actor
<1>1. /\ pc[Boot] = "up" /\ Boot \in Actor /\ p # Boot
      /\ \A q \in Actor \ {p} : pc[q] \notin InOp \cup InCommit \cup {"panic", "read_head"}
  BY <1>0, CommitFacts, Zenon DEF InCommit
<1>2. /\ head' = lh /\ home' = home /\ logblk' = logblk /\ resident' = resident
      /\ cache' = cache /\ pc' = [pc EXCEPT ![p] = "install"]
  BY Zenon DEF WriteHead, Goto, bcache
<1>3. pc'[Boot] = "up" /\ \A q \in Proc : pc'[q] \in InOp <=> pc[q] \in InOp
  BY <1>0, <1>1, <1>2, Zenon DEF InOp, Actor, CInv, TypeOK, TypeProc
<1>4. Active = {} /\ Active' = {}
  BY <1>0, <1>1, <1>3, Zenon DEF Active, InOp, Actor
<1>5. \A b \in Block : Contents(b)' = Contents(b)
  BY <1>2, Zenon DEF Contents
<1>6. View' = View
  BY <1>1, <1>3, <1>5, SameContents, Zenon
<1>7. RecoveredFacts'
  BY RecoveredBlocksNext, Zenon
<1>8. ASSUME NEW b \in Block PROVE Recovered'[b] = Contents(b)
  <2>1. CASE b \in Logged(lh)
    <3>1. PICK i \in 1..Len(lh) : lh[i] = b
      BY <2>1, Zenon DEF Logged
    <3>2. Recovered'[b] = logblk[i]
      BY <1>2, <1>7, <3>1, Zenon DEF RecoveredFacts
    <3>3. PinsKept
      BY <1>1, Zenon DEF PinsReliable
    <3>4. logblk[i] = Contents(lh[i])
      BY <1>0, <3>1, <3>3, Zenon DEF DInv, Written
    <3> QED
      BY <3>1, <3>2, <3>4, Zenon
  <2>2. CASE b \notin Logged(lh)
    <3>1. Recovered'[b] = home[b]
      BY <1>2, <1>7, <2>2, Zenon DEF RecoveredFacts
    <3>2. ~Dirty(b)
      BY <1>0, <1>1, Zenon DEF Dirty, Actor, InOp
    <3> QED
      BY <2>2, <3>1, <3>2, Zenon DEF DInv, Clean, Contents
  <2> QED
    BY <2>1, <2>2, Zenon
<1>9. Recovered' = View
  BY <1>1, <1>7, <1>8, Zenon DEF RecoveredFacts, View
<1>10. Tx!Commit
  BY <1>4, <1>6, <1>9, Zenon DEF Tx!Commit
<1> QED
  BY <1>10, Zenon DEF Tx!TxNext

\* install_trans is invisible: a restart would install the same.
LEMMA InstallMaps ==
  ASSUME CInv, DInv, CInv', DInv', PinsReliable, NEW p \in Actor, InstallTrans(p)
  PROVE  UNCHANGED <<Recovered, View, Active>>
<1>0. pc[p] = "install" /\ pc' = pc /\ head = lh /\ head' = head /\ logblk' = logblk
  BY Zenon DEF InstallTrans, DInv, HeadSound
<1>1. p = Boot \/ (p \in Proc /\ pc[Boot] = "up")
  BY <1>0, InstallFacts, Zenon
<1>2. tail[p] + 1 \in 1..Len(lh)
  BY DEF InstallTrans, CInv, TypeOK, TypeLog, TypeProc
<1>3. PICK b \in Block : b = lh[tail[p] + 1]
  BY <1>2 DEF CInv, TypeOK, TypeLog
<1>4. /\ resident' = resident \cup {b}
      /\ \A a \in Block : home'[a] = IF a = b THEN logblk[tail[p] + 1] ELSE home[a]
      /\ \A a \in Block : cache'[a] = IF a = b THEN logblk[tail[p] + 1] ELSE cache[a]
  BY <1>3, Zenon DEF InstallTrans, CInv, TypeOK, TypeDisk, TypeCache
<1>5. RecoveredFacts /\ RecoveredFacts' /\ b \in Logged(head)
  BY <1>0, <1>2, <1>3, RecoveredBlocks, RecoveredBlocksNext, Zenon DEF Logged
<1>6. ASSUME NEW a \in Block PROVE Recovered'[a] = Recovered[a]
  <2>1. CASE a \in Logged(head)
    <3>1. PICK i \in 1..Len(head) : head[i] = a
      BY <2>1, Zenon DEF Logged
    <3> QED
      BY <1>0, <1>5, <3>1 DEF RecoveredFacts
  <2>2. CASE a \notin Logged(head)
    BY <1>0, <1>4, <1>5, <2>2, Zenon DEF RecoveredFacts
  <2> QED
    BY <2>1, <2>2, Zenon
<1>7. Recovered' = Recovered
  BY <1>5, <1>6, SameRecovered, Zenon
<1>8. View' = View
  <2>1. CASE p = Boot
    BY <1>0, <1>7, <2>1, Zenon DEF View
  <2>2. CASE p \in Proc /\ pc[Boot] = "up"
    <3>1. PinsKept
      BY <2>2, Zenon DEF PinsReliable
    <3>2. Contents(b) = logblk[tail[p] + 1]
      BY <1>0, <1>2, <1>3, <2>2, <3>1, Zenon DEF DInv, Installing
    <3>3. \A a \in Block : Contents(a)' = Contents(a)
      BY <1>4, <3>2, Zenon DEF Contents
    <3> QED
      BY <1>0, <2>2, <3>3, SameContents, Zenon
  <2> QED
    BY <1>1, <2>1, <2>2, Zenon
<1>9. Active' = Active
  BY <1>0, Zenon DEF Active
<1> QED
  BY <1>7, <1>8, <1>9, Zenon

\* Clearing the header is invisible: all of the log is installed.
LEMMA ClearMaps ==
  ASSUME CInv, DInv, CInv', DInv', NEW p \in Actor, ClearHead(p)
  PROVE  UNCHANGED <<Recovered, View, Active>>
<1>0. /\ pc[p] = "install" /\ head = lh /\ head' = <<>> /\ lh' = <<>>
      /\ tail[p] >= Len(lh) /\ home' = home /\ resident' = resident /\ cache' = cache
      /\ held' = held
      /\ \A q \in Actor :
           pc'[q] = IF q = p THEN IF p = Boot THEN "up" ELSE "finish" ELSE pc[q]
  BY Zenon DEF ClearHead, InstallDone, Goto, bcache, DInv, HeadSound, CInv,
     TypeOK, TypeProc
<1>1. /\ p = Boot \/ (p \in Proc /\ pc[Boot] = "up")
      /\ Boot \in Actor /\ \A q \in Proc : q \in Actor
      /\ \A q \in Actor \ {p} : pc[q] \notin InOp \cup InCommit \cup {"panic", "read_head"}
  BY <1>0, InstallFacts, Zenon
<1>2. RecoveredFacts /\ RecoveredFacts'
  BY RecoveredBlocks, RecoveredBlocksNext, Zenon
<1>3. \A i \in 1..Len(lh) : i <= tail[p]
  <2>1. tail[p] \in Nat /\ Len(lh) \in Nat
    BY DEF CInv, TypeOK, TypeProc, TypeLog
  <2> QED
    BY <1>0, <2>1
<1>4. ASSUME NEW b \in Block PROVE Recovered'[b] = Recovered[b] /\ Recovered[b] = home[b]
  <2>1. Recovered'[b] = home[b]
    BY <1>0, <1>2 DEF RecoveredFacts, Logged
  <2>2. CASE b \in Logged(head)
    <3>1. PICK i \in 1..Len(head) : head[i] = b
      BY <2>2, Zenon DEF Logged
    <3>2. Recovered[b] = logblk[i]
      BY <1>2, <3>1, Zenon DEF RecoveredFacts
    <3>3. home[b] = logblk[i]
      BY <1>0, <1>3, <3>1, Zenon DEF DInv, Installing
    <3> QED
      BY <2>1, <3>2, <3>3, Zenon
  <2>3. CASE b \notin Logged(head)
    BY <1>2, <2>1, <2>3, Zenon DEF RecoveredFacts
  <2> QED
    BY <2>2, <2>3, Zenon
<1>5. Recovered' = Recovered
  BY <1>2, <1>4, SameRecovered, Zenon
<1>6. View' = View
  <2>1. CASE p = Boot
    <3>1. \A b \in Block : Contents(b)' = home[b]
      <4>1. \A b \in Block : b \notin Logged(lh') /\ ~Dirty(b)'
        BY <1>0, <1>1, <2>1, LogAssumption DEF Logged, Dirty, CInv, Control
      <4> QED
        BY <1>0, <4>1, Zenon DEF DInv, Clean, Contents
    <3>2. View = Recovered /\ View' = [b \in Block |-> home[b]]
      BY <1>0, <1>1, <2>1, <3>1, Zenon DEF View
    <3> QED
      BY <1>2, <1>4, <3>2, Zenon DEF RecoveredFacts
  <2>2. CASE p \in Proc /\ pc[Boot] = "up"
    <3>1. pc'[Boot] = "up"
      BY <1>0, <1>1, <2>2, LogAssumption, Zenon
    <3> QED
      BY <1>0, <2>2, <3>1, SameContents, Zenon DEF Contents
  <2> QED
    BY <1>1, <2>1, <2>2, Zenon
<1>7. Active' = Active
  BY <1>0, <1>1, SameActive, Zenon DEF InOp
<1> QED
  BY <1>5, <1>6, <1>7, Zenon

\* So are reads and recycled buffers.
LEMMA CacheMaps ==
  ASSUME CInv, DInv, PinsReliable, NEW b \in Block, ReadOnly(b) \/ Recycle(b)
  PROVE  UNCHANGED <<Recovered, View, Active>>
<1>1. home' = home /\ logblk' = logblk /\ head' = head /\ pc' = pc
  BY Zenon DEF ReadOnly, Recycle, disk
<1>2. Recovered' = Recovered /\ Active' = Active
  BY <1>1 DEF Recovered, Active, Logged
<1>3. CASE pc[Boot] = "up"
  <2>1. \A a \in Block : Contents(a)' = Contents(a)
    <3>1. CASE ReadOnly(b)
      BY <1>1, <3>1, FillSame, Zenon DEF ReadOnly
    <3>2. CASE Recycle(b)
      <4>1. b \notin replayed
        BY <1>3, <3>2, Zenon DEF PinsReliable, PinsKept, Recycle
      <4>2. cache[b] = home[b]
        BY <3>2, <4>1, RecycledClean, Zenon
      <4> QED
        BY <1>1, <3>2, <4>2, Zenon DEF Recycle, Contents
    <3> QED
      BY <3>1, <3>2, Zenon
  <2> QED
    BY <1>1, <1>2, <2>1, Zenon DEF View
<1>4. CASE pc[Boot] # "up"
  BY <1>1, <1>2, <1>4, Zenon DEF View
<1> QED
  BY <1>3, <1>4, Zenon

\* A crash is a crash of the abstract disk; reading the header is invisible.
LEMMA BootMaps ==
  ASSUME CInv, DInv, ReadHead \/ Crash
  PROVE  Tx!TxNext \/ UNCHANGED <<Recovered, View, Active>>
<1>1. home' = home /\ logblk' = logblk /\ head' = head
  BY Zenon DEF ReadHead, Crash, disk
<1>2. Recovered' = Recovered
  BY <1>1 DEF Recovered, Logged
<1>3. Boot \in Actor /\ \A q \in Proc : q \in Actor /\ q # Boot
  BY LogAssumption, Zenon DEF Actor
<1>4. CASE ReadHead
  <2>1. pc[Boot] = "read_head" /\ pc' = [pc EXCEPT ![Boot] = "install"]
    BY <1>4, Zenon DEF ReadHead, Goto
  <2>2. pc'[Boot] = "install" /\ \A q \in Proc : pc'[q] = pc[q]
    BY <1>3, <2>1, Zenon DEF CInv, TypeOK, TypeProc
  <2> QED
    BY <1>2, <2>1, <2>2, Zenon DEF View, Active
<1>5. CASE Crash
  <2>1. pc' = [p \in Actor |-> IF p = Boot THEN "read_head" ELSE "idle"]
    BY <1>5, Zenon DEF Crash
  <2>2. View' = Recovered /\ Active' = {}
    BY <1>2, <1>3, <2>1, Zenon DEF View, Active, InOp
  <2>3. Tx!Restart
    BY <1>2, <2>2, Zenon DEF Tx!Restart
  <2> QED
    BY <2>3, Zenon DEF Tx!TxNext
<1> QED
  BY <1>4, <1>5, Zenon

\* Every step maps to a step of the transactional disk or to none.
LEMMA StepMaps ==
  CInv /\ DInv /\ CInv' /\ DInv' /\ NoPanic' /\ [Next]_vars
    => [PinsReliable => Tx!TxNext]_<<Recovered, View, Active>>
<1> SUFFICES ASSUME CInv, DInv, CInv', DInv', NoPanic', [Next]_vars, PinsReliable
             PROVE  Tx!TxNext \/ UNCHANGED <<Recovered, View, Active>>
  BY Zenon
<1>1. CASE UNCHANGED vars
  BY <1>1, SameView, Zenon DEF vars, disk, bcache, Active
<1> QED
  BY <1>1, NextCases, CallMaps, BufferMaps, ChangeMaps, WriteLogMaps, WriteHeadMaps,
     InstallMaps, ClearMaps, CacheMaps, BootMaps

\* The first boot maps to its initial state.
LEMMA InitMaps == Init => Tx!TxInit
<1> SUFFICES ASSUME Init PROVE Tx!TxInit
  OBVIOUS
<1>1. /\ home = [b \in Block |-> Empty] /\ head = <<>>
      /\ pc = [p \in Actor |-> IF p = Boot THEN "read_head" ELSE "idle"]
  BY Zenon DEF Init, PowerOn
<1>2. pc[Boot] = "read_head" /\ \A q \in Proc : pc[q] = "idle"
  BY <1>1, LogAssumption, Zenon DEF Actor
<1>3. Recovered = [b \in Block |-> Empty]
  BY <1>1 DEF Recovered, Logged
<1>4. View = Recovered /\ Active = {}
  BY <1>2, Zenon DEF View, Active, InOp
<1> QED
  BY <1>3, <1>4, Zenon DEF Tx!TxInit

\* The log implements the transactional disk whatever the crash points, as long
\* as nobody panics, which would halt the machine (log.c:10-16).
THEOREM CrashSafe == Spec /\ []NoPanic => ImplementsTxDisk
BY InitMaps, StepMaps, InvariantDInv, ControlInvariant, PTL DEF Spec, ImplementsTxDisk

\* With room to spare in the log there is no panic to exclude.
THEOREM CrashSafeWithSlack ==
  ASSUME Slack
  PROVE  Spec => ImplementsTxDisk
<1>1. Spec => []NoPanic
  BY CallsNeverPanic, Zenon
<1> QED
  BY <1>1, CrashSafe, PTL
=============================================================================
