----------------------------- MODULE LogProofs ------------------------------
(***************************************************************************)
(* Proofs about Log, for every number of processes, blocks and log slots.  *)
(***************************************************************************)
EXTENDS Log, FiniteSetTheorems, TLAPS

\* The calls log.outstanding counts; one that panicked in log_write never
\* reaches end_op.
OpSet == {p \in Proc : pc[p] \in InOp \cup {"panic"}}

\* Recovery runs alone: no call has started before initlog is done.
Control ==
  /\ pc[Boot] \in {"read_head", "install", "up"}
  /\ \A p \in Proc : pc[p] \notin {"read_head", "up"}
  /\ pc[Boot] # "up" => \A p \in Proc : pc[p] = "idle"

\* log.outstanding counts the running calls, and a commit has none beside it.
Counting ==
  /\ outstanding = Cardinality(OpSet)
  /\ committing = 1 => OpSet = {}

\* At most one process commits, and log.committing says so.
Committing ==
  /\ \A p \in Proc : pc[p] \in InCommit => committing = 1
  /\ \A p, q \in Proc : pc[p] \in InCommit /\ pc[q] \in InCommit => p = q

\* How far the loops over the log have come (tail in write_log and
\* install_trans).
Tails ==
  \A p \in Actor :
    /\ pc[p] = "write_log" => tail[p] < Len(lh)
    /\ pc[p] \in {"write_head", "read_head"} => tail[p] = 0
    /\ pc[p] = "install" => tail[p] <= Len(lh)

\* What each call has logged so far, against what it may log.
Budget ==
  \A p \in Proc :
    /\ IsFiniteSet(wrote[p]) /\ Cardinality(wrote[p]) <= OpBlocks
    /\ pc[p] \in InOp \cup {"panic"} => wrote[p] \subseteq Logged(lh)
    /\ pc[p] \notin InOp \cup {"panic"} => wrote[p] = {}
    /\ pc[p] \in {"modify", "log_write"} =>
         \A b \in held[p] : b \in wrote[p] \/ Cardinality(wrote[p]) < OpBlocks

\* The log slots reserved by running calls and not yet used by them.
TokensOf(S, w) ==
  {t \in Proc \X (1..MAXOPBLOCKS) :
     t[1] \in S /\ t[2] > Cardinality(w[t[1]])}

\* The reserved and unused slots at this moment.
Tokens == TokensOf(OpSet, wrote)

\* What is in the log and what running calls may still add fits in it.
Reserve ==
  /\ Len(lh) + Cardinality(Tokens) <= LOGSIZE
  /\ Len(head) <= LOGSIZE

\* The inductive invariant of the control.
CInv ==
  TypeOK /\ Control /\ Counting /\ Committing /\ Tails /\ Budget /\ Reserve

-----------------------------------------------------------------------------
\* Appending to the header adds one block to the logged ones (log_write).
LEMMA LoggedAppend ==
  ASSUME NEW s \in Seq(Block), NEW b \in Block
  PROVE  Logged(Append(s, b)) = Logged(s) \cup {b}
<1>1. Len(Append(s, b)) = Len(s) + 1 /\ Len(s) \in Nat
  OBVIOUS
<1>2. \A i \in 1..Len(s) : Append(s, b)[i] = s[i]
  OBVIOUS
<1>3. Append(s, b)[Len(s) + 1] = b
  OBVIOUS
<1>4. 1..(Len(s) + 1) = (1..Len(s)) \cup {Len(s) + 1}
  BY <1>1
<1> QED
  BY <1>1, <1>2, <1>3, <1>4 DEF Logged

\* There are finitely many running calls.
LEMMA OpSetFinite == IsFiniteSet(OpSet)
BY LogAssumption, FS_Subset, Zenon DEF OpSet

\* At most MAXOPBLOCKS tokens per running call.
LEMMA TokensFinite ==
  ASSUME NEW S \in SUBSET Proc, NEW w
  PROVE  /\ IsFiniteSet(TokensOf(S, w)) /\ Cardinality(TokensOf(S, w)) \in Nat
         /\ Cardinality(TokensOf(S, w)) <= Cardinality(S) * MAXOPBLOCKS
<1> DEFINE N == 1..MAXOPBLOCKS
<1>0. IsFiniteSet(S)
  BY LogAssumption, FS_Subset, Zenon
<1>1. IsFiniteSet(N) /\ Cardinality(N) = MAXOPBLOCKS
  BY LogAssumption, FS_Interval
<1>2. TokensOf(S, w) \subseteq S \X N
  BY Zenon DEF TokensOf
<1> HIDE DEF N
<1>3. /\ IsFiniteSet(S \X N)
      /\ Cardinality(S \X N) = Cardinality(S) * Cardinality(N)
  BY <1>0, <1>1, FS_Product, Zenon
<1>4. /\ IsFiniteSet(TokensOf(S, w))
      /\ Cardinality(TokensOf(S, w)) <= Cardinality(S \X N)
  BY <1>2, <1>3, FS_Subset, Zenon
<1> QED
  BY <1>1, <1>3, <1>4, FS_CardinalityType, Zenon

\* A call that logs one more block spends exactly one of its tokens.
LEMMA TokenSpent ==
  ASSUME NEW S \in SUBSET Proc, NEW p \in S, NEW w, NEW v,
         \A q \in Proc \ {p} : v[q] = w[q],
         Cardinality(w[p]) \in Nat, Cardinality(w[p]) < MAXOPBLOCKS,
         Cardinality(v[p]) = Cardinality(w[p]) + 1
  PROVE  Cardinality(TokensOf(S, v)) = Cardinality(TokensOf(S, w)) - 1
<1> DEFINE t == <<p, Cardinality(w[p]) + 1>>
<1>1. Cardinality(w[p]) + 1 \in 1..MAXOPBLOCKS
  BY LogAssumption
<1>2. t \in TokensOf(S, w)
  BY <1>1 DEF TokensOf
<1>3. TokensOf(S, v) = TokensOf(S, w) \ {t}
  <2>1. ASSUME NEW u \in Proc \X (1..MAXOPBLOCKS)
        PROVE  u \in TokensOf(S, v) <=> u \in TokensOf(S, w) /\ u # t
    <3>1. CASE u[1] = p
      <4>1. u = <<p, u[2]>> /\ u[2] \in 1..MAXOPBLOCKS
        BY <3>1
      <4>2. u # t <=> u[2] # Cardinality(w[p]) + 1
        BY <4>1
      <4> QED
        BY <3>1, <4>1, <4>2 DEF TokensOf
    <3>2. CASE u[1] # p
      BY <3>2 DEF TokensOf
    <3> QED
      BY <3>1, <3>2, Zenon
  <2>2. /\ TokensOf(S, v) \subseteq Proc \X (1..MAXOPBLOCKS)
        /\ TokensOf(S, w) \subseteq Proc \X (1..MAXOPBLOCKS)
    BY Zenon DEF TokensOf
  <2> QED
    BY <2>1, <2>2, Zenon
<1>4. IsFiniteSet(TokensOf(S, w))
  BY TokensFinite, Zenon
<1> HIDE DEF t
<1>5. Cardinality(TokensOf(S, w) \ {t}) = Cardinality(TokensOf(S, w)) - 1
  BY <1>2, <1>4, FS_RemoveElement, Zenon
<1> QED
  BY <1>3, <1>5, Zenon

\* The log in memory never exceeds LOGSIZE.
LEMMA LogBounded ==
  ASSUME CInv
  PROVE  Len(lh) <= LOGSIZE
<1>1. OpSet \in SUBSET Proc
  BY Zenon DEF OpSet
<1>2. Cardinality(Tokens) \in Nat
  BY <1>1, TokensFinite, Zenon DEF Tokens
<1> QED
  BY <1>2, LogAssumption DEF CInv, Reserve, TypeOK, TypeLog

\* The invariant holds when the machine is switched on.
LEMMA InitCInv == Init => CInv
<1> SUFFICES ASSUME Init PROVE CInv
  BY Zenon
<1> USE LogAssumption DEF Init, PowerOn
<1>1. TypeOK
  <2>1. TypeDisk
    BY DEF TypeDisk
  <2>2. TypeLog
    BY DEF TypeLog
  <2>3. TypeCache
    BY DEF TypeCache
  <2>4. TypeProc
    BY Zenon DEF TypeProc
  <2> QED
    BY <2>1, <2>2, <2>3, <2>4, Zenon DEF TypeOK
<1>2. Control
  BY Zenon DEF Control, Actor
<1>3. Counting
  <2>1. OpSet = {}
    BY Zenon DEF OpSet, InOp, Actor
  <2> QED
    BY <2>1, FS_EmptySet, Zenon DEF Counting
<1>4. Committing
  BY Zenon DEF Committing, InCommit, Actor
<1>5. Tails
  BY Zenon DEF Tails, Actor
<1>6. Budget
  BY FS_EmptySet DEF Budget, Actor, InOp
<1>7. Reserve
  <2>1. Tokens = {}
    BY Zenon DEF Tokens, TokensOf, OpSet, InOp, Actor
  <2> QED
    BY <2>1, FS_EmptySet DEF Reserve
<1> QED
  BY <1>1, <1>2, <1>3, <1>4, <1>5, <1>6, <1>7, Zenon DEF CInv

\* The steps of Next, one per handler.
LEMMA NextCases ==
  ASSUME [Next]_vars
  PROVE  \/ UNCHANGED vars
         \/ \E p \in Proc : StartOp(p)
         \/ \E p \in Proc : BeginOp(p)
         \/ \E p \in Proc : EndOp(p)
         \/ \E p \in Proc, b \in Block : OpBread(p, b)
         \/ \E p \in Proc, b \in Block, d \in Data : LogWriteCheck(p, b, d)
         \/ \E p \in Proc, b \in Block : LogWrite(p, b)
         \/ \E p \in Proc, b \in Block : OpBrelse(p, b)
         \/ \E p \in Proc : WriteLog(p)
         \/ \E p \in Proc : WriteHead(p)
         \/ \E p \in Actor : InstallTrans(p)
         \/ \E p \in Actor : ClearHead(p)
         \/ \E p \in Proc : Finish(p)
         \/ ReadHead
         \/ \E b \in Block : ReadOnly(b)
         \/ \E b \in Block : Recycle(b)
         \/ Crash
BY Zenon DEF Next, Step, CommitStep

\* A call between begin_op and end_op is counted, and keeps commits away.
LEMMA CallCounted ==
  ASSUME CInv, NEW p \in Proc, pc[p] \in InOp
  PROVE  outstanding >= 1 /\ committing = 0
<1>1. p \in OpSet
  BY Zenon DEF OpSet
<1>2. Cardinality(OpSet) \in Nat /\ Cardinality(OpSet) # 0
  BY <1>1, OpSetFinite, FS_CardinalityType, FS_EmptySet, Zenon
<1> QED
  BY <1>1, <1>2 DEF CInv, Counting, TypeOK, TypeLog

\* Every step keeps the types of the log header in memory.
LEMMA TypeLogStep == CInv /\ [Next]_vars => TypeLog'
<1> SUFFICES ASSUME CInv, [Next]_vars PROVE TypeLog'
  BY Zenon
<1> USE DEF CInv, TypeOK, TypeLog
<1>1. CASE UNCHANGED vars
  BY <1>1, Zenon DEF vars
<1>2. CASE \E p \in Proc : BeginOp(p)
  BY <1>2 DEF BeginOp
<1>3. CASE \E p \in Proc : EndOp(p)
  BY <1>3, CallCounted DEF EndOp, LastOut, InOp
<1>4. CASE \E p \in Proc, b \in Block : LogWrite(p, b)
  BY <1>4 DEF LogWrite, Record
<1>5. CASE \E p \in Actor : ClearHead(p)
  BY <1>5 DEF ClearHead
<1>6. CASE \E p \in Proc : Finish(p)
  BY <1>6 DEF Finish
<1>7. CASE ReadHead
  BY <1>7, Zenon DEF ReadHead, TypeDisk
<1>8. CASE Crash
  BY <1>8 DEF Crash
<1>9. CASE \/ \E p \in Proc : StartOp(p) \/ WriteLog(p) \/ WriteHead(p)
           \/ \E p \in Actor : InstallTrans(p)
           \/ \E b \in Block : ReadOnly(b) \/ Recycle(b)
           \/ \E p \in Proc, b \in Block : OpBread(p, b) \/ OpBrelse(p, b)
           \/ \E p \in Proc, b \in Block, d \in Data : LogWriteCheck(p, b, d)
  BY <1>9, Zenon DEF StartOp, WriteLog, WriteHead, InstallTrans, ReadOnly,
     Recycle, OpBread, OpBrelse, LogWriteCheck
<1> QED
  BY <1>1, <1>2, <1>3, <1>4, <1>5, <1>6, <1>7, <1>8, <1>9, NextCases, Zenon

\* A uint stays a uint (bpin, bunpin, bget, brelse).
LEMMA RefRange ==
  ASSUME refcnt \in [Block -> 0..(RefMod - 1)], NEW b \in Block
  PROVE  /\ RefUp(b) \in [Block -> 0..(RefMod - 1)]
         /\ RefDown(b) \in [Block -> 0..(RefMod - 1)]
<1>1. refcnt[b] \in 0..(RefMod - 1) /\ RefMod \in Nat \ {0}
  BY LogAssumption
<1>2. /\ (refcnt[b] + 1) % RefMod \in 0..(RefMod - 1)
      /\ (refcnt[b] + RefMod - 1) % RefMod \in 0..(RefMod - 1)
  BY <1>1
<1> QED
  BY <1>2, Zenon DEF RefUp, RefDown

\* Every step keeps the types of the buffer cache.
LEMMA TypeCacheStep == CInv /\ [Next]_vars => TypeCache'
<1> SUFFICES ASSUME CInv, [Next]_vars PROVE TypeCache'
  OBVIOUS
<1> USE LogAssumption DEF CInv, TypeOK, TypeCache, TypeDisk, TypeLog, bcache
<1>1. CASE UNCHANGED vars
  BY <1>1, Zenon DEF vars
<1>2. ASSUME NEW p \in Proc, NEW b \in Block, OpBread(p, b)
      PROVE  TypeCache'
  BY <1>2, RefRange, Zenon DEF OpBread, Fill, Contents
<1>3. ASSUME NEW p \in Proc, NEW b \in Block, NEW d \in Data,
             LogWriteCheck(p, b, d)
      PROVE  TypeCache'
  BY <1>3, Zenon DEF LogWriteCheck
<1>4. ASSUME NEW p \in Proc, NEW b \in Block, LogWrite(p, b)
      PROVE  TypeCache'
  BY <1>4, RefRange DEF LogWrite, Record
<1>5. ASSUME NEW p \in Proc, NEW b \in Block, OpBrelse(p, b)
      PROVE  TypeCache'
  BY <1>5, RefRange, Zenon DEF OpBrelse
<1>6. ASSUME NEW p \in Proc, WriteLog(p)
      PROVE  TypeCache'
  <2>1. lh[tail[p] + 1] \in Block
    BY <1>6 DEF WriteLog, Tails, TypeProc, Actor
  <2> QED
    BY <1>6, <2>1, Zenon DEF WriteLog, Fill, Contents
<1>7. ASSUME NEW p \in Actor, InstallTrans(p)
      PROVE  TypeCache'
  <2>1. lh[tail[p] + 1] \in Block
    BY <1>7 DEF InstallTrans, TypeProc
  <2>2. logblk[tail[p] + 1] \in Data
    <3>1. tail[p] \in Nat /\ tail[p] < Len(lh) /\ Len(lh) \in Nat
      BY <1>7 DEF InstallTrans, TypeProc
    <3>2. tail[p] + 1 \in 1..LOGSIZE
      <4>1. Len(lh) <= LOGSIZE
        BY LogBounded, Zenon
      <4> HIDE DEF CInv, TypeOK, TypeLog, TypeDisk, TypeCache
      <4> QED
        BY <3>1, <4>1, LogAssumption
    <3> QED
      BY <3>2, Zenon
  <2>3. refcnt' \in [Block -> 0..(RefMod - 1)]
    <3>1. refcnt' = RefDown(lh[tail[p] + 1])
      BY <1>7, Zenon DEF InstallTrans
    <3> QED
      BY <3>1, <2>1, RefRange, Zenon
  <2> QED
    BY <1>7, <2>1, <2>2, <2>3, Zenon DEF InstallTrans
<1>8. ASSUME NEW b \in Block, ReadOnly(b) \/ Recycle(b)
      PROVE  TypeCache'
  BY <1>8, Zenon DEF ReadOnly, Recycle, Fill, Contents
<1>9. CASE Crash
  BY <1>9 DEF Crash
<1>10. CASE \/ \E p \in Proc : \/ StartOp(p) \/ BeginOp(p) \/ EndOp(p)
                              \/ WriteHead(p) \/ Finish(p)
            \/ \E p \in Actor : ClearHead(p)
            \/ ReadHead
  BY <1>10, Zenon DEF StartOp, BeginOp, EndOp, WriteHead, Finish, ClearHead,
     ReadHead
<1> QED
  BY <1>1, <1>2, <1>3, <1>4, <1>5, <1>6, <1>7, <1>8, <1>9, <1>10, NextCases,
     Zenon

\* Every step keeps the types of the disk.
LEMMA TypeDiskStep == CInv /\ [Next]_vars => TypeDisk'
<1> SUFFICES ASSUME CInv, [Next]_vars PROVE TypeDisk'
  OBVIOUS
<1> USE DEF CInv, TypeOK, TypeDisk, disk
<1>1. CASE UNCHANGED vars
  BY <1>1, Zenon DEF vars
<1>2. ASSUME NEW p \in Proc, WriteLog(p)
      PROVE  TypeDisk'
  <2>1. lh[tail[p] + 1] \in Block
    BY <1>2 DEF WriteLog, Tails, TypeProc, TypeLog, Actor
  <2>2. Contents(lh[tail[p] + 1]) \in Data
    BY <2>1, Zenon DEF Contents, TypeCache
  <2> QED
    BY <1>2, <2>2, Zenon DEF WriteLog
<1>3. ASSUME NEW p \in Proc, WriteHead(p)
      PROVE  TypeDisk'
  BY <1>3, Zenon DEF WriteHead, TypeLog
<1>4. ASSUME NEW p \in Actor, InstallTrans(p)
      PROVE  TypeDisk'
  <2>1. tail[p] \in Nat /\ tail[p] < Len(lh) /\ Len(lh) \in Nat
    BY <1>4 DEF InstallTrans, TypeProc, TypeLog
  <2>2. tail[p] + 1 \in 1..LOGSIZE
    BY <2>1, LogBounded, LogAssumption
  <2>3. logblk[tail[p] + 1] \in Data
    BY <2>2, Zenon
  <2> QED
    BY <1>4, <2>3, Zenon DEF InstallTrans
<1>5. ASSUME NEW p \in Actor, ClearHead(p)
      PROVE  TypeDisk'
  BY <1>5 DEF ClearHead
<1>6. CASE \/ \E p \in Proc : StartOp(p) \/ BeginOp(p) \/ EndOp(p) \/ Finish(p)
           \/ \E p \in Proc, b \in Block :
                OpBread(p, b) \/ LogWrite(p, b) \/ OpBrelse(p, b)
           \/ \E p \in Proc, b \in Block, d \in Data : LogWriteCheck(p, b, d)
           \/ \E b \in Block : ReadOnly(b) \/ Recycle(b)
           \/ ReadHead \/ Crash
  BY <1>6, Zenon DEF StartOp, BeginOp, EndOp, Finish, OpBread, LogWrite,
     OpBrelse, LogWriteCheck, ReadOnly, Recycle, ReadHead, Crash
<1> QED
  BY <1>1, <1>2, <1>3, <1>4, <1>5, <1>6, NextCases, Zenon

\* Every step keeps the types of the local state of the processes.
LEMMA TypeProcStep == CInv /\ [Next]_vars => TypeProc'
<1> SUFFICES ASSUME CInv, [Next]_vars PROVE TypeProc'
  OBVIOUS
<1> USE LogAssumption DEF CInv, TypeOK, TypeProc, InOp, InCommit, Actor, Goto,
        GotoAndWake, Return, bounds
<1>1. CASE UNCHANGED vars
  BY <1>1, Zenon DEF vars
<1>2. ASSUME NEW p \in Proc,
             StartOp(p) \/ BeginOp(p) \/ WriteHead(p) \/ Finish(p)
      PROVE  TypeProc'
  BY <1>2 DEF StartOp, BeginOp, WriteHead, Finish
<1>3. ASSUME NEW p \in Proc, EndOp(p)
      PROVE  TypeProc'
  BY <1>3 DEF EndOp
<1>4. ASSUME NEW p \in Proc, NEW b \in Block,
             OpBread(p, b) \/ LogWrite(p, b) \/ OpBrelse(p, b)
      PROVE  TypeProc'
  BY <1>4 DEF OpBread, LogWrite, OpBrelse
<1>5. ASSUME NEW p \in Proc, NEW b \in Block, NEW d \in Data,
             LogWriteCheck(p, b, d)
      PROVE  TypeProc'
  BY <1>5, Zenon DEF LogWriteCheck
<1>6. ASSUME NEW p \in Proc, WriteLog(p)
      PROVE  TypeProc'
  BY <1>6 DEF WriteLog
<1>7. ASSUME NEW p \in Actor, InstallTrans(p) \/ ClearHead(p)
      PROVE  TypeProc'
  <2>1. CASE InstallTrans(p)
    BY <2>1 DEF InstallTrans
  <2>2. CASE ClearHead(p)
    BY <2>2, Zenon DEF ClearHead
  <2> QED
    BY <1>7, <2>1, <2>2, Zenon
<1>8. CASE ReadHead
  <2>1. Logged(head) \subseteq Block
    BY DEF Logged, TypeDisk
  <2> QED
    BY <1>8, <2>1, Zenon DEF ReadHead
<1>9. ASSUME NEW b \in Block, ReadOnly(b) \/ Recycle(b)
      PROVE  TypeProc'
  BY <1>9, Zenon DEF ReadOnly, Recycle
<1>10. CASE Crash
  BY <1>10 DEF Crash
<1> QED
  BY <1>1, <1>2, <1>3, <1>4, <1>5, <1>6, <1>7, <1>8, <1>9, <1>10, NextCases

\* Every step keeps recovery and calls apart.
LEMMA ControlStep == CInv /\ [Next]_vars => Control'
<1> SUFFICES ASSUME CInv, [Next]_vars PROVE Control'
  OBVIOUS
<1> USE LogAssumption DEF CInv, TypeOK, TypeProc, Control, InOp, InCommit,
        Actor, Goto, GotoAndWake, Return
<1>1. CASE UNCHANGED vars
  BY <1>1, Zenon DEF vars
<1>2. ASSUME NEW p \in Proc,
             StartOp(p) \/ BeginOp(p) \/ WriteHead(p) \/ Finish(p)
      PROVE  Control'
  BY <1>2, Zenon DEF StartOp, BeginOp, WriteHead, Finish
<1>3. ASSUME NEW p \in Proc, EndOp(p)
      PROVE  Control'
  BY <1>3 DEF EndOp
<1>4. ASSUME NEW p \in Proc, NEW b \in Block,
             OpBread(p, b) \/ LogWrite(p, b) \/ OpBrelse(p, b)
      PROVE  Control'
  BY <1>4, Zenon DEF OpBread, LogWrite, OpBrelse
<1>5. ASSUME NEW p \in Proc, NEW b \in Block, NEW d \in Data,
             LogWriteCheck(p, b, d)
      PROVE  Control'
  BY <1>5, Zenon DEF LogWriteCheck
<1>6. ASSUME NEW p \in Proc, WriteLog(p)
      PROVE  Control'
  BY <1>6, Zenon DEF WriteLog
<1>7. ASSUME NEW p \in Actor, InstallTrans(p) \/ ClearHead(p)
      PROVE  Control'
  BY <1>7, Zenon DEF InstallTrans, ClearHead, InstallDone
<1>8. CASE ReadHead
  BY <1>8, Zenon DEF ReadHead
<1>9. ASSUME NEW b \in Block, ReadOnly(b) \/ Recycle(b)
      PROVE  Control'
  BY <1>9, Zenon DEF ReadOnly, Recycle
<1>10. CASE Crash
  BY <1>10, Zenon DEF Crash
<1> QED
  BY <1>1, <1>2, <1>3, <1>4, <1>5, <1>6, <1>7, <1>8, <1>9, <1>10, NextCases,
     Zenon

\* Steps that neither start nor end a call, nor change log.committing.
LEMMA CountingStutter ==
  ASSUME CInv, outstanding' = outstanding, OpSet' = OpSet,
         committing' = committing \/ committing' = 0
  PROVE  Counting'
BY DEF CInv, Counting

\* begin_op, end_op and a crash keep log.outstanding exact.
LEMMA CountingStep == CInv /\ [Next]_vars => Counting'
<1> SUFFICES ASSUME CInv, [Next]_vars PROVE Counting'
  OBVIOUS
<1> USE LogAssumption DEF CInv, TypeOK, TypeProc, TypeLog, Control, InOp,
        InCommit, Actor, Goto, GotoAndWake, Return
<1>1. CASE UNCHANGED vars
  BY <1>1, CountingStutter, Zenon DEF vars, OpSet
<1>2. ASSUME NEW p \in Proc, BeginOp(p)
      PROVE  Counting'
  <2>1. CASE MustWait
    <3>1. OpSet' = OpSet /\ outstanding' = outstanding
      BY <1>2, <2>1, Zenon DEF BeginOp, OpSet
    <3> QED
      BY <1>2, <3>1, CountingStutter, Zenon DEF BeginOp
  <2>2. CASE ~MustWait
    <3>1. OpSet' = OpSet \cup {p} /\ p \notin OpSet
      BY <1>2, <2>2 DEF BeginOp, OpSet
    <3>2. outstanding' = outstanding + 1 /\ committing' = 0
      BY <1>2, <2>2 DEF BeginOp, MustWait
    <3>3. Cardinality(OpSet') = Cardinality(OpSet) + 1
      BY <3>1, OpSetFinite, FS_AddElement, Zenon
    <3> QED
      BY <3>2, <3>3 DEF Counting
  <2> QED
    BY <2>1, <2>2, Zenon
<1>3. ASSUME NEW p \in Proc, EndOp(p)
      PROVE  Counting'
  <2>1. outstanding >= 1 /\ committing = 0
    BY <1>3, CallCounted, Zenon DEF EndOp
  <2>2. OpSet' = OpSet \ {p} /\ p \in OpSet
    BY <1>3, <2>1 DEF EndOp, OpSet
  <2>3. outstanding' = Cardinality(OpSet')
    BY <1>3, <2>2, OpSetFinite, FS_RemoveElement, Zenon DEF EndOp, Counting
  <2>4. committing' = 1 => OpSet' = {}
    <3>1. committing' = 1 => outstanding' = 0
      BY <1>3, <2>1 DEF EndOp, LastOut
    <3>2. IsFiniteSet(OpSet')
      BY <2>2, OpSetFinite, FS_RemoveElement, Zenon
    <3> QED
      BY <3>1, <3>2, <2>3, FS_EmptySet, Zenon
  <2> QED
    BY <2>3, <2>4, Zenon DEF Counting
<1>4. ASSUME NEW p \in Proc,
             StartOp(p) \/ WriteLog(p) \/ WriteHead(p) \/ Finish(p)
      PROVE  Counting'
  <2>1. OpSet' = OpSet
    BY <1>4 DEF StartOp, WriteLog, WriteHead, Finish, OpSet
  <2> QED
    BY <1>4, <2>1, CountingStutter, Zenon DEF StartOp, WriteLog, WriteHead,
       Finish
<1>5. ASSUME NEW p \in Proc, NEW b \in Block,
             OpBread(p, b) \/ LogWrite(p, b) \/ OpBrelse(p, b)
      PROVE  Counting'
  <2>1. OpSet' = OpSet
    BY <1>5, Zenon DEF OpBread, LogWrite, OpBrelse, OpSet
  <2> QED
    BY <1>5, <2>1, CountingStutter, Zenon DEF OpBread, LogWrite, OpBrelse
<1>6. ASSUME NEW p \in Proc, NEW b \in Block, NEW d \in Data,
             LogWriteCheck(p, b, d)
      PROVE  Counting'
  <2>1. OpSet' = OpSet
    BY <1>6, Zenon DEF LogWriteCheck, OpSet
  <2> QED
    BY <1>6, <2>1, CountingStutter, Zenon DEF LogWriteCheck
<1>7. ASSUME NEW p \in Actor, InstallTrans(p) \/ ClearHead(p)
      PROVE  Counting'
  <2>1. OpSet' = OpSet
    BY <1>7, Zenon DEF InstallTrans, ClearHead, InstallDone, OpSet
  <2> QED
    BY <1>7, <2>1, CountingStutter, Zenon DEF InstallTrans, ClearHead
<1>8. CASE ReadHead \/ \E b \in Block : ReadOnly(b) \/ Recycle(b)
  <2>1. OpSet' = OpSet
    BY <1>8, Zenon DEF ReadHead, ReadOnly, Recycle, OpSet
  <2> QED
    BY <1>8, <2>1, CountingStutter, Zenon DEF ReadHead, ReadOnly, Recycle
<1>9. CASE Crash
  <2>1. OpSet' = {}
    BY <1>9, Zenon DEF Crash, OpSet
  <2> QED
    BY <1>9, <2>1, FS_EmptySet, Zenon DEF Crash, Counting
<1> QED
  BY <1>1, <1>2, <1>3, <1>4, <1>5, <1>6, <1>7, <1>8, <1>9, NextCases, Zenon

\* end_op starts a commit only when none is running.
LEMMA CommittingStep == CInv /\ [Next]_vars => Committing'
<1> SUFFICES ASSUME CInv, [Next]_vars PROVE Committing'
  OBVIOUS
<1> USE LogAssumption DEF CInv, TypeOK, TypeProc, TypeLog, Control, Committing,
        InOp, InCommit, Actor, Goto, GotoAndWake, Return
<1>1. CASE UNCHANGED vars
  BY <1>1, Zenon DEF vars
<1>2. ASSUME NEW p \in Proc, StartOp(p) \/ BeginOp(p)
      PROVE  Committing'
  <2>1. committing' = committing
    BY <1>2, Zenon DEF StartOp, BeginOp
  <2>2. \A q \in Proc : pc'[q] \in InCommit => pc[q] \in InCommit
    BY <1>2, Zenon DEF StartOp, BeginOp
  <2> QED
    BY <2>1, <2>2, Zenon
<1>3. ASSUME NEW p \in Proc, EndOp(p)
      PROVE  Committing'
  <2>1. committing = 0
    BY <1>3, CallCounted, Zenon DEF EndOp
  <2>2. \A q \in Proc : pc[q] \notin InCommit
    BY <2>1
  <2>a. \A q \in Proc \ {p} : pc'[q] = pc[q] \/ pc'[q] = "begin"
    <3>1. (\E l : pc' = [pc EXCEPT ![p] = l]) \/ Return(p)
      BY <1>3, Zenon DEF EndOp
    <3>2. pc \in [Actor -> {"idle", "begin", "asleep", "panic", "read_head", "up"}
                           \cup InOp \cup InCommit]
      BY Zenon
    <3>3. CASE \E l : pc' = [pc EXCEPT ![p] = l]
      BY <3>2, <3>3, Zenon
    <3>4. CASE Return(p)
      BY <3>4, Zenon
    <3> QED
      BY <3>1, <3>3, <3>4, Zenon
  <2>3. \A q \in Proc \ {p} : pc'[q] \notin InCommit
    BY <2>2, <2>a, Zenon
  <2>4. pc'[p] \in InCommit => committing' = 1
    BY <1>3, <2>1, Zenon DEF EndOp, Actor
  <2> QED
    BY <2>3, <2>4, Zenon
<1>4. ASSUME NEW p \in Proc, WriteLog(p) \/ WriteHead(p)
      PROVE  Committing'
  <2>1. committing' = committing
    BY <1>4, Zenon DEF WriteLog, WriteHead
  <2>2. \A q \in Proc : pc'[q] \in InCommit => pc[q] \in InCommit
    BY <1>4, Zenon DEF WriteLog, WriteHead
  <2> QED
    BY <2>1, <2>2
<1>5. ASSUME NEW p \in Proc, Finish(p)
      PROVE  Committing'
  BY <1>5, Zenon DEF Finish
<1>6. ASSUME NEW p \in Proc, NEW b \in Block,
             OpBread(p, b) \/ LogWrite(p, b) \/ OpBrelse(p, b)
      PROVE  Committing'
  <2>1. committing' = committing
    BY <1>6, Zenon DEF OpBread, LogWrite, OpBrelse
  <2>2. \A q \in Proc : pc'[q] \in InCommit => pc[q] \in InCommit
    BY <1>6 DEF OpBread, LogWrite, OpBrelse
  <2> QED
    BY <2>1, <2>2, Zenon
<1>7. ASSUME NEW p \in Proc, NEW b \in Block, NEW d \in Data,
             LogWriteCheck(p, b, d)
      PROVE  Committing'
  <2>1. committing' = committing
    BY <1>7, Zenon DEF LogWriteCheck
  <2>2. \A q \in Proc : pc'[q] \in InCommit => pc[q] \in InCommit
    BY <1>7, Zenon DEF LogWriteCheck
  <2> QED
    BY <2>1, <2>2, Zenon
<1>8. ASSUME NEW p \in Actor, InstallTrans(p) \/ ClearHead(p)
      PROVE  Committing'
  BY <1>8, Zenon DEF InstallTrans, ClearHead, InstallDone
<1>9. CASE ReadHead \/ \E b \in Block : ReadOnly(b) \/ Recycle(b)
  BY <1>9, Zenon DEF ReadHead, ReadOnly, Recycle
<1>10. CASE Crash
  BY <1>10, Zenon DEF Crash
<1> QED
  BY <1>1, <1>2, <1>3, <1>4, <1>5, <1>6, <1>7, <1>8, <1>9, <1>10, NextCases

\* While a process or the boot installs a transaction, no call changes lh.
LEMMA CommitExcludesCalls ==
  ASSUME CInv, NEW p \in Actor, pc[p] \in InCommit
  PROVE  \A q \in Proc : /\ pc[q] \notin InOp \cup {"panic"}
                         /\ pc[q] \in InCommit => q = p
<1>1. CASE p = Boot
  BY <1>1, LogAssumption, Zenon DEF CInv, Control, InOp, InCommit
<1>2. CASE p \in Proc
  <2>1. OpSet = {}
    BY <1>2, Zenon DEF CInv, Committing, Counting
  <2> QED
    BY <1>2, <2>1, Zenon DEF CInv, Committing, OpSet
<1> QED
  BY <1>1, <1>2, Zenon DEF Actor

\* Every step keeps the loop counters inside the log.
LEMMA TailsStep == CInv /\ [Next]_vars => Tails'
<1>0. SUFFICES ASSUME CInv, [Next]_vars PROVE Tails'
  OBVIOUS
<1>t. /\ tail \in [Actor -> Nat] /\ Len(lh) \in Nat
      /\ Tails
  BY <1>0 DEF CInv, TypeOK, TypeProc, TypeLog
<1>p. /\ pc \in [Actor -> {"idle", "begin", "asleep", "panic", "read_head", "up"}
                        \cup InOp \cup InCommit]
      /\ Control
  BY <1>0, Zenon DEF CInv, TypeOK, TypeProc
<1> USE DEF InOp, InCommit, Goto, GotoAndWake, Return
<1>1. CASE UNCHANGED vars
  BY <1>1, <1>t, Zenon DEF vars, Tails
<1>2. ASSUME NEW p \in Proc, StartOp(p) \/ BeginOp(p) \/ WriteHead(p) \/ Finish(p)
      PROVE  Tails'
  <2>1. lh' = lh /\ tail' = tail
    BY <1>2, Zenon DEF StartOp, BeginOp, WriteHead, Finish
  <2>2. \A q \in Actor : \/ pc'[q] = pc[q]
                         \/ pc'[q] \in {"begin", "asleep", "inop", "idle"}
                         \/ pc[q] = "write_head" /\ pc'[q] = "install"
    BY <1>2, <1>p, Zenon DEF StartOp, BeginOp, WriteHead, Finish, Actor
  <2> QED
    BY <2>1, <2>2, <1>t DEF Tails
<1>3. ASSUME NEW p \in Proc, EndOp(p)
      PROVE  Tails'
  <2>1. lh # <<>> => 0 < Len(lh)
    BY <1>0 DEF CInv, TypeOK, TypeLog
  <2>2. \A q \in Actor \ {p} : tail'[q] = tail[q]
    BY <1>3, <1>t, Zenon DEF EndOp
  <2>3. tail'[p] = 0 /\ lh' = lh
    BY <1>3, <1>t, Zenon DEF EndOp, Actor
  <2>4. \A q \in Actor \ {p} : pc'[q] = pc[q] \/ pc'[q] = "begin"
    BY <1>3, <1>p, Zenon DEF EndOp
  <2>5. pc'[p] = "write_log" => lh # <<>>
    BY <1>3, <1>p, Zenon DEF EndOp, Actor
  <2>6. pc'[p] \in {"panic", "finish", "write_log", "idle"}
    BY <1>3, <1>p, Zenon DEF EndOp, Actor
  <2> QED
    BY <2>1, <2>2, <2>3, <2>4, <2>5, <2>6, <1>t, Zenon DEF Tails
<1>4. ASSUME NEW p \in Proc, WriteLog(p)
      PROVE  Tails'
  <2>1. p \in Actor
    BY Zenon DEF Actor
  <2>2. \A q \in Actor \ {p} : tail'[q] = tail[q] /\ pc'[q] = pc[q]
    BY <1>4, <1>t, <1>p, Zenon DEF WriteLog
  <2>3. lh' = lh /\ tail[p] < Len(lh)
    BY <1>4, <1>t, <2>1, Zenon DEF WriteLog, Tails
  <2>4. \/ pc'[p] = "write_log" /\ tail'[p] = tail[p] + 1 /\ tail[p] + 1 # Len(lh)
        \/ pc'[p] = "write_head" /\ tail'[p] = 0
    BY <1>4, <1>t, <1>p, <2>1, Zenon DEF WriteLog
  <2> QED
    BY <2>2, <2>3, <2>4, <1>t DEF Tails
<1>5. ASSUME NEW p \in Proc, NEW b \in Block, LogWrite(p, b)
      PROVE  Tails'
  <2>1. \A q \in Actor : pc[q] \notin InCommit
    BY <1>0, <1>5, CommitExcludesCalls, Zenon DEF LogWrite
  <2>2. pc[Boot] = "up"
    BY <1>5, <1>p, Zenon DEF LogWrite, Control
  <2>3. \A q \in Actor : pc'[q] \notin InCommit /\ pc'[q] # "read_head"
    BY <1>5, <1>p, <2>1, <2>2, Zenon DEF LogWrite, Control, Actor
  <2> QED
    BY <2>3, Zenon DEF Tails
<1>6. ASSUME NEW p \in Proc, NEW b \in Block, OpBread(p, b) \/ OpBrelse(p, b)
      PROVE  Tails'
  BY <1>6, <1>t, <1>p, Zenon DEF OpBread, OpBrelse, Tails, Actor
<1>7. ASSUME NEW p \in Proc, NEW b \in Block, NEW d \in Data,
             LogWriteCheck(p, b, d)
      PROVE  Tails'
  BY <1>7, <1>t, <1>p, Zenon DEF LogWriteCheck, Tails, Actor
<1>8. ASSUME NEW p \in Actor, InstallTrans(p)
      PROVE  Tails'
  BY <1>8, <1>t, <1>p DEF InstallTrans, Tails
<1>9. ASSUME NEW p \in Actor, ClearHead(p)
      PROVE  Tails'
  <2>1. \A q \in Proc \ {p} : pc[q] \notin InCommit
    BY <1>0, <1>9, CommitExcludesCalls, Zenon DEF ClearHead, InstallDone
  <2>2. pc[Boot] \in {"up", "install"} /\ (p # Boot => pc[Boot] = "up")
    BY <1>9, <1>p, Zenon DEF ClearHead, InstallDone, Control, Actor
  <2>3. \A q \in Actor : pc'[q] \notin {"write_log", "write_head", "install", "read_head"}
    BY <1>9, <1>p, <2>1, <2>2, Zenon DEF ClearHead, Control, Actor
  <2> QED
    BY <2>3, Zenon DEF Tails
<1>10. CASE ReadHead
  <2>1. Len(lh') \in Nat
    BY <1>0, <1>10 DEF CInv, TypeOK, TypeDisk, ReadHead
  <2>2. tail' = tail /\ tail[Boot] = 0 /\ pc'[Boot] = "install"
    BY <1>10, <1>t, <1>p, Zenon DEF ReadHead, Tails, Actor
  <2>3. \A q \in Proc : pc'[q] = "idle"
    BY <1>10, <1>p, LogAssumption DEF ReadHead, Control
  <2> QED
    BY <2>1, <2>2, <2>3 DEF Tails, Actor
<1>11. ASSUME NEW b \in Block, ReadOnly(b) \/ Recycle(b)
      PROVE  Tails'
  BY <1>11, <1>t, Zenon DEF ReadOnly, Recycle, Tails
<1>12. CASE Crash
  BY <1>12, Zenon DEF Crash, Tails, Actor
<1> QED
  BY <1>0, <1>1, <1>2, <1>3, <1>4, <1>5, <1>6, <1>7, <1>8, <1>9, <1>10, <1>11,
     <1>12, NextCases, Zenon

\* A call logs at most OpBlocks blocks, each of them in the log.
LEMMA BudgetStep == CInv /\ [Next]_vars => Budget'
<1>0. SUFFICES ASSUME CInv, [Next]_vars PROVE Budget'
  OBVIOUS
<1>b. Budget
  BY <1>0, Zenon DEF CInv
<1>p. /\ pc \in [Actor -> {"idle", "begin", "asleep", "panic", "read_head", "up"}
                        \cup InOp \cup InCommit]
      /\ wrote \in [Proc -> SUBSET Block] /\ held \in [Proc -> SUBSET Block]
      /\ Control
  BY <1>0, Zenon DEF CInv, TypeOK, TypeProc, TypeCache
<1> USE DEF InOp, InCommit, Goto, GotoAndWake, Return
<1>1. CASE UNCHANGED vars
  BY <1>1, <1>b, Zenon DEF vars, bcache, Logged, Budget
<1>2. ASSUME NEW p \in Proc,
             StartOp(p) \/ WriteHead(p) \/ Finish(p) \/ WriteLog(p)
      PROVE  Budget'
  <2>1. lh' = lh /\ held' = held /\ wrote' = wrote
    BY <1>2, Zenon DEF StartOp, WriteHead, Finish, WriteLog, bcache
  <2>2. \A q \in Proc : \/ pc'[q] = pc[q]
                        \/ /\ pc[q] \notin InOp \cup {"panic"}
                           /\ pc'[q] \notin InOp \cup {"panic"}
    BY <1>2, <1>p, Zenon DEF StartOp, WriteHead, Finish, WriteLog, Actor
  <2> QED
    BY <2>1, <2>2, <1>b, Zenon DEF Budget
<1>3. ASSUME NEW p \in Proc, BeginOp(p)
      PROVE  Budget'
  <2>1. lh' = lh /\ held' = held
    BY <1>3, Zenon DEF BeginOp, bcache
  <2>2. \A q \in Proc \ {p} : pc'[q] = pc[q] /\ wrote'[q] = wrote[q]
    BY <1>3, <1>p, Zenon DEF BeginOp, Actor
  <2>3. pc'[p] \in {"asleep", "inop"} /\ wrote'[p] = wrote[p] /\ wrote[p] = {}
    BY <1>3, <1>p, <1>b, Zenon DEF BeginOp, Actor, Budget
  <2> QED
    BY <2>1, <2>2, <2>3, <1>b, Zenon DEF Budget
<1>4. ASSUME NEW p \in Proc, EndOp(p)
      PROVE  Budget'
  <2>1. lh' = lh /\ held' = held
    BY <1>4, Zenon DEF EndOp, bcache
  <2>w. wrote'[p] = {} /\ \A q \in Proc \ {p} : wrote'[q] = wrote[q]
    BY <1>4, <1>p, Zenon DEF EndOp
  <2>e. IsFiniteSet({}) /\ Cardinality({}) <= OpBlocks
    BY FS_EmptySet, LogAssumption
  <2>2. \A q \in Proc \ {p} : pc'[q] = pc[q] \/ (pc[q] = "asleep" /\ pc'[q] = "begin")
    BY <1>4, <1>p, Zenon DEF EndOp, Actor
  <2>3. pc'[p] \in {"finish", "write_log", "idle"}
    BY <1>0, <1>4, <1>p, CallCounted DEF EndOp, Actor
  <2> QED
    BY <2>1, <2>w, <2>e, <2>2, <2>3, <1>b, Zenon DEF Budget
<1>5. ASSUME NEW p \in Proc, NEW b \in Block, OpBread(p, b)
      PROVE  Budget'
  <2>1. lh' = lh /\ wrote' = wrote /\ (b \in wrote[p] \/ Cardinality(wrote[p]) < OpBlocks)
    BY <1>5, Zenon DEF OpBread
  <2>2. pc[p] = "inop" /\ pc'[p] = "modify" /\ held'[p] = {b}
    BY <1>5, <1>p, Zenon DEF OpBread, Actor
  <2>3. \A q \in Proc \ {p} : pc'[q] = pc[q] /\ held'[q] = held[q]
    BY <1>5, <1>p, Zenon DEF OpBread, Actor
  <2> QED
    BY <2>1, <2>2, <2>3, <1>b, Zenon DEF Budget
<1>6. ASSUME NEW p \in Proc, NEW b \in Block, NEW d \in Data,
             LogWriteCheck(p, b, d)
      PROVE  Budget'
  BY <1>6, <1>b, <1>p DEF LogWriteCheck, Logged, Budget, Actor
<1>7. ASSUME NEW p \in Proc, NEW b \in Block, LogWrite(p, b)
      PROVE  Budget'
  <2>1. Logged(lh') = Logged(lh) \cup {b}
    <3>1. lh \in Seq(Block)
      BY <1>0, Zenon DEF CInv, TypeOK, TypeLog
    <3> QED
      BY <1>7, <3>1, LoggedAppend, Zenon DEF LogWrite, Record
  <2>2. /\ IsFiniteSet(wrote[p] \cup {b})
        /\ Cardinality(wrote[p] \cup {b}) <= OpBlocks
    <3>1. b \in wrote[p] \/ Cardinality(wrote[p]) < OpBlocks
      BY <1>7, <1>b, Zenon DEF LogWrite, Budget
    <3>2. IsFiniteSet(wrote[p]) /\ Cardinality(wrote[p]) <= OpBlocks
      BY <1>b, Zenon DEF Budget
    <3>3. Cardinality(wrote[p]) \in Nat
      BY <3>2, FS_CardinalityType, Zenon
    <3>4. /\ IsFiniteSet(wrote[p] \cup {b})
          /\ Cardinality(wrote[p] \cup {b}) =
               IF b \in wrote[p] THEN Cardinality(wrote[p])
                               ELSE Cardinality(wrote[p]) + 1
      BY <3>2, FS_AddElement, Zenon
    <3>5. CASE b \in wrote[p]
      BY <3>2, <3>4, <3>5, Zenon
    <3>6. CASE b \notin wrote[p]
      <4>1. Cardinality(wrote[p]) + 1 <= OpBlocks
        BY <3>1, <3>3, <3>6, LogAssumption
      <4> QED
        BY <3>4, <3>6, <4>1, Zenon
    <3> QED
      BY <3>5, <3>6, Zenon
  <2>3. \A q \in Proc : wrote'[q] = IF q = p THEN wrote[p] \cup {b} ELSE wrote[q]
    BY <1>7, <1>p, Zenon DEF LogWrite
  <2>4. /\ held' = held /\ pc[p] = "log_write" /\ pc'[p] = "brelse"
        /\ \A q \in Proc \ {p} : pc'[q] = pc[q]
    BY <1>7, <1>p, Zenon DEF LogWrite, Actor
  <2>5. \A q \in Proc : wrote'[q] \subseteq Logged(lh') \/ pc'[q] \notin InOp \cup {"panic"}
    BY <2>1, <2>3, <2>4, <1>b, Zenon DEF Budget
  <2> QED
    BY <2>2, <2>3, <2>4, <2>5, <1>b, Zenon DEF Budget, Logged
<1>8. ASSUME NEW p \in Proc, NEW b \in Block, OpBrelse(p, b)
      PROVE  Budget'
  BY <1>8, <1>b, <1>p DEF OpBrelse, Logged, Budget, Actor
<1>9. ASSUME NEW p \in Actor, InstallTrans(p)
      PROVE  Budget'
  BY <1>9, <1>b, Zenon DEF InstallTrans, Budget
<1>10. ASSUME NEW p \in Actor, ClearHead(p)
      PROVE  Budget'
  <2>1. \A q \in Proc : pc[q] \notin InOp \cup {"panic"}
    BY <1>0, <1>10, CommitExcludesCalls, Zenon DEF ClearHead, InstallDone
  <2>2. \A q \in Proc : pc'[q] \notin InOp \cup {"panic"}
    BY <1>10, <1>p, <2>1, Zenon DEF ClearHead, Actor
  <2> QED
    BY <1>10, <2>1, <2>2, <1>b, Zenon DEF ClearHead, Budget
<1>11. CASE ReadHead
  <2>1. \A q \in Proc : pc[q] = "idle" /\ pc'[q] = "idle"
    BY <1>11, <1>p, LogAssumption DEF ReadHead, Control
  <2> QED
    BY <1>11, <2>1, <1>b, Zenon DEF ReadHead, Budget
<1>12. ASSUME NEW b \in Block, ReadOnly(b) \/ Recycle(b)
      PROVE  Budget'
  BY <1>12, <1>b, Zenon DEF ReadOnly, Recycle, Budget
<1>13. CASE Crash
  BY <1>13, FS_EmptySet, LogAssumption DEF Crash, Budget, Actor
<1> QED
  BY <1>0, <1>1, <1>2, <1>3, <1>4, <1>5, <1>6, <1>7, <1>8, <1>9, <1>10, <1>11,
     <1>12, <1>13, NextCases, Zenon

\* Steps that use no log slot and admit no call.
LEMMA ReserveShrink ==
  ASSUME CInv, OpSet' \subseteq OpSet, \A q \in OpSet' : wrote'[q] = wrote[q],
         Len(lh') \in Nat, Len(lh') <= Len(lh), Len(head') <= LOGSIZE
  PROVE  Reserve'
<1>1. Tokens' \subseteq Tokens
  BY Zenon DEF Tokens, TokensOf
<1>2. IsFiniteSet(Tokens) /\ Cardinality(Tokens) \in Nat
  <2>1. OpSet \in SUBSET Proc
    BY Zenon DEF OpSet
  <2> QED
    BY <2>1, TokensFinite, Zenon DEF Tokens
<1>3. IsFiniteSet(Tokens') /\ Cardinality(Tokens') <= Cardinality(Tokens)
  BY <1>1, <1>2, FS_Subset, Zenon
<1>4. Cardinality(Tokens') \in Nat
  BY <1>3, FS_CardinalityType, Zenon
<1>5. Len(lh) \in Nat /\ Len(lh) + Cardinality(Tokens) <= LOGSIZE
  BY DEF CInv, TypeOK, TypeLog, Reserve
<1>6. Len(lh') + Cardinality(Tokens') <= LOGSIZE
  BY <1>2, <1>3, <1>4, <1>5, LogAssumption
<1> QED
  BY <1>6, Zenon DEF Reserve

\* begin_op admits a call only if its reservation fits, and log_write spends it.
LEMMA ReserveStep == CInv /\ [Next]_vars => Reserve'
<1>0. SUFFICES ASSUME CInv, [Next]_vars PROVE Reserve'
  OBVIOUS
<1>l. Len(lh) \in Nat /\ Len(head) \in Nat /\ Len(head) <= LOGSIZE
  BY <1>0 DEF CInv, TypeOK, TypeLog, TypeDisk, Reserve
<1>p. /\ pc \in [Actor -> {"idle", "begin", "asleep", "panic", "read_head", "up"}
                        \cup InOp \cup InCommit]
      /\ wrote \in [Proc -> SUBSET Block] /\ held \in [Proc -> SUBSET Block]
      /\ Control
  BY <1>0 DEF CInv, TypeOK, TypeProc, TypeCache
<1> USE DEF InOp, InCommit, Goto, GotoAndWake, Return
<1>1. CASE UNCHANGED vars
  <2>1. OpSet' \subseteq OpSet /\ wrote' = wrote /\ lh' = lh /\ head' = head
    BY <1>1, Zenon DEF vars, disk, OpSet
  <2> QED
    BY <1>0, <2>1, <1>l, ReserveShrink
<1>2. ASSUME NEW p \in Proc,
             StartOp(p) \/ EndOp(p) \/ Finish(p) \/ WriteLog(p)
      PROVE  Reserve'
  <2>1. lh' = lh /\ head' = head
    BY <1>2, Zenon DEF StartOp, EndOp, Finish, WriteLog, disk
  <2>2. \A q \in Proc : pc'[q] \in InOp \cup {"panic"} => pc[q] \in InOp \cup {"panic"}
    BY <1>2, <1>p, Zenon DEF StartOp, EndOp, Finish, WriteLog, Actor
  <2>3. OpSet' \subseteq OpSet
    BY <2>2, Zenon DEF OpSet
  <2>4. \A q \in OpSet' : wrote'[q] = wrote[q]
    <3>1. CASE EndOp(p)
      <4>1. \A q \in Proc \ {p} : wrote'[q] = wrote[q]
        BY <3>1, <1>p, Zenon DEF EndOp
      <4>2. p \notin OpSet'
        <5>1. committing # 1
          BY <1>0, <3>1, CallCounted DEF EndOp
        <5> QED
          BY <3>1, <5>1, <1>p, Zenon DEF EndOp, OpSet, Actor
      <4> QED
        BY <4>1, <4>2, Zenon DEF OpSet
    <3>2. CASE ~EndOp(p)
      BY <1>2, <3>2, Zenon DEF StartOp, Finish, WriteLog
    <3> QED
      BY <3>1, <3>2, Zenon
  <2> QED
    BY <1>0, <2>1, <2>3, <2>4, <1>l, ReserveShrink
<1>3. ASSUME NEW p \in Proc, BeginOp(p)
      PROVE  Reserve'
  <2>1. CASE MustWait
    <3>1. OpSet' \subseteq OpSet
      BY <1>3, <2>1, <1>p, Zenon DEF BeginOp, OpSet, Actor
    <3>2. lh' = lh /\ head' = head /\ wrote' = wrote
      BY <1>3, <2>1, Zenon DEF BeginOp, disk
    <3> QED
      BY <1>0, <3>1, <3>2, <1>l, ReserveShrink
  <2>2. CASE ~MustWait
    <3>1. /\ Len(lh) + (outstanding + 1) * MAXOPBLOCKS <= LOGSIZE
          /\ outstanding' = outstanding + 1 /\ lh' = lh /\ head' = head
      <4>1. outstanding \in Nat
        BY <1>0, Zenon DEF CInv, TypeOK, TypeLog
      <4> QED
        BY <1>3, <2>2, <4>1, <1>l, LogAssumption DEF BeginOp, MustWait, NoSpace, disk
    <3>2. outstanding' = Cardinality(OpSet')
      BY <1>0, CountingStep, Zenon DEF Counting
    <3>3. Cardinality(Tokens') \in Nat /\ Cardinality(Tokens') <= outstanding' * MAXOPBLOCKS
      <4>1. OpSet' \in SUBSET Proc
        BY Zenon DEF OpSet
      <4> QED
        BY <4>1, <3>2, TokensFinite, Zenon DEF Tokens
    <3>4. (outstanding + 1) * MAXOPBLOCKS \in Nat
      BY <1>0, LogAssumption DEF CInv, TypeOK, TypeLog
    <3> QED
      BY <3>1, <3>3, <3>4, <1>l, LogAssumption DEF Reserve
  <2> QED
    BY <2>1, <2>2, Zenon
<1>4. ASSUME NEW p \in Proc, NEW b \in Block, OpBread(p, b) \/ OpBrelse(p, b)
      PROVE  Reserve'
  <2>1. lh' = lh /\ head' = head /\ wrote' = wrote
    BY <1>4, Zenon DEF OpBread, OpBrelse, disk
  <2>2. OpSet' \subseteq OpSet
    BY <1>4, <1>p, Zenon DEF OpBread, OpBrelse, OpSet, Actor
  <2> QED
    BY <1>0, <2>1, <2>2, <1>l, ReserveShrink
<1>5. ASSUME NEW p \in Proc, NEW b \in Block, NEW d \in Data,
             LogWriteCheck(p, b, d)
      PROVE  Reserve'
  <2>1. lh' = lh /\ head' = head /\ wrote' = wrote
    BY <1>5, Zenon DEF LogWriteCheck, disk
  <2>2. OpSet' \subseteq OpSet
    BY <1>5, <1>p, Zenon DEF LogWriteCheck, OpSet, Actor
  <2> QED
    BY <1>0, <2>1, <2>2, <1>l, ReserveShrink
<1>6. ASSUME NEW p \in Proc, NEW b \in Block, LogWrite(p, b)
      PROVE  Reserve'
  <2>1. OpSet' = OpSet /\ OpSet \in SUBSET Proc /\ p \in OpSet /\ head' = head
    BY <1>6, <1>p, Zenon DEF LogWrite, OpSet, Actor, disk
  <2>2. /\ IsFiniteSet(wrote[p]) /\ Cardinality(wrote[p]) \in Nat
        /\ wrote[p] \subseteq Logged(lh)
        /\ b \in wrote[p] \/ Cardinality(wrote[p]) < OpBlocks
    BY <1>0, <1>6, FS_CardinalityType, Zenon DEF CInv, Budget, LogWrite
  <2>3. CASE b \in Logged(lh)
    <3>1. lh' = lh
      BY <1>6, <2>3, Zenon DEF LogWrite, Record
    <3>2. IsFiniteSet(wrote'[p]) /\ Cardinality(wrote'[p]) >= Cardinality(wrote[p])
      <4>1. wrote'[p] = wrote[p] \cup {b}
        BY <1>6, <1>p, Zenon DEF LogWrite
      <4>2. /\ IsFiniteSet(wrote[p] \cup {b})
            /\ Cardinality(wrote[p] \cup {b}) =
                 IF b \in wrote[p] THEN Cardinality(wrote[p])
                                 ELSE Cardinality(wrote[p]) + 1
        BY <2>2, FS_AddElement, Zenon
      <4> QED
        BY <4>1, <4>2, <2>2
    <3>3. \A q \in Proc \ {p} : wrote'[q] = wrote[q]
      BY <1>6, <1>p, Zenon DEF LogWrite
    <3>4. Cardinality(wrote'[p]) \in Nat
      BY <3>2, FS_CardinalityType, Zenon
    <3>5. Tokens' \subseteq Tokens
      BY <2>1, <2>2, <3>2, <3>3, <3>4 DEF Tokens, TokensOf
    <3>6. IsFiniteSet(Tokens) /\ Cardinality(Tokens) \in Nat
      BY <2>1, TokensFinite, Zenon DEF Tokens
    <3>7. /\ IsFiniteSet(Tokens')
          /\ Cardinality(Tokens') <= Cardinality(Tokens)
      BY <3>5, <3>6, FS_Subset, Zenon
    <3>8. Cardinality(Tokens') \in Nat
      BY <3>7, FS_CardinalityType, Zenon
    <3> QED
      BY <1>0, <1>l, <2>1, <3>1, <3>6, <3>7, <3>8, LogAssumption
      DEF CInv, Reserve
  <2>4. CASE b \notin Logged(lh)
    <3>1. Len(lh') = Len(lh) + 1
      <4>1. lh \in Seq(Block)
        BY <1>0 DEF CInv, TypeOK, TypeLog
      <4>2. lh' = Append(lh, b)
        BY <1>6, <2>4, Zenon DEF LogWrite, Record
      <4> QED
        BY <4>1, <4>2
    <3>2. b \notin wrote[p]
      BY <2>2, <2>4, Zenon
    <3>3. Cardinality(wrote'[p]) = Cardinality(wrote[p]) + 1
      <4>1. wrote'[p] = wrote[p] \cup {b}
        BY <1>6, <1>p DEF LogWrite
      <4> QED
        BY <4>1, <2>2, <3>2, FS_AddElement, Zenon
    <3>4. \A q \in Proc \ {p} : wrote'[q] = wrote[q]
      BY <1>6, <1>p DEF LogWrite
    <3>5. Cardinality(wrote[p]) < MAXOPBLOCKS
      BY <2>2, <3>2, LogAssumption
    <3>6. Cardinality(Tokens') = Cardinality(Tokens) - 1
      BY <2>1, <2>2, <3>3, <3>4, <3>5, TokenSpent, Zenon DEF Tokens
    <3>7. Cardinality(Tokens) \in Nat
      BY <2>1, TokensFinite, Zenon DEF Tokens
    <3> QED
      BY <1>0, <1>l, <2>1, <3>1, <3>6, <3>7, LogAssumption DEF CInv, Reserve
  <2> QED
    BY <2>3, <2>4, Zenon
<1>7. ASSUME NEW p \in Proc, WriteHead(p)
      PROVE  Reserve'
  <2>1. lh' = lh /\ head' = lh /\ wrote' = wrote
    BY <1>7, Zenon DEF WriteHead
  <2>2. OpSet' \subseteq OpSet
    BY <1>7, <1>p, Zenon DEF WriteHead, OpSet, Actor
  <2> QED
    BY <1>0, <2>1, <2>2, <1>l, ReserveShrink, LogBounded
<1>8. ASSUME NEW p \in Actor, InstallTrans(p)
      PROVE  Reserve'
  <2>1. OpSet' \subseteq OpSet
    BY <1>8, Zenon DEF InstallTrans, OpSet
  <2>2. lh' = lh /\ head' = head /\ wrote' = wrote
    BY <1>8, Zenon DEF InstallTrans
  <2> QED
    BY <1>0, <2>1, <2>2, <1>l, ReserveShrink
<1>9. ASSUME NEW p \in Actor, ClearHead(p)
      PROVE  Reserve'
  <2>1. OpSet' \subseteq OpSet
    BY <1>9, <1>p, Zenon DEF ClearHead, OpSet, Actor
  <2>2. lh' = <<>> /\ head' = <<>> /\ wrote' = wrote
    BY <1>9, Zenon DEF ClearHead
  <2> QED
    BY <1>0, <2>1, <2>2, <1>l, ReserveShrink, LogAssumption
<1>10. CASE ReadHead \/ Crash
  <2>1. OpSet' = {}
    BY <1>10, <1>p, LogAssumption, Zenon DEF ReadHead, Crash, OpSet, Actor,
       Control
  <2>2. Cardinality(Tokens') = 0
    <3>1. Tokens' = {}
      BY <2>1, Zenon DEF Tokens, TokensOf
    <3> QED
      BY <3>1, FS_EmptySet, Zenon
  <2>3. head' = head /\ (lh' = head \/ lh' = <<>>)
    BY <1>10, Zenon DEF ReadHead, Crash, disk
  <2> QED
    BY <2>2, <2>3, <1>l, LogAssumption DEF Reserve
<1>11. ASSUME NEW b \in Block, ReadOnly(b) \/ Recycle(b)
      PROVE  Reserve'
  <2>1. OpSet' \subseteq OpSet
    BY <1>11, Zenon DEF ReadOnly, Recycle, OpSet
  <2>2. lh' = lh /\ head' = head /\ wrote' = wrote
    BY <1>11, Zenon DEF ReadOnly, Recycle, disk
  <2> QED
    BY <1>0, <2>1, <2>2, <1>l, ReserveShrink
<1> QED
  BY <1>0, <1>1, <1>2, <1>3, <1>4, <1>5, <1>6, <1>7, <1>8, <1>9, <1>10, <1>11,
     NextCases

\* CInv is inductive.
THEOREM ControlInvariant == Spec => []CInv
<1>1. Init => CInv
  BY InitCInv, Zenon
<1>2. CInv /\ [Next]_vars => CInv'
  <2> SUFFICES ASSUME CInv, [Next]_vars PROVE CInv'
    BY Zenon
  <2>1. TypeOK'
    BY TypeDiskStep, TypeLogStep, TypeCacheStep, TypeProcStep, Zenon DEF TypeOK
  <2>2. Control' /\ Counting' /\ Committing' /\ Tails' /\ Budget' /\ Reserve'
    BY ControlStep, CountingStep, CommittingStep, TailsStep, BudgetStep,
       ReserveStep, Zenon
  <2> QED
    BY <2>1, <2>2, Zenon DEF CInv
<1> QED
  BY <1>1, <1>2, PTL DEF Spec

\* Every variable of log.c stays in its range: the type invariant.
THEOREM TypeCorrect == Spec => []TypeOK
BY ControlInvariant, PTL DEF CInv

\* "The logging system only commits when there are no FS system calls active"
\* (log.c:13), for any number of processes.
THEOREM CommitsAlone == Spec => []CommitAlone
<1>1. CInv => CommitAlone
  BY CommitExcludesCalls, Zenon DEF CommitAlone, Actor
<1> QED
  BY <1>1, ControlInvariant, PTL

-----------------------------------------------------------------------------
(* No panic, and no write past the end of the log. *)

\* Calls really write fewer than MAXOPBLOCKS blocks, by enough to make up for
\* the header block that mkfs counts in nlog (mkfs.c:25).
Slack ==
  /\ OpBlocks < MAXOPBLOCKS
  /\ LOGSIZE + 1 < NLOG + (MAXOPBLOCKS - OpBlocks)

\* The log is short of its limit by what a running call does not use.
SlackLeft == \A p \in OpSet : Len(lh) + (MAXOPBLOCKS - OpBlocks) <= LOGSIZE

\* While a call runs, its unused reservation is still free.
LEMMA SlackWhileRunning == CInv => SlackLeft
<1> SUFFICES ASSUME CInv, NEW p \in OpSet
             PROVE  Len(lh) + (MAXOPBLOCKS - OpBlocks) <= LOGSIZE
  BY Zenon DEF SlackLeft
<1> DEFINE c == Cardinality(wrote[p])
           I == (c + 1)..MAXOPBLOCKS
<1>1. c \in Nat /\ c <= OpBlocks /\ p \in Proc
  BY FS_CardinalityType, Zenon DEF CInv, Budget, OpSet
<1>2. IsFiniteSet(I) /\ Cardinality(I) = MAXOPBLOCKS - c
  <2>1. c + 1 \in Int /\ MAXOPBLOCKS \in Int /\ c <= MAXOPBLOCKS
    BY <1>1, LogAssumption
  <2>2. /\ IsFiniteSet(I)
        /\ Cardinality(I) = IF c + 1 > MAXOPBLOCKS THEN 0
                            ELSE MAXOPBLOCKS - (c + 1) + 1
    BY <2>1, FS_Interval, Zenon
  <2> HIDE DEF c, I
  <2> QED
    BY <2>1, <2>2, <1>1
<1>3. IsFiniteSet({p}) /\ Cardinality({p}) = 1
  BY FS_Singleton, Zenon
<1>4. {p} \X I \subseteq Tokens
  BY <1>1 DEF Tokens, TokensOf
<1>5. IsFiniteSet(Tokens) /\ Cardinality(Tokens) \in Nat
  <2>1. OpSet \in SUBSET Proc
    BY Zenon DEF OpSet
  <2> QED
    BY <2>1, TokensFinite, Zenon DEF Tokens
<1> HIDE DEF I
<1>6. Cardinality({p} \X I) = Cardinality({p}) * Cardinality(I)
  BY <1>2, <1>3, FS_Product, Zenon
<1>7. Cardinality({p} \X I) <= Cardinality(Tokens)
  BY <1>4, <1>5, FS_Subset, Zenon
<1>8. MAXOPBLOCKS - c <= Cardinality(Tokens)
  BY <1>1, <1>2, <1>3, <1>6, <1>7, LogAssumption
<1> HIDE DEF c
<1>9. Len(lh) \in Nat /\ Len(lh) + Cardinality(Tokens) <= LOGSIZE
  BY DEF CInv, TypeOK, TypeLog, Reserve
<1> QED
  BY <1>1, <1>5, <1>8, <1>9, LogAssumption

\* With slack, no step panics.
LEMMA NoPanicStep ==
  ASSUME Slack
  PROVE  CInv /\ NoPanic /\ [Next]_vars => NoPanic'
<1>0. SUFFICES ASSUME CInv, NoPanic, [Next]_vars PROVE NoPanic'
  BY Zenon
<1>p. /\ pc \in [Actor -> {"idle", "begin", "asleep", "panic", "read_head", "up"}
                        \cup InOp \cup InCommit]
  BY <1>0, Zenon DEF CInv, TypeOK, TypeProc
<1> USE DEF Goto, GotoAndWake, Return, NoPanic
<1>1. CASE UNCHANGED vars
  BY <1>0, <1>1, Zenon DEF vars
<1>2. ASSUME NEW p \in Proc,
             \/ StartOp(p) \/ BeginOp(p) \/ WriteLog(p) \/ WriteHead(p)
             \/ Finish(p)
      PROVE  NoPanic'
  BY <1>0, <1>p, <1>2, Zenon DEF StartOp, BeginOp, WriteLog, WriteHead, Finish,
     Actor
<1>3. ASSUME NEW p \in Proc, EndOp(p)
      PROVE  NoPanic'
  <2>1. committing = 0
    BY <1>0, <1>3, CallCounted, Zenon DEF EndOp, InOp
  <2> QED
    BY <1>0, <1>p, <1>3, <2>1 DEF EndOp, Actor
<1>4. ASSUME NEW p \in Proc, NEW b \in Block,
             OpBread(p, b) \/ LogWrite(p, b) \/ OpBrelse(p, b)
      PROVE  NoPanic'
  BY <1>0, <1>p, <1>4, Zenon DEF OpBread, LogWrite, OpBrelse, Actor
<1>5. ASSUME NEW p \in Proc, NEW b \in Block, NEW d \in Data,
             LogWriteCheck(p, b, d)
      PROVE  NoPanic'
  <2>1. outstanding >= 1 /\ outstanding \in Nat /\ p \in OpSet
    BY <1>0, <1>5, CallCounted, Zenon DEF LogWriteCheck, InOp, OpSet, CInv,
       TypeOK, TypeLog
  <2>2. Len(lh) \in Nat /\ Len(lh) + (MAXOPBLOCKS - OpBlocks) <= LOGSIZE
    BY <1>0, <2>1, SlackWhileRunning DEF CInv, TypeOK, TypeLog, SlackLeft
  <2>3. ~(Len(lh) >= LOGSIZE \/ Len(lh) + 1 >= NLOG \/ outstanding < 1)
    BY <2>1, <2>2, LogAssumption DEF Slack
  <2>4. pc' = [pc EXCEPT ![p] = "log_write"]
    BY <1>5, <2>3, Zenon DEF LogWriteCheck
  <2> QED
    BY <1>0, <1>p, <2>4, Zenon
<1>6. ASSUME NEW p \in Actor, InstallTrans(p) \/ ClearHead(p)
      PROVE  NoPanic'
  BY <1>0, <1>p, <1>6, Zenon DEF InstallTrans, ClearHead
<1>7. CASE ReadHead \/ \E b \in Block : ReadOnly(b) \/ Recycle(b)
  BY <1>0, <1>p, <1>7, Zenon DEF ReadHead, ReadOnly, Recycle
<1>8. CASE Crash
  BY <1>8, Zenon DEF Crash
<1> QED
  BY <1>0, <1>1, <1>2, <1>3, <1>4, <1>5, <1>6, <1>7, <1>8, NextCases, Zenon

\* A call that keeps to its budget never panics in log_write or end_op
\* (log.c:153, 219, 221), provided the budget leaves Slack: the unlocked test
\* in log_write refuses even a block that would be absorbed.
THEOREM CallsNeverPanic ==
  ASSUME Slack
  PROVE  Spec => []NoPanic
<1>1. Init => NoPanic
  BY Zenon DEF Init, PowerOn, NoPanic
<1>2. CInv /\ NoPanic /\ [Next]_vars => NoPanic'
  BY NoPanicStep, Zenon
<1> QED
  BY <1>1, <1>2, ControlInvariant, PTL DEF Spec

\* The log stays within the nlog blocks mkfs gave it (log.c:183, 132), however
\* calls interleave.
THEOREM LogAlwaysFits ==
  ASSUME Slack
  PROVE  Spec => []LogFits
<1> DEFINE Fits == Len(lh) < NLOG /\ Len(head) < NLOG
<1>1. Init => Fits
  BY LogAssumption DEF Init, PowerOn
<1>2. CInv /\ CInv' /\ Fits /\ [Next]_vars => Fits'
  <2>0. SUFFICES ASSUME CInv, CInv', Fits, [Next]_vars PROVE Fits'
    BY Zenon
  <2>1. ASSUME NEW p \in Proc, NEW b \in Block, LogWrite(p, b)
        PROVE  Fits'
    <3>1. p \in OpSet'
      BY <2>0, <2>1, Zenon DEF LogWrite, Goto, OpSet, InOp, CInv, TypeOK,
         TypeProc, Actor
    <3>2. Len(lh') + (MAXOPBLOCKS - OpBlocks) <= LOGSIZE
      <4>1. (CInv => SlackLeft)'
        BY SlackWhileRunning, PTL
      <4> QED
        BY <2>0, <3>1, <4>1, Zenon DEF SlackLeft
    <3>3. Len(lh') \in Nat /\ head' = head
      <4>1. lh' \in Seq(Block)
        BY <2>0, Zenon DEF CInv, TypeOK, TypeLog
      <4>2. head' = head
        BY <2>1, Zenon DEF LogWrite, disk
      <4> QED
        BY <4>1, <4>2
    <3> QED
      BY <2>0, <3>2, <3>3, LogAssumption DEF Slack
  <2>2. CASE \E p \in Proc : WriteHead(p)
    BY <2>0, <2>2, Zenon DEF WriteHead
  <2>3. CASE \E p \in Actor : ClearHead(p)
    BY <2>3, LogAssumption DEF ClearHead
  <2>4. CASE ReadHead \/ Crash
    BY <2>0, <2>4, LogAssumption DEF ReadHead, Crash, disk
  <2>5. CASE \/ UNCHANGED vars
             \/ \E p \in Proc : \/ StartOp(p) \/ BeginOp(p) \/ EndOp(p)
                               \/ WriteLog(p) \/ Finish(p)
             \/ \E p \in Actor : InstallTrans(p)
             \/ \E b \in Block : ReadOnly(b) \/ Recycle(b)
             \/ \E p \in Proc, b \in Block : OpBread(p, b) \/ OpBrelse(p, b)
             \/ \E p \in Proc, b \in Block, d \in Data : LogWriteCheck(p, b, d)
    BY <2>0, <2>5, Zenon DEF vars, disk, StartOp, BeginOp, EndOp, WriteLog,
       Finish, InstallTrans, ReadOnly, Recycle, OpBread, OpBrelse, LogWriteCheck
  <2> QED
    BY <2>0, <2>1, <2>2, <2>3, <2>4, <2>5, NextCases, Zenon
<1>3. CInv /\ Fits => LogFits
  BY LogBounded, Zenon DEF LogFits
<1> QED
  BY <1>1, <1>2, <1>3, ControlInvariant, PTL DEF Spec

\* The reservation made by begin_op is enough, both for log_write's own test
\* and for the blocks on the disk (log.c:132, 218).
THEOREM SpaceAlwaysSuffices ==
  ASSUME Slack
  PROVE  Spec => []SpaceSuffices
<1>1. NoPanic /\ LogFits => SpaceSuffices
  BY Zenon DEF SpaceSuffices
<1>2. Spec => []NoPanic
  BY CallsNeverPanic, Zenon
<1>3. Spec => []LogFits
  BY LogAlwaysFits, Zenon
<1> QED
  BY <1>1, <1>2, <1>3, PTL
=============================================================================
