------------------------------- MODULE FileData -------------------------------
(***************************************************************************)
(* The data of files, kernel/fs.c: the bitmap of blocks (balloc, bfree),   *)
(* the direct and indirect blocks of an inode (bmap, itrunc), readi and    *)
(* writei, and the loop of filewrite that cuts a write into transactions.  *)
(*                                                                         *)
(* Blocks are as the buffer cache shows them.  home is what a buffer that  *)
(* is recycled gets back: what has been given to log_write.  A cell of a   *)
(* block holds a byte or a block number.                                   *)
(***************************************************************************)
EXTENDS Integers, Sequences, FiniteSets, FiniteSetsExt

CONSTANTS
  Proc, Inode, None,
  NBLOCK,       \* data blocks of the disk, all described by one bitmap block
  BSIZE,        \* cells of a block
  NDIRECT,      \* direct blocks of an inode
  MAXOPBLOCKS,  \* blocks a transaction may log
  U,            \* 2^width of uint
  Src,          \* what each process writes, a sequence of bytes
  Counts, Bads, \* bytes asked for, and readable bytes of a buffer
  MaxCalls      \* calls made, in all

ASSUME FileDataAssumption ==
  /\ NBLOCK \in Nat \ {0} /\ BSIZE \in Nat \ {0} /\ NDIRECT \in Nat
  /\ MAXOPBLOCKS \in Nat /\ U \in Nat \ {0} /\ MaxCalls \in Nat

Block == 1..NBLOCK
NINDIRECT == BSIZE
BitmapBlock == 0
MaxSize == (NDIRECT + NINDIRECT) * BSIZE

\* filewrite: "write a few blocks at a time", in bytes
Chunk == ((MAXOPBLOCKS - 1 - 1 - 2) \div 2) * BSIZE

Zeros == [c \in 0..(BSIZE - 1) |-> 0]

VARIABLES
  bitmap,   \* blocks in use
  block,    \* contents in the cache
  home,     \* contents in the log or on the disk
  pinned,   \* blocks of the transaction in progress
  inode,    \* struct inode: size, addrs (0 .. NDIRECT), and the holder of its lock
  file,     \* struct file of each process: ip, off
  loc,      \* the call each process is in
  calls,    \* calls made
  panic,
  before,   \* history: content and torn when the inode was locked
  torn,     \* history: bytes overwritten by failed copies, and their old values
  out       \* history: what the last read asked for and got, until a write is called

vars == <<bitmap, block, home, pinned, inode, file, loc, calls, panic, before, torn, out>>

NoCall == [pc |-> "user", op |-> "", n |-> 0, bad |-> 0, i |-> 0, n1 |-> 0, tot |-> 0,
           b |-> 0, logs |-> {}]

NoRead == [n |-> 0, bad |-> 0, got |-> <<>>]

EmptyInode == [size |-> 0, addrs |-> [x \in 0..NDIRECT |-> 0], lock |-> None]

Init ==
  /\ bitmap = {} /\ pinned = {}
  /\ block = [b \in Block |-> Zeros] /\ home = block
  /\ inode = [f \in Inode |-> EmptyInode]
  /\ file \in [Proc -> [ip : Inode, off : {0}]]
  /\ loc = [p \in Proc |-> NoCall]
  /\ calls = 0 /\ panic = None
  /\ before = [f \in Inode |-> [content |-> <<>>, torn |-> {}]] /\ torn = [f \in Inode |-> {}]
  /\ out = NoRead

-----------------------------------------------------------------------------
(* Blocks of a file *)

\* The entries of the indirect block of an inode, if it has one.
Indirect(ip) == IF ip.addrs[NDIRECT] = 0 THEN Zeros ELSE block[ip.addrs[NDIRECT]]

\* The address of block bn, 0 if there is none.
Addr(ip, bn) == IF bn < NDIRECT THEN ip.addrs[bn] ELSE Indirect(ip)[bn - NDIRECT]

Content(f) ==
  [x \in 1..inode[f].size |->
     LET a == Addr(inode[f], (x - 1) \div BSIZE) IN IF a = 0 THEN 0 ELSE block[a][(x - 1) % BSIZE]]

\* The place in the file of the next byte of the call.
Pos(p) == file[p].off + loc[p].tot

Ip(p) == inode[file[p].ip]

At(p, pc) == panic = None /\ loc[p].pc = pc

Locked(p) == [inode EXCEPT ![file[p].ip].lock = p]

Saved(f) == [before EXCEPT ![f] = [content |-> Content(f), torn |-> torn[f]]]

Goto(p, l) == loc' = [loc EXCEPT ![p] = l]

-----------------------------------------------------------------------------
(* balloc and bmap *)

\* What bmap has to allocate for block bn: nothing, a block, or the indirect block.
Missing(ip, bn) ==
  IF bn < NDIRECT THEN IF ip.addrs[bn] = 0 THEN "direct" ELSE "none"
  ELSE IF ip.addrs[NDIRECT] = 0 THEN "indirect"
  ELSE IF Indirect(ip)[bn - NDIRECT] = 0 THEN "entry" ELSE "none"

\* mutant: the number of the bit, counted from 0
FirstBit == Min(Block \ bitmap) - 1

FirstFree == Min(Block \ bitmap)

\* balloc takes the first free block, under the lock of the bitmap's buffer
Bmap(p) ==
  /\ At(p, "bmap")
  /\ IF Pos(p) \div BSIZE >= NDIRECT + NINDIRECT
     THEN panic' = "bmap: out of range" /\ UNCHANGED <<bitmap, loc>>
     ELSE IF Missing(Ip(p), Pos(p) \div BSIZE) = "none"
     THEN Goto(p, [loc[p] EXCEPT !.pc = "copy"]) /\ UNCHANGED <<bitmap, panic>>
     ELSE IF Block \subseteq bitmap
     THEN panic' = "balloc: out of blocks" /\ UNCHANGED <<bitmap, loc>>
     ELSE /\ bitmap' = bitmap \cup {FirstFree}
          /\ Goto(p, [loc[p] EXCEPT !.pc = "bzero", !.b = FirstFree, !.logs = @ \cup {BitmapBlock}])
          /\ UNCHANGED panic
  /\ UNCHANGED <<block, home, pinned, inode, file, calls, before, torn, out>>

\* mutant: the block keeps what it last held
NotZeroed(b) == block[b]

\* bzero
Zeroed(b) == Zeros

\* bzero, and bmap puts the address where it belongs
Bzero(p) ==
  LET b == loc[p].b
      bn == Pos(p) \div BSIZE
      what == Missing(Ip(p), bn)
      z == [block EXCEPT ![b] = Zeroed(b)]
      ind == Ip(p).addrs[NDIRECT]
      entry == what = "entry"
  IN /\ At(p, "bzero")
     /\ block' = IF entry THEN [z EXCEPT ![ind][bn - NDIRECT] = b] ELSE z
     /\ pinned' = pinned \cup {b} \cup (IF entry THEN {ind} ELSE {})
     /\ inode' = IF entry THEN inode
                 ELSE [inode EXCEPT ![file[p].ip].addrs[IF what = "direct" THEN bn ELSE NDIRECT] = b]
     /\ Goto(p, [loc[p] EXCEPT !.pc = "bmap", !.b = 0,
                               !.logs = @ \cup {b} \cup (IF entry THEN {ind} ELSE {})])
     /\ UNCHANGED <<bitmap, home, file, calls, panic, before, torn, out>>

-----------------------------------------------------------------------------
(* writei and filewrite *)

\* filewrite; the first bad bytes of the source can be read
CallWrite(p) ==
  \E n \in Counts, bad \in Bads :
    /\ At(p, "user") /\ calls < MaxCalls /\ n <= Len(Src[p])
    /\ calls' = calls + 1 /\ out' = NoRead
    /\ Goto(p, [NoCall EXCEPT !.pc = "filewrite", !.op = "write", !.n = n, !.bad = Min({bad, n})])
    /\ UNCHANGED <<bitmap, block, home, pinned, inode, file, panic, before, torn>>

\* the tests at the top of writei
WriteRefused(off, size, n) == off > size \/ (off + n) % U < off \/ (off + n) % U > MaxSize

\* mutant: the chunk does not leave room for the other blocks
WholeChunk == MAXOPBLOCKS * BSIZE

\* max of filewrite
MaxChunk == Chunk

\* The loop of filewrite: begin_op, ilock and the tests of writei, or the result.
Filewrite(p) ==
  LET l == loc[p]
      n1 == Min({l.n - l.i, MaxChunk})
  IN /\ At(p, "filewrite")
     /\ IF l.i >= l.n \/ WriteRefused(file[p].off, Ip(p).size, n1)
        THEN /\ l.i < l.n => Ip(p).lock = None
             /\ Goto(p, NoCall) /\ UNCHANGED <<inode, before>>
        ELSE /\ Ip(p).lock = None
             /\ inode' = Locked(p)
             /\ before' = Saved(file[p].ip)
             /\ Goto(p, [l EXCEPT !.pc = "bmap", !.n1 = n1, !.tot = 0, !.logs = {}])
     /\ UNCHANGED <<bitmap, block, home, pinned, file, calls, panic, torn, out>>

\* m of writei: what fits in the block, of what is left
Span(p) == Min({loc[p].n1 - loc[p].tot, BSIZE - (Pos(p) % BSIZE)})

\* The bytes either_copyin copies before it succeeds or fails.
Copied(p) == Max({0, Min({Span(p), loc[p].bad - loc[p].i - loc[p].tot})})

\* mutant: filewrite does not advance addr with i
SrcByteOfChunk(p, x) == Src[p][loc[p].tot + x]

\* byte x of this turn, at addr + i of filewrite
SrcByte(p, x) == Src[p][loc[p].i + loc[p].tot + x]

\* One turn of writei's loop: a block that was copied whole is logged.
CopyIn(p) ==
  LET l == loc[p]
      f == file[p].ip
      a == Addr(Ip(p), Pos(p) \div BSIZE)
      k == Copied(p)
      ok == k = Span(p)
      at == Pos(p) % BSIZE
      cells == [c \in 0..(BSIZE - 1) |->
                  IF c \in at..(at + k - 1) THEN SrcByte(p, c - at + 1) ELSE block[a][c]]
      here == (Pos(p) + 1)..(Pos(p) + k)
  IN /\ At(p, "copy") /\ l.op = "write"
     /\ block' = [block EXCEPT ![a] = cells]
     /\ pinned' = IF ok THEN pinned \cup {a} ELSE pinned
     /\ torn' = [torn EXCEPT ![f] =
          IF ok THEN {t \in @ : t[1] \notin here}
          ELSE @ \cup {<<x, before[f].content[x]>> : x \in {y \in here : y <= Len(before[f].content)}}]
     /\ Goto(p, IF ~ok THEN [l EXCEPT !.pc = "write_end"]
                ELSE [l EXCEPT !.tot = @ + Span(p), !.logs = @ \cup {a},
                               !.pc = IF l.tot + Span(p) = l.n1 THEN "write_end" ELSE "bmap"])
     /\ UNCHANGED <<bitmap, home, inode, file, calls, panic, before, out>>

\* if(off > ip->size) ip->size = off
Grown(size, off, tot) == Max({size, off + tot})

\* mutant: what was written
ReturnsTot(l) == l.tot

\* "return n", also when the copy failed
WriteiReturns(l) == l.n1

\* The size and the inode are written, writei returns, iunlock, end_op.
WriteEnd(p) ==
  LET l == loc[p]
      f == file[p].ip
      r == WriteiReturns(l)
  IN /\ At(p, "write_end")
     /\ inode' = [inode EXCEPT ![f].size = Grown(@, file[p].off, l.tot), ![f].lock = None]
     /\ file' = [file EXCEPT ![p].off = @ + r]
     /\ IF r # l.n1 THEN panic' = "short filewrite" /\ UNCHANGED loc
        ELSE /\ Goto(p, [l EXCEPT !.pc = "filewrite", !.i = @ + r, !.n1 = 0, !.tot = 0, !.logs = {}])
             /\ UNCHANGED panic
     /\ UNCHANGED <<bitmap, block, home, pinned, calls, before, torn, out>>

-----------------------------------------------------------------------------
(* readi and fileread, itrunc, and the log *)

\* readi, under the inode's lock; the destination can be written up to byte bad
\* and a block that could not be copied whole does not count
CallRead(p) ==
  \E n \in {-1} \cup Counts, bad \in Bads :
    LET f == file[p].ip
        o == file[p].off
        u == n % U
        size == inode[f].size
        len == IF o > size \/ (o + u) % U < o THEN 0 ELSE Min({u, size - o})
        ends == {x \in 0..Min({len, bad}) : x = 0 \/ x = len \/ (o + x) % BSIZE = 0}
    IN /\ At(p, "user") /\ calls < MaxCalls /\ inode[f].lock = None
       /\ calls' = calls + 1
       /\ out' = [n |-> n, bad |-> bad, got |-> SubSeq(Content(f), o + 1, o + Max(ends))]
       /\ file' = [file EXCEPT ![p].off = @ + Max(ends)]
       /\ UNCHANGED <<bitmap, block, home, pinned, inode, loc, panic, before, torn>>

\* open with O_TRUNC: begin_op, ilock
CallTrunc(p) ==
  /\ Ip(p).lock = None
  /\ At(p, "user") /\ calls < MaxCalls
  /\ calls' = calls + 1
  /\ inode' = Locked(p) /\ before' = Saved(file[p].ip)
  /\ Goto(p, [NoCall EXCEPT !.pc = "itrunc", !.op = "trunc"])
  /\ UNCHANGED <<bitmap, block, home, pinned, file, panic, torn, out>>

\* the entries of the indirect block itrunc has not come to
IndirectLeft(ip, j) == {x \in j..(NINDIRECT - 1) : Indirect(ip)[x] # 0}

\* What itrunc frees next, and where it stands then.
Frees(ip, j) ==
  LET direct == {x \in 0..(NDIRECT - 1) : ip.addrs[x] # 0}
      left == IndirectLeft(ip, j)
      x == Min(IF direct # {} THEN direct ELSE left)
  IN IF direct # {} THEN [b |-> ip.addrs[x], addrs |-> [ip.addrs EXCEPT ![x] = 0], j |-> j]
     ELSE IF left # {} THEN [b |-> Indirect(ip)[x], addrs |-> ip.addrs, j |-> x + 1]
     ELSE [b |-> ip.addrs[NDIRECT], addrs |-> [ip.addrs EXCEPT ![NDIRECT] = 0], j |-> j]

\* One bfree of itrunc; with nothing left the size is set and the inode unlocked.
Itrunc(p) ==
  LET f == file[p].ip
      r == Frees(Ip(p), loc[p].tot)
  IN /\ At(p, "itrunc")
     /\ IF r.b = 0
        THEN /\ inode' = [inode EXCEPT ![f].size = 0, ![f].lock = None]
             /\ file' = [file EXCEPT ![p].off = 0]
             /\ torn' = [torn EXCEPT ![f] = {}]
             /\ Goto(p, NoCall) /\ UNCHANGED <<bitmap, panic>>
        ELSE IF r.b \notin bitmap
        THEN panic' = "freeing free block" /\ UNCHANGED <<bitmap, inode, file, loc, torn>>
        ELSE /\ bitmap' = bitmap \ {r.b}
             /\ inode' = [inode EXCEPT ![f].addrs = r.addrs]
             /\ Goto(p, [loc[p] EXCEPT !.tot = r.j, !.logs = @ \cup {BitmapBlock}])
             /\ UNCHANGED <<file, torn, panic>>
     /\ UNCHANGED <<block, home, pinned, calls, before, out>>

\* The bytes of f that are in the blocks of B.
In(f, B) == {x \in 1..inode[f].size : Addr(inode[f], (x - 1) \div BSIZE) \in B}

Settled(B) == [f \in Inode |-> {t \in torn[f] : t[1] \notin In(f, B)}]

InOp(p) == loc[p].pc \notin {"user", "filewrite"}

\* Module Log: the blocks of the calls since the last commit are written when
\* no call is in progress, as the cache has them.
Commit ==
  /\ panic = None /\ pinned # {} /\ \A p \in Proc : ~InOp(p)
  /\ home' = [b \in Block |-> IF b \in pinned THEN block[b] ELSE home[b]]
  /\ pinned' = {} /\ torn' = Settled(pinned)
  /\ UNCHANGED <<bitmap, block, inode, file, loc, calls, panic, before, out>>

\* Module Bio: a buffer that is not pinned is recycled and read again.
Recycle(b) ==
  LET was(f, x) == home[b][(x - 1) % BSIZE] IN
  /\ panic = None /\ b \notin pinned /\ block[b] # home[b]
  /\ block' = [block EXCEPT ![b] = home[b]]
  /\ torn' = Settled({b})
  /\ before' = [f \in Inode |->
       [content |-> [x \in DOMAIN before[f].content |->
                       IF x \in In(f, {b}) THEN was(f, x) ELSE before[f].content[x]],
        torn |-> {t \in before[f].torn : t[1] \notin In(f, {b})}]]
  /\ UNCHANGED <<bitmap, home, pinned, inode, file, loc, calls, panic, out>>

-----------------------------------------------------------------------------

Next ==
  \/ \E p \in Proc :
       \/ CallWrite(p) \/ Filewrite(p) \/ CopyIn(p) \/ WriteEnd(p)
       \/ Bmap(p) \/ Bzero(p) \/ CallRead(p) \/ CallTrunc(p) \/ Itrunc(p)
  \/ Commit \/ \E b \in Block : Recycle(b)

Spec == Init /\ [][Next]_vars

-----------------------------------------------------------------------------
(* Properties *)

TypeOK ==
  /\ bitmap \subseteq Block /\ pinned \subseteq Block
  /\ \A f \in Inode :
       /\ inode[f].size \in 0..MaxSize /\ inode[f].lock \in Proc \cup {None}
       /\ inode[f].addrs \in [0..NDIRECT -> 0..NBLOCK]
  /\ \A p \in Proc : file[p].off \in Nat /\ loc[p].b \in 0..NBLOCK
  /\ calls \in 0..MaxCalls

Truncating(f) == inode[f].lock # None /\ loc[inode[f].lock].pc = "itrunc"

\* Where block numbers are kept: <<inode, "direct", x>>, <<inode, "entry", x>>, or
\* a process that is about to store one.  The entries itrunc has passed, in an
\* indirect block that it will free, do not count.
Places ==
  {<<f, "direct", x>> : f \in Inode, x \in 0..NDIRECT}
  \cup {<<f, "entry", x>> : f \in Inode, x \in 0..(NINDIRECT - 1)}
  \cup {<<p, "bmap", 0>> : p \in Proc}

Held(w) ==
  CASE w[2] = "direct" -> inode[w[1]].addrs[w[3]]
    [] w[2] = "entry" -> IF Truncating(w[1]) /\ w[3] < loc[inode[w[1]].lock].tot THEN 0
                         ELSE Indirect(inode[w[1]])[w[3]]
    [] w[2] = "bmap" -> loc[w[1]].b

\* In every state, also in the middle of a write or a truncation, the bitmap
\* marks exactly the blocks some inode leads to or bmap is about to store, and
\* none of them is kept in two places: no block is leaked, shared or freed in
\* use (balloc, bfree, bmap, itrunc).
BitmapExact ==
  LET used == {w \in Places : Held(w) # 0} IN
  bitmap = {Held(w) : w \in used} /\ Cardinality(bitmap) = Cardinality(used)

\* Every byte below the size has a block.  readi calls bmap, which would
\* allocate one, outside of a transaction.
SizeCovered ==
  \A f \in Inode : ~Truncating(f) =>
    \A x \in 1..inode[f].size : Addr(inode[f], (x - 1) \div BSIZE) # 0

\* The blocks at every moment: used once, marked in the bitmap, and one for
\* every byte of a file (balloc, bfree, bmap, itrunc, writei).
BlocksSound == TypeOK /\ BitmapExact /\ SizeCovered

\* A chunk of filewrite and a truncation log fewer blocks than begin_op sets
\* aside for a call (the inode's block is the one added): the one that log_write
\* refuses to give them (log.c:218) is not needed.
OpFits == \A p \in Proc : Cardinality(loc[p].logs) + 1 < MAXOPBLOCKS

\* The disk may be full; no other panic of this code is reached.
PanicOnlyWhenFull == panic # None => panic = "balloc: out of blocks" /\ bitmap = Block

\* Files as sequences of bytes: while an inode is locked, what it was before.
Abs == INSTANCE ByteFile WITH
  content <- [f \in Inode |-> IF inode[f].lock # None THEN before[f].content ELSE Content(f)],
  torn <- [f \in Inode |-> IF inode[f].lock # None THEN before[f].torn ELSE torn[f]],
  opened <- file,
  call <- [p \in Proc |-> IF loc[p].op = "write" THEN [n |-> loc[p].n, bad |-> loc[p].bad, i |-> loc[p].i]
                          ELSE [n |-> 0, bad |-> 0, i |-> 0]]

\* Reads, writes and truncations of several blocks behave as if they happened
\* at once; a write whose source can be read puts all its bytes, chunk behind
\* chunk, at the offset; a read gets what is there; and nothing but a recycled
\* buffer of a failed write changes a byte behind their back (filewrite, writei,
\* fileread, readi, itrunc).
ImplementsByteFile == Abs!BSpec
==============================================================================
