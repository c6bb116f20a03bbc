------------------------------- MODULE ByteFile -------------------------------
(***************************************************************************)
(* What the data layer of the file system promises: a file is a sequence   *)
(* of bytes, and a read, a chunk of a write and a truncation each happen   *)
(* at one moment, whatever blocks they take.                               *)
(*                                                                         *)
(* A chunk whose source can be read is written whole.  The promise is weak *)
(* only for a chunk whose source cannot: it counts as written, a prefix of *)
(* what can be read is, and of the bytes behind that some may be           *)
(* overwritten now and get their old value back later.                     *)
(***************************************************************************)
EXTENDS Integers, Sequences

CONSTANTS
  Proc, Inode,
  Src,        \* what each process writes
  Counts,     \* bytes a call asks for
  Bads,       \* bytes of its buffer that can be read or written
  MaxSize,    \* bytes of the largest file
  Chunk       \* bytes written at once

VARIABLES
  content,    \* the bytes of each file
  torn,       \* old values that bytes may get back: pairs of position and value
  opened,     \* each process's open file: its inode and offset
  call,       \* the write each process is in, i of its n bytes behind it
  out         \* what the last read asked for and got, until a write is called

bvars == <<content, torn, opened, call, out>>

NoWrite == [n |-> 0, bad |-> 0, i |-> 0]
NoRead == [n |-> 0, bad |-> 0, got |-> <<>>]

Least(a, b) == IF a < b THEN a ELSE b

\* s with w in place of what is behind the first o bytes
Overwrite(s, o, w) == SubSeq(s, 1, o) \o w \o SubSeq(s, o + Len(w) + 1, Len(s))

BInit ==
  /\ content = [f \in Inode |-> <<>>] /\ torn = [f \in Inode |-> {}]
  /\ opened \in [Proc -> [ip : Inode, off : {0}]]
  /\ call = [p \in Proc |-> NoWrite] /\ out = NoRead

StartWrite(p) ==
  /\ call[p] = NoWrite /\ out' = NoRead
  /\ UNCHANGED <<content, torn, opened>>
  /\ \E n \in Counts : \E bad \in 0..n :
       n <= Len(Src[p]) /\ call' = [call EXCEPT ![p] = [n |-> n, bad |-> bad, i |-> 0]]

\* bytes of the next chunk, how many of them can be read, and whether they have a place
Next1(p) == Least(call[p].n - call[p].i, Chunk)
Readable(p) == IF call[p].bad < call[p].i THEN 0 ELSE Least(Next1(p), call[p].bad - call[p].i)
Fits(p) == LET o == opened[p].off IN
  o <= Len(content[opened[p].ip]) /\ o + Next1(p) <= MaxSize

\* The next chunk of the call: its first k bytes are written, and j more, if not
\* all of it can be read, overwrite bytes that may come back.
Write(p) ==
  LET f == opened[p].ip
      o == opened[p].off
      i == call[p].i
  IN /\ i < call[p].n /\ Fits(p)
     /\ opened' = [opened EXCEPT ![p].off = @ + Next1(p)]
     /\ call' = [call EXCEPT ![p].i = @ + Next1(p)]
     /\ \E k \in 0..Readable(p) : \E j \in 0..(Readable(p) - k) :
          LET s == Overwrite(content[f], o, SubSeq(Src[p], i + 1, i + k))
              hit == {x \in (o + k + 1)..(o + k + j) : x <= Len(s)}
          IN /\ Readable(p) = Next1(p) => k = Next1(p)
             /\ content' = [content EXCEPT ![f] =
                  [x \in DOMAIN s |-> IF x \in hit THEN Src[p][i + x - o] ELSE s[x]]]
             /\ torn' = [torn EXCEPT ![f] = {t \in @ : t[1] \notin (o + 1)..(o + k)}
                                            \cup {<<x, s[x]>> : x \in hit}]
     /\ UNCHANGED out

\* All of it is written, or the rest has no place.
EndWrite(p) ==
  /\ call[p] # NoWrite /\ (call[p].i = call[p].n \/ ~Fits(p))
  /\ call' = [call EXCEPT ![p] = NoWrite]
  /\ UNCHANGED <<content, torn, opened, out>>

\* The rest of the file, up to n bytes; less only if they have no place in the
\* buffer.  How much a negative n reads is left open.
Read(p) ==
  LET rest == SubSeq(content[opened[p].ip], opened[p].off + 1, Len(content[opened[p].ip])) IN
  /\ UNCHANGED <<content, torn, call>>
  /\ \E n \in Counts \cup {-1}, bad \in Bads : \E k \in 0..Len(rest) :
       LET full == Least(n, Len(rest)) IN
       /\ n >= 0 => IF full <= bad THEN k = full ELSE k <= bad
       /\ out' = [n |-> n, bad |-> bad, got |-> SubSeq(rest, 1, k)]
       /\ opened' = [opened EXCEPT ![p].off = @ + k]

\* open with O_TRUNC
Truncate(p) ==
  /\ opened' = [opened EXCEPT ![p].off = 0]
  /\ content' = [content EXCEPT ![opened[p].ip] = <<>>]
  /\ torn' = [torn EXCEPT ![opened[p].ip] = {}]
  /\ UNCHANGED <<call, out>>

\* some of what a failed write overwrote comes back, some of it stays for good
Settle(f) ==
  /\ UNCHANGED <<opened, call, out>>
  /\ \E back, keep \in SUBSET torn[f] :
       /\ content' = [content EXCEPT ![f] = [x \in DOMAIN @ |->
            IF \E t \in back : t[1] = x THEN (CHOOSE t \in back : t[1] = x)[2] ELSE @[x]]]
       /\ torn' = [torn EXCEPT ![f] = keep]

BNext ==
  \/ \E p \in Proc : StartWrite(p) \/ Write(p) \/ EndWrite(p) \/ Read(p) \/ Truncate(p)
  \/ \E f \in Inode : Settle(f)

BSpec == BInit /\ [][BNext]_bvars
==============================================================================
