---------------------------- MODULE PrivateMemory -----------------------------
(***************************************************************************)
(* What the memory of processes promises: each has pages of its own.  A    *)
(* store is seen by nobody else, fork copies all pages at one moment, sbrk *)
(* adds zeroed pages or drops the last ones, exec replaces all of them,    *)
(* and a call that fails leaves them as they were.                         *)
(***************************************************************************)
EXTENDS Integers, Sequences

CONSTANTS Proc, Gone, MaxPages

VARIABLE mem    \* the pages of each process, Gone if there is no such process

Store(p, i) == mem' = [mem EXCEPT ![p][i] = p]

\* a new page is zeroed
Grow(p, n) == mem' = [mem EXCEPT ![p] = @ \o [x \in 1..n |-> "zero"]]

Shrink(p, n) == mem' = [mem EXCEPT ![p] = SubSeq(@, 1, n)]

Fork(p, q) == mem[q] = Gone /\ mem' = [mem EXCEPT ![q] = mem[p]]

\* pages of the program, the page below the stack, and the stack
Exec(p, n) == mem' = [mem EXCEPT ![p] = [x \in 1..n |-> "text"] \o <<"guard", "args">>]

Exit(p) == mem' = [mem EXCEPT ![p] = Gone]

MInit == \E p \in Proc : mem = [q \in Proc |-> IF q = p THEN <<"text">> ELSE Gone]

MNext == \E p \in Proc :
  /\ mem[p] # Gone
  /\ \/ \E i \in DOMAIN mem[p] : mem[p][i] # "guard" /\ Store(p, i)
     \/ \E n \in 0..MaxPages : Grow(p, n) \/ Exec(p, n) \/ (n < Len(mem[p]) /\ Shrink(p, n))
     \/ \E q \in Proc : Fork(p, q)
     \/ Exit(p)

MSpec == MInit /\ [][MNext]_mem
==============================================================================
