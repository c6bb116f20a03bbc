-------------------------------- MODULE Fifo --------------------------------
(***************************************************************************)
(* What a pipe promises: a bounded queue of bytes between its writers and  *)
(* its readers.  A byte whose reader gave a bad address is lost.           *)
(***************************************************************************)
EXTENDS Naturals, Sequences

CONSTANTS Proc, Byte, Capacity

VARIABLES
  queue,   \* bytes written and not yet read, oldest first
  got      \* what each process has received in its current call of read

FifoInit == queue = <<>> /\ got = [p \in Proc |-> <<>>]

Put(b) ==
  /\ Len(queue) < Capacity
  /\ queue' = Append(queue, b)
  /\ UNCHANGED got

Get(p) ==
  /\ queue # <<>>
  /\ queue' = Tail(queue)
  /\ got' = [got EXCEPT ![p] = Append(@, Head(queue))]

Lose ==
  /\ queue # <<>>
  /\ queue' = Tail(queue)
  /\ UNCHANGED got

NewRead(p) == got' = [got EXCEPT ![p] = <<>>] /\ UNCHANGED queue

FifoNext ==
  \/ \E b \in Byte : Put(b)
  \/ \E p \in Proc : Get(p) \/ NewRead(p)
  \/ Lose

FifoSpec == FifoInit /\ [][FifoNext]_<<queue, got>>
=============================================================================
