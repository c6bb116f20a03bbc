------------------------------- MODULE TxDisk -------------------------------
(***************************************************************************)
(* What kernel/log.c promises to the file system: a disk whose updates     *)
(* become durable in groups of whole system calls.  `current' is what      *)
(* system calls read and write, `durable' what a restart after a power     *)
(* failure would find, `active' the system calls between begin_op() and    *)
(* end_op().  A group commits only when no system call is active, so a     *)
(* crash never exposes part of one (log.c:12-16).                          *)
(***************************************************************************)
CONSTANTS Proc, Block, Data, Empty

VARIABLES durable, current, active

txvars == <<durable, current, active>>

TxTypeOK ==
  /\ durable \in [Block -> Data]
  /\ current \in [Block -> Data]
  /\ active \in SUBSET Proc

TxInit ==
  /\ durable = [b \in Block |-> Empty]
  /\ current = durable
  /\ active = {}

Begin(p) ==
  /\ p \notin active
  /\ active' = active \cup {p}
  /\ UNCHANGED <<durable, current>>

Write(p, b, d) ==
  /\ p \in active
  /\ current' = [current EXCEPT ![b] = d]
  /\ UNCHANGED <<durable, active>>

End(p) ==
  /\ p \in active
  /\ active' = active \ {p}
  /\ UNCHANGED <<durable, current>>

Commit ==
  /\ active = {}
  /\ durable' = current
  /\ UNCHANGED <<current, active>>

\* Power failure and restart: uncommitted updates vanish together.
Restart ==
  /\ current' = durable
  /\ active' = {}
  /\ UNCHANGED durable

TxNext ==
  \/ \E p \in Proc : Begin(p) \/ End(p)
  \/ \E p \in Proc, b \in Block, d \in Data : Write(p, b, d)
  \/ Commit
  \/ Restart

TxSpec == TxInit /\ [][TxNext]_txvars
=============================================================================
