------------------------------- MODULE MCLog --------------------------------
(* Instances of Log for TLC. *)
EXTENDS Log, TLC

Symm == Permutations(Proc) \cup Permutations(Block)

\* For liveness: booted, and every block has been read.  ReadHead, ClearHead and
\* ReadOnly lead there from Init.
LiveInit ==
  /\ home = [b \in Block |-> Empty] /\ head = <<>>
  /\ logblk = [i \in 1..LOGSIZE |-> Empty]
  /\ lh = <<>> /\ outstanding = 0 /\ committing = 0
  /\ resident = Block /\ cache = home /\ refcnt = [b \in Block |-> 0]
  /\ held = [p \in Proc |-> {}] /\ wrote = held
  /\ pc = [p \in Actor |-> IF p = Boot THEN "up" ELSE "idle"]
  /\ tail = [p \in Actor |-> 0] /\ crashes = 0 /\ replayed = {}

LiveSpec == LiveInit /\ [][Next]_vars /\ Fairness
=============================================================================
