------------------------------- MODULE MCProc -------------------------------
(* Model-checking instance of Proc. *)
EXTENDS Proc, TLC

Symm == Permutations(CPU)

\* v of a process at one of the places, and d elsewhere
Only(v, places, d) == [s \in Slot |-> IF pc[s] \in places THEN v[s] ELSE d]

\* What the rest of a behaviour depends on: the locals of exit and wait while the
\* function runs, and of a pid whether kill is called with it.
Live ==
  <<state, parent, chan, killed, [s \in Slot |-> pid[s] \in KillPids], lock, cpu, pc,
    Only(np, {"reparent", "wait"}, 0), Only(havekids, {"wait"}, FALSE),
    Only(opar, {"exit_lock", "exit_self", "reparent"}, None), nextpid, kills>>
=============================================================================
