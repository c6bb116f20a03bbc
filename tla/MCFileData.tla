------------------------------ MODULE MCFileData ------------------------------
(***************************************************************************)
(* Model-checking instance of FileData: two processes, each with a file    *)
(* open, on the same inode or on two.                                      *)
(***************************************************************************)
EXTENDS FileData

CONSTANTS p1, f1

\* A file has two direct and two indirect blocks of two cells; a chunk is one
\* block, so that a write that is not aligned takes two.
MCSrc == [p \in Proc |-> IF p = p1 THEN <<11, 12, 13, 14, 15, 16, 17>> ELSE <<21, 22, 23>>]

MCInit == Init /\ file[p1].ip = f1

MCSpec == MCInit /\ [][Next]_vars
==============================================================================
