------------------------------- MODULE MCPipe -------------------------------
(* Model-checking instance of Pipe: the constants are given in the .cfg files. *)
EXTENDS Pipe
=============================================================================
