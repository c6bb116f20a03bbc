-------------------------------- MODULE MCBio --------------------------------
(* Model-checking instance of Bio. *)
EXTENDS Bio
==============================================================================
