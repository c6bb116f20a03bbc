--------------------------------- MODULE MCVm ---------------------------------
(***************************************************************************)
(* Model-checking instance of Vm.                                          *)
(***************************************************************************)
EXTENDS Vm

\* one segment, and two of which the second ends in the middle of a page
MCPrograms == {<<2>>, <<2, 5>>}

\* less than a page, more than one, and down again, also below zero; and too much
MCDeltas == {1, 4, -1, -3, -9, 31}
==============================================================================
