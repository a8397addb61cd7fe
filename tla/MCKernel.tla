-------------------------------- MODULE MCKernel --------------------------------
(* Kernel for TLC: one load list for each case that MAX_MODS = 2 slots and two  *)
(* libraries tell apart.  A line names a first or a second library; a broken    *)
(* one does what a library that cannot be opened does; a third is not read.     *)
EXTENDS Kernel

CONSTANTS a, b

MCLoadLists ==
  {<< >>, <<Broken>>, <<a, a>>, <<a, b>>, <<a, Comment>>, <<Comment, a>>,
   <<Comment, Comment, a>>}
===============================================================================
