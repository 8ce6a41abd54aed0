-------------------------------- MODULE MCCpi --------------------------------
(***************************************************************************)
(* Cpi on small instances.                                                 *)
(***************************************************************************)
EXTENDS CpiInvariant, TLC

Symmetry == Permutations(Procs) \cup Permutations(Nets)
=============================================================================
