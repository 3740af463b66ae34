----------------------- MODULE MC_ProcessSideChannels -----------------------
(* ProcessSideChannels instantiated for TLC, with symmetry.                  *)
EXTENDS ProcessSideChannels, TLC

Symmetry == Permutations(Procs) \union Permutations(Stores) \union Permutations(Domains)
=============================================================================
