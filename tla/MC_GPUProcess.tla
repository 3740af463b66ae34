--------------------------- MODULE MC_GPUProcess ---------------------------
(* Instantiation of GPUProcess for TLC: two web processes, the threshold   *)
(* of the code, a window of three ticks and up to three or four GPU crashes.        *)
EXTENDS GPUProcess, TLC

CONSTANTS w1, w2

MC_WebProcs == {w1, w2}
MC_Symmetry == Permutations(MC_WebProcs)
=============================================================================
