------------------------ MODULE MC_CompositingRunLoop ------------------------
(* Instantiation of CompositingRunLoop for TLC: up to four tasks, a frame *)
(* of two ticks and a clock of five ticks.                                 *)
EXTENDS CompositingRunLoop
=============================================================================
