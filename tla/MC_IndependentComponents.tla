---------------------- MODULE MC_IndependentComponents ----------------------
(* IndependentComponents instantiated for TLC: the constants come from    *)
(* the .cfg.                                                              *)
EXTENDS IndependentComponents
=============================================================================
