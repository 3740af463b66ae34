-------------------------- MODULE MC_PluginProcess --------------------------
(* PluginProcess instantiated for TLC: the constants come from the .cfg.   *)
EXTENDS PluginProcess
=============================================================================
