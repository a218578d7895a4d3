-------------------------- MODULE MCPluginRuntime --------------------------
(* PluginRuntime for TLC; the bounds are given in the .cfg files.          *)
EXTENDS PluginRuntime
=============================================================================
