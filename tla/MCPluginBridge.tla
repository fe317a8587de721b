--------------------------- MODULE MCPluginBridge ---------------------------
(* The lane or the worker, and two exchanges at a time. *)
EXTENDS PluginBridge, TLC

CONSTANTS c1, c2

MCAmount == {0, 1}
MCSymmetry == Permutations({c1, c2})
=============================================================================
