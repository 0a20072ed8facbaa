----------------------------- MODULE MCCommands -----------------------------
(* Commands on small instances (MCFaults, MCUnblock): addresses and        *)
(* threads are model values.                                               *)
EXTENDS Commands, TLC

WebThreadSymmetry == Permutations(WebThreads)
=============================================================================
