---------------------------- MODULE MCEnforcement ----------------------------
(***************************************************************************)
(* Enforcement on small instances.  Every run gives the constants values   *)
(* of its own (MCRaces, MCFaults, MCUnblock, MCReblock, MCAnswer,          *)
(* MCTwoAlerts); addresses and threads are model values.                   *)
(***************************************************************************)
EXTENDS Enforcement
=============================================================================
