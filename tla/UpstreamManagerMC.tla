-------------------------- MODULE UpstreamManagerMC --------------------------
(* Small instances of UpstreamManager for TLC: see the README.             *)
EXTENDS UpstreamManager, TLC

CallSymmetry == Permutations(Calls)
=============================================================================
