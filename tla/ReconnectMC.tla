----------------------------- MODULE ReconnectMC -----------------------------
(* Small instances of Reconnect for TLC: see the README.                   *)
EXTENDS Reconnect, TLC

CallSymmetry == Permutations(Calls)
=============================================================================
