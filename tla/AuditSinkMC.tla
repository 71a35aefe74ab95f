----------------------------- MODULE AuditSinkMC -----------------------------
(* Small instances of AuditSink for TLC: see the README for each run.      *)
EXTENDS AuditSink, TLC

EventSymmetry == Permutations(Events)
=============================================================================
