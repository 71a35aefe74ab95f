--------------------------- MODULE AuditVerifierMC ---------------------------
(* A small instance of AuditVerifier for TLC: a call with a step-up, the   *)
(* answer to it, and one without.  The foreign lines are one that starts a *)
(* chain of its own and one that claims to follow a single event.          *)
EXTENDS AuditVerifier

Plain    == [core |-> "c1", stepUp |-> "null"]
Approved == [core |-> "c2", stepUp |-> "approved"]
Denied   == [core |-> "c2", stepUp |-> "denied"]

MCEvents == {Plain, Approved, Denied}

MCForeignLines ==
    {HashedLine(Denied, Chain!Genesis), HashedLine(Denied, << ContentToHash(Plain) >>)}
=============================================================================
