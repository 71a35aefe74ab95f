----------------------------- MODULE SendContract -----------------------------
(* What send() promises its caller: one outcome, final, and if it is an    *)
(* answer, the answer to this call.                                        *)
CONSTANT Calls

VARIABLES
    status,     \* idle, waiting, answered or failed
    answer      \* which request an answer was meant for

contractVars == << status, answer >>

Init ==
    /\ status = [c \in Calls |-> "idle"]
    /\ answer = [c \in Calls |-> "none"]

Request(c) ==
    /\ status[c] = "idle"
    /\ status' = [status EXCEPT ![c] = "waiting"]
    /\ UNCHANGED answer

Refuse(c) ==
    /\ status[c] = "idle"
    /\ status' = [status EXCEPT ![c] = "failed"]
    /\ UNCHANGED answer

Respond(c) ==
    /\ status[c] = "waiting"
    /\ status' = [status EXCEPT ![c] = "answered"]
    /\ answer' = [answer EXCEPT ![c] = c]

(* The exit of the upstream fails every call it was working on. *)
Fail(cs) ==
    /\ \A c \in cs : status[c] = "waiting"
    /\ status' = [c \in Calls |-> IF c \in cs THEN "failed" ELSE status[c]]
    /\ UNCHANGED answer

Next ==
    \/ \E c \in Calls : Request(c) \/ Refuse(c) \/ Respond(c)
    \/ \E cs \in SUBSET Calls : Fail(cs)

Spec == Init /\ [][Next]_contractVars
=============================================================================
