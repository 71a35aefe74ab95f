-------------------------- MODULE DecisionContract --------------------------
(* How the verdict on a request comes about, as far as the rest of the     *)
(* gateway can tell: the policy speaks once, an approver is asked only if  *)
(* the policy says so, and the verdict follows from what the two said.     *)
CONSTANT Requests

VARIABLES
    silence,     \* what an approver who was not heard means
    place,       \* idle, validating, approving or over
    policy, approval, decision

decisionVars == << place, policy, approval, decision >>

Init ==
    /\ place = [r \in Requests |-> "idle"]
    /\ policy = [r \in Requests |-> "none"]
    /\ approval = [r \in Requests |-> "none"]
    /\ decision = [r \in Requests |-> "none"]

Accept(r) ==
    /\ place[r] = "idle"
    /\ place' = [place EXCEPT ![r] = "validating"]
    /\ UNCHANGED << policy, approval, decision >>

(* Requests end without a verdict: refused, or cut off with the process. *)
Abandon ==
    /\ \E gone \in SUBSET Requests :
          place' = [r \in Requests |-> IF r \in gone THEN "over" ELSE place[r]]
    /\ UNCHANGED << policy, approval, decision >>

Verdict(r, d) ==
    /\ decision' = [decision EXCEPT ![r] = d]
    /\ place' = [place EXCEPT ![r] = "over"]

Evaluate(r, result) ==
    /\ place[r] = "validating"
    /\ policy' = [policy EXCEPT ![r] = result]
    /\ \/ result \in {"allow", "deny", "unrecognised"} /\ Verdict(r, result)
       \/ result = "step_up" /\ Verdict(r, "deny")
       \/ /\ result = "step_up"
          /\ place' = [place EXCEPT ![r] = "approving"]
          /\ UNCHANGED decision
       \/ /\ result = "throws"
          /\ place' = [place EXCEPT ![r] = "over"]
          /\ UNCHANGED decision
    /\ UNCHANGED approval

Hear(r, answer) ==
    /\ place[r] = "approving"
    /\ approval' = [approval EXCEPT ![r] = answer]
    /\ Verdict(r, CASE answer = "approve"  -> "allow"
                    [] answer = "refuse"   -> "deny"
                    [] answer = "noAnswer" -> silence)
    /\ UNCHANGED policy

Next ==
    /\ \/ Abandon
       \/ \E r \in Requests :
             \/ Accept(r)
             \/ \E result \in {"allow", "deny", "step_up", "unrecognised", "throws"} :
                   Evaluate(r, result)
             \/ \E answer \in {"approve", "refuse", "noAnswer"} : Hear(r, answer)
    /\ UNCHANGED silence

Spec == Init /\ [][Next]_<< silence, decisionVars >>
=============================================================================
