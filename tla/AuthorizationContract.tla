------------------------ MODULE AuthorizationContract ------------------------
(* What the gateway promises of every tool call: its verdict is on the     *)
(* disk before anything acts on it, a verdict never changes once it is     *)
(* there, and only an "allow" is acted on.                                 *)
CONSTANT Requests

VARIABLES
    recorded,    \* the verdict on each request that the disk holds
    executed     \* the requests whose tool call was let through

contractVars == << recorded, executed >>

Verdicts == {"allow", "deny", "unrecognised"}

Init ==
    /\ recorded = [r \in Requests |-> "none"]
    /\ executed = {}

(* One fsync may make the verdicts of several requests durable. *)
Record ==
    /\ recorded' \in [Requests -> Verdicts \cup {"none"}]
    /\ \A r \in Requests : recorded[r] # "none" => recorded'[r] = recorded[r]
    /\ UNCHANGED executed

Execute(r) ==
    /\ recorded[r] = "allow"
    /\ executed' = executed \cup {r}
    /\ UNCHANGED recorded

Next == Record \/ \E r \in Requests : Execute(r)

Spec == Init /\ [][Next]_contractVars
=============================================================================
