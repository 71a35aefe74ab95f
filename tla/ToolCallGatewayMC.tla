-------------------------- MODULE ToolCallGatewayMC --------------------------
(* Small instances of ToolCallGateway for TLC: see the README.             *)
EXTENDS ToolCallGateway

Deploy(mode, stepUp, results) ==
    [mode |-> mode, stepUp |-> stepUp, policyResults |-> results]

Foreseen == {"allow", "deny", "step_up"}

MCDeployments ==
    { Deploy("proxy", "deny", Foreseen),
      Deploy("http", "absent", Results),
      Deploy("http", "allow", Results),
      Deploy("standalone", "deny", {"step_up", "unrecognised", "throws"}) }
=============================================================================
