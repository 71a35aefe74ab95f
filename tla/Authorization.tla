---------------------------- MODULE Authorization ----------------------------
(* What a tool call goes through until it is decided, in detail: the       *)
(* configuration the gateway booted with, the check of the token, the      *)
(* rules, and the approver (src/src/index.ts, and src/src/mcp.ts alike).   *)
(* Calls share nothing on this path but what was read at boot, so one call *)
(* is followed; ToolCallGateway has the interleaving of several.           *)
EXTENDS Configuration, TokenValidation, PolicyEngine, Sequences, Integers

CONSTANTS
    Files,               \* configuration files
    RuleFiles,           \* what policy.source holds: rules, or {} if unreadable
    Calls,               \* [token, tool, arguments, session_id]
    TimerMax, TransportTimeout, MaxClock     \* see StepUpWebhook

ASSUME AuthorizationAssumption ==
    /\ TimerMax \in Nat /\ TransportTimeout \in Nat \ {0}
    /\ MaxClock \in Nat /\ MaxClock > TimerMax

(* A field that may be missing has one value at most; what should be a     *)
(* number and is none counts as 0.                                         *)
Optional(field) == \A v, w \in field : v = w

ASSUME InputsAssumption ==
    /\ \A f \in Files :
          /\ Optional(f.step_up)
          /\ \A s \in f.step_up :
                /\ Optional(s.on_timeout)
                /\ \A t \in s.timeout_seconds :
                      t.value \in Int /\ (t.kind # "number" => t.value = 0)
    /\ \A r \in RuleFiles :
          /\ Optional(r)
          /\ \A list \in r :
                /\ list \in Seq(Range(list))
                /\ \A rule \in Range(list) :
                      rule.effect \in {"allow", "deny", "step_up", "unrecognised"}

VARIABLES
    file, rules, call,   \* chosen once
    config,              \* what loadConfig returned, if it did
    stage,               \* booting, exited, ready, validating, approving, over
    policyResult,
    decision,            \* finalDecision
    webhook, clock, abortAt, transportAt, heard, ended, approval

chosen == << file, rules, call >>
webhookVars == << webhook, clock, abortAt, transportAt, heard, ended, approval >>
moving == << config, stage, policyResult, decision, webhookVars >>
vars == << chosen, moving >>

Config == CHOOSE c \in config : TRUE

StepUp == CHOOSE s \in Config.step_up : TRUE

(* The arguments of the constructor.  A URL that is not there is passed on *)
(* as it is.                                                               *)
Provider ==
    [webhook_url     |-> "step_up.webhook_url" \in Config.given,
     timeout_seconds |-> StepUp.timeout_seconds,
     on_timeout      |-> StepUp.on_timeout,
     webhook_secret  |-> StepUp.webhook_secret]

SU == INSTANCE StepUpWebhook WITH provider <- Provider

Decisions == {"allow", "deny", "unrecognised"}

TypeOK ==
    /\ file \in Files /\ rules \in RuleFiles /\ call \in Calls
    /\ config \subseteq {ApplyDefaults(file)}
    /\ stage \in {"booting", "exited", "ready", "validating", "approving", "over"}
    /\ policyResult.decision \in Decisions \cup {"none", "step_up", "throws"}
    /\ decision \in Decisions \cup {"none"}
    /\ SU!TypeOK

Init ==
    /\ file \in Files /\ rules \in RuleFiles /\ call \in Calls
    /\ config = {}
    /\ stage = "booting"
    /\ policyResult = [decision |-> "none", matchedRule |-> "none"]
    /\ decision = "none"
    /\ SU!Init

-----------------------------------------------------------------------------
(* loadConfig, the YAML of the rules and, in start(), the directory of the *)
(* audit file are read; any of them may end the process.                   *)
Boot ==
    /\ stage = "booting"
    /\ config' = LoadConfig(file)
    /\ stage' = IF config' # {} /\ rules # {} /\ "audit.path" \in file.given
                  THEN "ready" ELSE "exited"
    /\ UNCHANGED << policyResult, decision, webhookVars >>

(* A request that is well formed and brings a token. *)
Arrive ==
    /\ stage = "ready"
    /\ stage' = "validating"
    /\ UNCHANGED << config, policyResult, decision, webhookVars >>

Options == ValidatorOptions(Config.identity)

Refused == Refusal(call.token, call.session_id, Options, 0) # "none"

TokenRejected ==
    /\ stage = "validating"
    /\ Refused
    /\ stage' = "over"
    /\ UNCHANGED << config, policyResult, decision, webhookVars >>

(* buildAuthorizationRequest *)
Request ==
    [agentId |-> AgentId(call.token, Options), sub |-> Principal(call.token),
     tool |-> call.tool, arguments |-> call.arguments]

Rules == CHOOSE list \in rules : TRUE

EvaluatePolicy(slow) ==
    /\ stage = "validating"
    /\ ~Refused
    /\ policyResult' = Evaluate(Rules, Request, slow)
    /\ \/ /\ policyResult'.decision = "step_up" /\ Config.step_up # {}
          /\ SU!RequestApproval
          /\ stage' = "approving"
          /\ UNCHANGED decision
       \/ /\ policyResult'.decision = "step_up" /\ Config.step_up = {}
          /\ decision' = "deny"
          /\ stage' = "over"
          /\ UNCHANGED webhookVars
       \/ /\ policyResult'.decision \in Decisions
          /\ decision' = policyResult'.decision
          /\ stage' = "over"
          /\ UNCHANGED webhookVars
       \/ /\ policyResult'.decision = "throws"
          /\ stage' = "over"
          /\ UNCHANGED << decision, webhookVars >>
    /\ UNCHANGED config

Meanwhile ==
    /\ stage = "approving"
    /\ UNCHANGED << config, stage, policyResult, decision >>

WebhookProceeds == SU!Wait /\ Meanwhile

(* Mutation of StepUpSettles: only an approval reassigns finalDecision. *)
StepUpSettlesUndecided ==
    /\ stage = "approving" /\ webhook = "settled"
    /\ decision' = IF SU!Approved(approval) THEN "allow" ELSE policyResult.decision
    /\ stage' = "over"
    /\ UNCHANGED << config, policyResult, webhookVars >>

(* Mutation of StepUpSettles: any outcome but "denied" lets the call pass. *)
StepUpSettlesUnlessDenied ==
    /\ stage = "approving" /\ webhook = "settled"
    /\ decision' = IF approval = "refuse" THEN "deny" ELSE "allow"
    /\ stage' = "over"
    /\ UNCHANGED << config, policyResult, webhookVars >>

(* requestApproval has resolved. *)
StepUpSettles ==
    /\ stage = "approving"
    /\ webhook = "settled"
    /\ decision' = IF SU!Approved(approval) THEN "allow" ELSE "deny"
    /\ stage' = "over"
    /\ UNCHANGED << config, policyResult, webhookVars >>

Next ==
    /\ \/ Boot \/ Arrive \/ TokenRejected \/ WebhookProceeds \/ StepUpSettles
       \/ \E slow \in SUBSET UNION {Patterns(list) : list \in rules} : EvaluatePolicy(slow)
    /\ UNCHANGED chosen

Spec == Init /\ [][Next]_vars

(* Timers fire and what was awaited goes on; nobody has to answer.         *)
Fairness ==
    /\ WF_moving(TokenRejected)
    /\ WF_moving(\E slow \in SUBSET UNION {Patterns(list) : list \in rules} :
                    EvaluatePolicy(slow))
    /\ WF_moving(SU!Tick /\ Meanwhile)
    /\ WF_moving(SU!TimerEnds /\ Meanwhile)
    /\ WF_moving(StepUpSettles)

FairSpec == Spec /\ Fairness

-----------------------------------------------------------------------------
(* Properties *)

(* The agent that the token names, in the claim that the file gives.       *)
Agent == call.token.named[OrElse(file.agent_id_claim, "agent_id")]

(* A call is allowed only in the session that its token is bound to, and   *)
(* by a rule that, given all the time it needs, matches the call of that   *)
(* agent and says allow, or step_up to an approver who agreed: not by a    *)
(* pattern that is slow or broken, and not by a rule for another agent.    *)
(* An earlier rule that matches too is passed over only if its pattern is  *)
(* run and may time out, never if it spells the tool out or gives none.    *)
AllowedByRule ==
    decision = "allow" =>
        /\ \A s \in call.token.session_id : call.session_id = {s}
        /\ \E i \in DOMAIN Rules :
              /\ Matches(Rules[i], [Request EXCEPT !.agentId = Agent], {})
              /\ \/ Rules[i].effect = "allow"
                 \/ Rules[i].effect = "step_up" /\ SU!Approved(approval)
              /\ \A j \in 1..(i - 1) :
                    Matches(Rules[j], [Request EXCEPT !.agentId = Agent], {}) =>
                        \E pattern \in Rules[j].tool_name :
                            pattern.script /\ pattern.text # call.tool

(* Unless the file says on_timeout: allow, only an approval that was heard *)
(* lets a step_up pass, and with a secret only one signed for this very    *)
(* request: not after a timeout, an error or a default.  An empty secret   *)
(* is none.                                                                *)
ExplicitApproval ==
    decision = "allow" /\ policyResult.decision = "step_up" =>
        \A s \in file.step_up :
            \/ s.on_timeout = {"allow"}
            \/ /\ heard.outcome = "approved"
               /\ s.webhook_secret \ {""} # {} =>
                      heard.nonce = "own" /\ heard.signature = "own"

(* The approver has the time that was configured, as long as setTimeout    *)
(* can count it and undici has the patience.                               *)
ApproverHasTime ==
    ended = "timer" /\ Provider.timeout_seconds.value <= TimerMax =>
        clock >= Provider.timeout_seconds.value \/ clock >= TransportTimeout

(* The token is checked before the approver is asked and not again after:  *)
(* when the call is let through, that check is at most as old as the       *)
(* configured timeout, however slowly the answer trickles in.              *)
DecisionFresh ==
    decision = "allow" /\ policyResult.decision = "step_up" =>
        clock <= Provider.timeout_seconds.value

(* A call that reached the token check is decided on or turned away.       *)
CallEnds == stage = "validating" ~> stage = "over"

(* SPEC.md:80-81: policies are "evaluated in order; first match wins".     *)
FirstMatchWins ==
    policyResult.decision # "none" => policyResult = Evaluate(Rules, Request, {})

(* SPEC.md:84-85: a step-up "notifies a human" and "waits".                *)
ApproverAsked ==
    decision = "allow" /\ policyResult.decision = "step_up" => Provider.webhook_url

(* SPEC.md:151: timeout_seconds is how long it waits.                      *)
TimeConfigured == ended = "timer" => clock >= Provider.timeout_seconds.value

(* Seen from outside, the verdict comes about as the rest of the gateway   *)
(* is modelled to rely on.                                                 *)
Contract == INSTANCE DecisionContract WITH
    Requests <- {"call"},
    silence  <- IF \E s \in file.step_up : s.on_timeout = {"allow"} THEN "allow" ELSE "deny",
    place    <- [r \in {"call"} |->
                    CASE stage \in {"booting", "exited", "ready"} -> "idle"
                      [] OTHER -> stage],
    policy   <- [r \in {"call"} |-> policyResult.decision],
    approval <- [r \in {"call"} |-> IF decision = "none" THEN "none" ELSE approval],
    decision <- [r \in {"call"} |-> decision]

DecisionsHonoured == Contract!Spec
=============================================================================
