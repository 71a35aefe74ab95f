--------------------------- MODULE ToolCallGateway ---------------------------
(* The path of a tool call through LimeKey, in its three entry points:     *)
(*   "http"        POST /v0/authorize           (src/src/index.ts)         *)
(*   "standalone"  the authorize tool over MCP  (src/src/mcp.ts)           *)
(*   "proxy"       tools/call on its way to an upstream server (mcp.ts)    *)
(* Each call is an async function.  Between two awaits it runs to the end, *)
(* so an action is one such stretch, begun by the event it awaited.  The   *)
(* calls share one FileAuditSink, whose writes interleave.                 *)
EXTENDS Naturals, Sequences

CONSTANTS
    Requests,
    Deployments,        \* see Deployment
    Faults              \* see AuditSink

Results == {"allow", "deny", "step_up", "unrecognised", "throws"}

(* The entry point, whether config.step_up is absent or else what its      *)
(* on_timeout is, and what evaluate() may come to.                         *)
Deployment ==
    [mode          : {"http", "standalone", "proxy"},
     stepUp        : {"absent", "allow", "deny"},
     policyResults : SUBSET Results]

ASSUME ToolCallGatewayAssumption == Deployments \subseteq Deployment

VARIABLES
    deployment,  \* chosen once
    pc,          \* where each request's handler is
    policy,      \* policyResult.decision
    approval,    \* what became of the step-up webhook call
    decision,    \* finalDecision
    reply,       \* what the client was told
    executed,    \* the calls forwarded upstream, or allowed to the client
    stopping,    \* SIGTERM or SIGINT was received
    up, lastHash, state, prevOf, file, openTail, synced, diskTail   \* the sink

callVars == << pc, policy, approval, decision, reply, executed >>
sinkVars == << up, lastHash, state, prevOf, file, openTail, synced, diskTail >>
moving == << callVars, stopping, sinkVars >>
vars == << deployment, moving >>

Mode == deployment.mode
StepUp == deployment.stepUp
PolicyResults == deployment.policyResults

(* A call writes its decision and, when forwarding fails, the failure.     *)
AuditEvents == Requests \X {"decision", "upstream_failure"}
DecisionEvent(r) == << r, "decision" >>
FailureEvent(r)  == << r, "upstream_failure" >>

Sink == INSTANCE AuditSink WITH Events <- AuditEvents, Serialized <- FALSE

ASSUME GatewayFaultsAssumption == Faults \subseteq Sink!FaultKinds

TypeOK ==
    /\ deployment \in Deployments
    /\ pc \in [Requests -> {"idle", "validating", "approving", "auditing", "forwarding",
                            "failureAuditing", "done", "killed", "dropped"}]
    /\ policy \in [Requests -> PolicyResults \cup {"none"}]
    /\ approval \in [Requests -> {"none", "approve", "refuse", "noAnswer"}]
    /\ decision \in [Requests -> {"none", "allow", "deny", "unrecognised"}]
    /\ reply \in [Requests -> {"none", "invalid", "unauthorized", "allowed", "denied",
                               "result", "upstreamError", "serverError", "anonymousError"}]
    /\ executed \in SUBSET Requests
    /\ stopping \in BOOLEAN
    /\ Sink!TypeOK

Init ==
    /\ deployment \in Deployments
    /\ pc = [r \in Requests |-> "idle"]
    /\ policy = [r \in Requests |-> "none"]
    /\ approval = [r \in Requests |-> "none"]
    /\ decision = [r \in Requests |-> "none"]
    /\ reply = [r \in Requests |-> "none"]
    /\ executed = {}
    /\ stopping = FALSE
    /\ Sink!Init

-----------------------------------------------------------------------------
(* What the handlers are built from. *)

Goto(r, place) == pc' = [pc EXCEPT ![r] = place]

Answer(r, what) ==
    /\ Goto(r, "done")
    /\ reply' = [reply EXCEPT ![r] = what]

(* An error nobody caught: Fastify answers the request with a 500, the     *)
(* catch in listenToStdin answers with id null.                            *)
Uncaught(r) ==
    Answer(r, IF Mode = "http" THEN "serverError" ELSE "anonymousError")

(* The call of auditSink.write with the final decision. *)
Decide(r, d) ==
    /\ decision' = [decision EXCEPT ![r] = d]
    /\ Goto(r, "auditing")
    /\ Sink!HashEvent(DecisionEvent(r))

(* Mutation of LetsThrough: every entry point tests for "deny". *)
LetsThroughUndenied(d) == d # "deny"

(* The decisions that let a call through: mcp.ts holds back what it denies *)
(* when proxying, the other two let pass what they allow.                  *)
LetsThrough(d) == IF Mode = "proxy" THEN d # "deny" ELSE d = "allow"

Arrives(r) ==
    /\ up
    /\ pc[r] = "idle"
    /\ ~(Mode = "http" /\ stopping)      \* app.close() accepts no more

-----------------------------------------------------------------------------
(* The handlers. *)

(* The body or params are malformed, or there is no token. *)
RejectRequest(r) ==
    /\ Arrives(r)
    /\ Answer(r, "invalid")
    /\ UNCHANGED << policy, approval, decision, executed, stopping, sinkVars >>

(* tokenValidator.validate is called. *)
AcceptRequest(r) ==
    /\ Arrives(r)
    /\ Goto(r, "validating")
    /\ UNCHANGED << policy, approval, decision, reply, executed, stopping, sinkVars >>

TokenRejected(r) ==
    /\ up
    /\ pc[r] = "validating"
    /\ Answer(r, "unauthorized")
    /\ UNCHANGED << policy, approval, decision, executed, stopping, sinkVars >>

(* validate resolves; the policy is evaluated and its result acted on. *)
EvaluatePolicy(r, result) ==
    /\ up
    /\ pc[r] = "validating"
    /\ policy' = [policy EXCEPT ![r] = result]
    /\ \/ /\ result = "throws"
          /\ Uncaught(r)
          /\ UNCHANGED << decision, sinkVars >>
       \/ /\ result = "step_up" /\ StepUp # "absent"
          /\ Goto(r, "approving")
          /\ UNCHANGED << decision, reply, sinkVars >>
       \/ /\ result = "step_up" /\ StepUp = "absent"
          /\ Decide(r, "deny")
          /\ UNCHANGED reply
       \/ /\ result \in {"allow", "deny", "unrecognised"}
          /\ Decide(r, result)
          /\ UNCHANGED reply
    /\ UNCHANGED << approval, executed, stopping >>

(* Mutation of StepUpSettles: only an approval reassigns finalDecision. *)
StepUpSettlesUndecided(r, answer) ==
    /\ up /\ pc[r] = "approving"
    /\ approval' = [approval EXCEPT ![r] = answer]
    /\ Decide(r, IF answer = "approve" THEN "allow" ELSE policy[r])
    /\ UNCHANGED << policy, reply, executed, stopping >>

(* Mutation of StepUpSettles: only an explicit refusal denies. *)
StepUpSettlesUnlessRefused(r, answer) ==
    /\ up /\ pc[r] = "approving"
    /\ approval' = [approval EXCEPT ![r] = answer]
    /\ Decide(r, IF answer = "refuse" THEN "deny" ELSE "allow")
    /\ UNCHANGED << policy, reply, executed, stopping >>

(* Mutation of StepUpSettles: the webhook call has no timer. *)
StepUpSettlesUntimed(r, answer) ==
    /\ up /\ pc[r] = "approving" /\ answer # "noAnswer"
    /\ approval' = [approval EXCEPT ![r] = answer]
    /\ Decide(r, IF answer = "approve" THEN "allow" ELSE "deny")
    /\ UNCHANGED << policy, reply, executed, stopping >>

(* requestApproval resolves: the webhook answered, or the timer or an      *)
(* error ended the call and on_timeout decides.                            *)
StepUpSettles(r, answer) ==
    /\ up
    /\ pc[r] = "approving"
    /\ approval' = [approval EXCEPT ![r] = answer]
    /\ \/ /\ answer = "approve" \/ (answer = "noAnswer" /\ StepUp = "allow")
          /\ Decide(r, "allow")
       \/ /\ answer = "refuse" \/ (answer = "noAnswer" /\ StepUp = "deny")
          /\ Decide(r, "deny")
    /\ UNCHANGED << policy, reply, executed, stopping >>

(* Mutation of DecisionAudited: the write is not awaited. *)
DecisionAuditedUnawaited(r) ==
    /\ up /\ pc[r] = "auditing"
    /\ IF ~LetsThrough(decision[r])
         THEN Answer(r, "denied") /\ UNCHANGED executed
         ELSE /\ executed' = executed \cup {r}
              /\ IF Mode = "proxy" THEN Goto(r, "forwarding") /\ UNCHANGED reply
                                   ELSE Answer(r, "allowed")
    /\ UNCHANGED << policy, approval, decision, stopping, sinkVars >>

(* The decision is on the disk: deny, allow, or forward.  upstream.send    *)
(* writes the call, or rejects because the upstream is down.               *)
DecisionAudited(r) ==
    /\ pc[r] = "auditing"
    /\ Sink!CloseHandle(DecisionEvent(r))
    /\ \/ /\ ~LetsThrough(decision[r])
          /\ Answer(r, "denied")
          /\ UNCHANGED executed
       \/ /\ LetsThrough(decision[r]) /\ Mode # "proxy"
          /\ Answer(r, "allowed")
          /\ executed' = executed \cup {r}
       \/ /\ LetsThrough(decision[r]) /\ Mode = "proxy"
          /\ Goto(r, "forwarding")
          /\ executed' \in {executed, executed \cup {r}}
          /\ UNCHANGED reply
    /\ UNCHANGED << policy, approval, decision, stopping >>

UpstreamAnswers(r) ==
    /\ up
    /\ pc[r] = "forwarding"
    /\ r \in executed
    /\ Answer(r, "result")
    /\ UNCHANGED << policy, approval, decision, executed, stopping, sinkVars >>

(* upstream.send rejects: the upstream is down, crashed or did not answer. *)
UpstreamFails(r) ==
    /\ pc[r] = "forwarding"
    /\ Goto(r, "failureAuditing")
    /\ Sink!HashEvent(FailureEvent(r))
    /\ UNCHANGED << policy, approval, decision, reply, executed, stopping >>

(* Mutation of FailureAudited: the write of the failure is not awaited. *)
FailureAuditedUnawaited(r) ==
    /\ up /\ pc[r] = "failureAuditing"
    /\ Answer(r, "upstreamError")
    /\ UNCHANGED << policy, approval, decision, executed, stopping, sinkVars >>

FailureAudited(r) ==
    /\ pc[r] = "failureAuditing"
    /\ Sink!CloseHandle(FailureEvent(r))
    /\ Answer(r, "upstreamError")
    /\ UNCHANGED << policy, approval, decision, executed, stopping >>

(* Mutation of AuditRejects: an error of the audit is caught and ignored. *)
AuditRejectsFailOpen(r) ==
    /\ pc[r] = "auditing"
    /\ Sink!RejectWrite(DecisionEvent(r))
    /\ IF LetsThrough(decision[r])
         THEN Answer(r, "result") /\ executed' = executed \cup {r}
         ELSE Answer(r, "denied") /\ UNCHANGED executed
    /\ UNCHANGED << policy, approval, decision, stopping >>

(* auditSink.write rejects and so does the handler. *)
AuditRejects(r) ==
    /\ \/ pc[r] = "auditing" /\ Sink!RejectWrite(DecisionEvent(r))
       \/ pc[r] = "failureAuditing" /\ Sink!RejectWrite(FailureEvent(r))
    /\ Uncaught(r)
    /\ UNCHANGED << policy, approval, decision, executed, stopping >>

(* The stages of write() that no handler sees. *)
WriteProceeds(e) ==
    /\ Sink!AppendLine(e) \/ Sink!ShortWrite(e) \/ Sink!Sync(e)
    /\ UNCHANGED << callVars, stopping >>

-----------------------------------------------------------------------------
(* The end of the process and the next start. *)

Unfinished == {r \in Requests : pc[r] \notin {"idle", "done", "killed", "dropped"}}

LeaveUnfinished(how) ==
    pc' = [r \in Requests |-> IF r \in Unfinished THEN how ELSE pc[r]]

Crash ==
    /\ \/ Sink!Kill
       \/ \E n \in 0..Len(file), torn \in BOOLEAN : Sink!PowerLoss(n, torn)
       \/ Sink!PowerLossInLine
    /\ LeaveUnfinished("killed")
    /\ UNCHANGED << policy, approval, decision, reply, executed, stopping >>

Signal ==
    /\ up
    /\ ~stopping
    /\ stopping' = TRUE
    /\ UNCHANGED << callVars, sinkVars >>

(* shutdown() reaches process.exit.  app.close() has then waited for the   *)
(* calls being answered; in mcp.ts only the upstream is waited for.        *)
Exit ==
    /\ stopping
    /\ Mode = "http" => Unfinished = {}
    /\ Sink!ProcessEnds
    /\ LeaveUnfinished("dropped")
    /\ UNCHANGED << policy, approval, decision, reply, executed, stopping >>

Restart ==
    /\ Sink!InitSink
    /\ stopping' = FALSE
    /\ UNCHANGED callVars

-----------------------------------------------------------------------------
HandlerStep(r) ==
    \/ TokenRejected(r)
    \/ \E result \in PolicyResults : EvaluatePolicy(r, result)
    \/ \E answer \in {"approve", "refuse", "noAnswer"} : StepUpSettles(r, answer)
    \/ DecisionAudited(r)
    \/ UpstreamAnswers(r)
    \/ UpstreamFails(r)
    \/ FailureAudited(r)
    \/ AuditRejects(r)

Next ==
    /\ \/ \E r \in Requests :
             RejectRequest(r) \/ AcceptRequest(r) \/ HandlerStep(r)
       \/ \E e \in AuditEvents : WriteProceeds(e)
       \/ Crash \/ Signal \/ Exit \/ Restart
    /\ UNCHANGED deployment

Spec == Init /\ [][Next]_vars

(* What a handler awaits settles: jose bounds the fetch of the key set,    *)
(* the abort timer the webhook, request_timeout the upstream, and the      *)
(* kernel its file operations.  Nothing obliges an approver or an upstream *)
(* to answer, a client to send, a signal to come or a supervisor to        *)
(* restart the process.                                                    *)
Fairness ==
    /\ \A r \in Requests :
          /\ WF_moving(TokenRejected(r) \/ \E result \in PolicyResults : EvaluatePolicy(r, result))
          /\ WF_moving(StepUpSettles(r, "noAnswer"))
          /\ WF_moving(DecisionAudited(r))
          /\ WF_moving(UpstreamFails(r))
          /\ WF_moving(FailureAudited(r))
    /\ \A e \in AuditEvents : WF_moving(WriteProceeds(e))

FairSpec == Spec /\ Fairness

-----------------------------------------------------------------------------
(* Properties *)

DecisionOnDisk(r) == Sink!OnDisk(DecisionEvent(r))

(* Nothing is let through on the strength of a decision that a crash could *)
(* still erase, nor on any decision but "allow": "durable before call      *)
(* executes" (LIMEKEY_PRE_SHIP_VALIDATION_REPORT.md:87).                   *)
Mediated ==
    \A r \in executed : decision[r] = "allow" /\ DecisionOnDisk(r)

(* A client that was told the outcome can find it in the file, and for a   *)
(* call whose forwarding failed both the decision and the failure.         *)
AnswersAudited ==
    \A r \in Requests :
        /\ reply[r] \in {"allowed", "denied", "result", "upstreamError"} => DecisionOnDisk(r)
        /\ reply[r] = "upstreamError" => Sink!OnDisk(FailureEvent(r))

(* In the file a failure comes after the decision that it reports on,      *)
(* however the writes of other calls are interleaved with the two.         *)
FailureFollowsDecision ==
    \A r \in Requests, i \in 1..Len(file) :
        file[i].event = FailureEvent(r) =>
            \E j \in 1..i : file[j].event = DecisionEvent(r)

(* README.md:191: tools/call is forwarded "only if authorized". *)
ForwardedOnlyIfAuthorized == \A r \in executed : decision[r] = "allow"

(* CHANGELOG.md:32-33: the signal handlers "flush the audit sink".  A call *)
(* that shutdown cut off has its decision, once taken, in the file.        *)
FlushedOnShutdown ==
    \A r \in Requests :
        pc[r] = "dropped" /\ decision[r] # "none" => DecisionOnDisk(r)

(* SPEC.md:118-119: the audit write happens "always, regardless of         *)
(* outcome", an outcome being anything the validated request led to.       *)
EveryOutcomeAudited ==
    \A r \in Requests :
        reply[r] \notin {"none", "invalid"} => state[DecisionEvent(r)] # "new"

(* A call that reached the token check is answered, unless the process     *)
(* ends first.                                                             *)
CallsSettle ==
    \A r \in Requests :
        pc[r] = "validating" ~> pc[r] \in {"done", "killed", "dropped"}

(* The gateway implements the contract: the verdict recorded is the        *)
(* decision whose line is on the disk.                                     *)
Contract == INSTANCE AuthorizationContract
    WITH recorded <- [r \in Requests |-> IF DecisionOnDisk(r) THEN decision[r] ELSE "none"]

ContractHonoured == Contract!Spec

(* The verdict on each of several interleaved calls comes about as for a   *)
(* single one, which Authorization has in detail.                          *)
Verdicts == INSTANCE DecisionContract
    WITH silence <- IF StepUp = "allow" THEN "allow" ELSE "deny",
         place   <- [r \in Requests |->
                        IF pc[r] \in {"idle", "validating", "approving"} THEN pc[r] ELSE "over"]

DecisionsHonoured == Verdicts!Spec
=============================================================================
