------------------------- MODULE AuthorizationProofs -------------------------
(* Theorems about Authorization, for every configuration file, every list  *)
(* of rules, every call and every length of the timers.                    *)
EXTENDS Authorization, WellFoundedInduction, TLAPS

-----------------------------------------------------------------------------
(* The operators the model is built from *)

(* A set of natural numbers has a least member. *)
LEMMA LeastElement ==
    ASSUME NEW T, T \subseteq Nat, T # {}
    PROVE  Min(T) \in T /\ \A y \in T : Min(T) =< y
  <1>1. PICK x \in T : \A y \in T : ~(<< y, x >> \in OpToRel(<, Nat))
    BY NatLessThanWellFounded, WFMin
  <1>2. \A y \in T : ~(y < x)
    <2> SUFFICES ASSUME NEW y \in T, y < x
                 PROVE  FALSE
      OBVIOUS
    <2>1. << y, x >> \in OpToRel(<, Nat)
      BY DEF OpToRel
    <2> QED
      BY <1>1, <2>1
  <1>3. \E z \in T : \A y \in T : z =< y
    BY <1>2
  <1> QED
    BY <1>3 DEF Min

(* evaluate() takes its verdict from a rule, unless it is the default or   *)
(* an exception, and no rule before that one matched.                      *)
LEMMA EvaluateFromRule ==
    ASSUME NEW list, list \in Seq(Range(list)), NEW request, NEW slow,
           \A rule \in Range(list) :
              rule.effect \in {"allow", "deny", "step_up", "unrecognised"}
    PROVE  LET verdict == Evaluate(list, request, slow).decision IN
           /\ verdict \in Decisions \cup {"step_up", "throws"}
           /\ verdict \notin {"deny", "throws"} =>
                 \E i \in DOMAIN list :
                    /\ Matches(list[i], request, slow) /\ list[i].effect = verdict
                    /\ \A j \in 1..(i - 1) : ~Matches(list[j], request, slow)
  <1> DEFINE I == {i \in 1..Len(list) : list[i].broken \/ Matches(list[i], request, slow)}
             k == IF I # {} THEN Min(I) ELSE 0
  <1>1. Len(list) \in Nat /\ DOMAIN list = 1..Len(list)
    OBVIOUS
  <1>2. I \subseteq Nat
    BY <1>1
  <1>3. I # {} => Min(I) \in I
    <2> HIDE DEF I
    <2> QED
      BY <1>2, LeastElement
  <1>4. k = 0 \/ (k \in 1..Len(list) /\ (list[k].broken \/ Matches(list[k], request, slow)))
    BY <1>3
  <1>9. ASSUME k # 0, NEW j \in 1..(k - 1)
        PROVE  ~Matches(list[j], request, slow)
    <2>1. j \in I => k =< j
      <3> HIDE DEF I
      <3> QED
        BY <1>2, <1>9, LeastElement
    <2>2. j \in 1..Len(list) /\ ~(k =< j)
      <3> DEFINE n == Len(list)
      <3>1. n \in Nat /\ k \in 1..n
        BY <1>1, <1>4, <1>9
      <3> HIDE DEF n, k
      <3> QED
        BY <1>9, <3>1 DEF n
    <2> QED
      BY <2>1, <2>2
  <1>5. SelectInSeq(list, LAMBDA rule : rule.broken \/ Matches(rule, request, slow)) = k
    BY DEF SelectInSeq
  <1> HIDE DEF k
  <1>6. Evaluate(list, request, slow) =
           IF k = 0 THEN [decision |-> "deny", matchedRule |-> "default"]
           ELSE IF list[k].broken THEN [decision |-> "throws", matchedRule |-> "none"]
           ELSE [decision |-> list[k].effect, matchedRule |-> list[k].name]
    BY <1>5 DEF Evaluate
  <1>7. CASE k = 0
    BY <1>6, <1>7 DEF Decisions
  <1>8. CASE k # 0
    <2>1. k \in DOMAIN list /\ list[k] \in Range(list)
      BY <1>1, <1>4, <1>8 DEF Range
    <2>2. CASE list[k].broken
      BY <1>6, <1>8, <2>2 DEF Decisions
    <2>3. CASE ~list[k].broken
      <3>1. Matches(list[k], request, slow)
        BY <1>4, <1>8, <2>3
      <3>2. Evaluate(list, request, slow).decision = list[k].effect
        BY <1>6, <1>8, <2>3
      <3> QED
        BY <1>8, <1>9, <2>1, <3>1, <3>2 DEF Decisions
    <2> QED
      BY <2>2, <2>3
  <1> QED
    BY <1>7, <1>8

(* A rule that matches within 50 ms matches with all the time it needs. *)
LEMMA MatchesMonotonic ==
    ASSUME NEW rule, NEW request, NEW slow, Matches(rule, request, slow)
    PROVE  Matches(rule, request, {})
  BY DEF Matches, ToolMatches

(* Only a rule whose pattern is run can fail to match for want of time. *)
LEMMA PassedOver ==
    ASSUME NEW rule, NEW request, NEW slow,
           Matches(rule, request, {}), ~Matches(rule, request, slow)
    PROVE  \E pattern \in rule.tool_name : pattern.script /\ pattern.text # request.tool
  BY DEF Matches, ToolMatches

(* A token that passes every check is bound to the session of the call. *)
LEMMA AcceptedIsBound ==
    ASSUME NEW token, NEW sessionId, NEW options, NEW now,
           Refusal(token, sessionId, options, now) = "none"
    PROVE  SessionBound(token, sessionId)
  <1> SUFFICES ASSUME ~SessionBound(token, sessionId)
               PROVE  FALSE
    OBVIOUS
  <1> DEFINE cs == Checks(token, sessionId, options, now)
             I == {i \in 1..Len(cs) : ~cs[i].holds}
  <1>1. /\ Len(cs) = 4
        /\ cs[4].holds = SessionBound(token, sessionId)
        /\ \A i \in 1..4 : cs[i].code \in {"invalid_signature", "wrong_resource", "missing_agent_id"}
    BY DEF Checks
  <1> HIDE DEF cs
  <1>2. I \subseteq 1..4 /\ I \subseteq Nat /\ 4 \in I
    BY <1>1
  <1>3. SelectInSeq(cs, LAMBDA check : ~check.holds) = IF I # {} THEN Min(I) ELSE 0
    BY DEF SelectInSeq
  <1> HIDE DEF I
  <1>4. Min(I) \in I
    BY <1>2, LeastElement
  <1>5. Min(I) \in 1..4
    BY <1>2, <1>4
  <1>6. Refusal(token, sessionId, options, now) = cs[Min(I)].code
    BY <1>2, <1>3, <1>5 DEF Refusal, cs
  <1> QED
    BY <1>1, <1>5, <1>6

-----------------------------------------------------------------------------
(* The invariant *)

Loaded == config = {ApplyDefaults(file)} /\ Valid(ApplyDefaults(file)) /\ rules # {}

Asked == policyResult.decision = "step_up" /\ Config.step_up # {}

(* Past the boot there is a valid configuration, and there are rules.      *)
BootInv ==
    /\ file \in Files /\ rules \in RuleFiles /\ call \in Calls
    /\ stage \in {"booting", "exited", "ready", "validating", "approving", "over"}
    /\ config \subseteq {ApplyDefaults(file)}
    /\ stage \notin {"booting", "exited"} => Loaded

(* The policy has spoken on a token that passed, with some of the patterns *)
(* slow, and an "allow" is its own or that of the approver it asked for.   *)
VerdictInv ==
    /\ decision \in Decisions \cup {"none"}
    /\ policyResult.decision \in Decisions \cup {"none", "step_up", "throws"}
    /\ stage \notin {"approving", "over"} => policyResult.decision = "none"
    /\ stage # "over" => decision = "none"
    /\ policyResult.decision # "none" =>
          /\ ~Refused
          /\ \E slow \in SUBSET UNION {Patterns(list) : list \in rules} :
                policyResult = Evaluate(Rules, Request, slow)
    /\ decision = "allow" =>
          \/ policyResult.decision = "allow"
          \/ Asked /\ webhook = "settled" /\ SU!Approved(approval)

(* The clock of the approval has not run past the timer it was given, and  *)
(* what it rests on is what was read.                                      *)
WebhookInv ==
    /\ SU!TypeOK
    /\ stage \notin {"approving", "over"} => webhook = "idle"
    /\ stage = "approving" => webhook # "idle"
    /\ webhook = "idle" => SU!Init
    /\ webhook # "idle" =>
          /\ Asked /\ stage \in {"approving", "over"}
          /\ abortAt \in {0, SU!TimerDelay(Provider.timeout_seconds)}
          /\ clock <= abortAt
    /\ webhook # "settled" => ended = "none" /\ approval = "none" /\ heard = SU!Unread
    /\ webhook \in {"sent", "reading"} \/ ended = "timer" =>
          /\ abortAt = SU!TimerDelay(Provider.timeout_seconds)
          /\ transportAt >= TransportTimeout
    /\ webhook = "settled" =>
          /\ approval \in {"approve", "refuse", "noAnswer"}
          /\ approval = "approve" => heard \in SU!Bodies /\ SU!Reading(heard) = "approve"
          /\ ended = "timer" => SU!Due

AuthorizationInv == BootInv /\ VerdictInv /\ WebhookInv

-----------------------------------------------------------------------------
(* What the invariant says of the configuration *)

LEMMA LoadedConfig ==
    ASSUME Loaded
    PROVE  Config = ApplyDefaults(file)
  BY DEF Loaded, Config

LEMMA RulesOfFile ==
    ASSUME BootInv, Loaded
    PROVE  /\ rules = {Rules}
           /\ Rules \in Seq(Range(Rules))
           /\ \A rule \in Range(Rules) :
                 rule.effect \in {"allow", "deny", "step_up", "unrecognised"}
  <1>1. rules # {} /\ \A v, w \in rules : v = w
    BY InputsAssumption DEF BootInv, Loaded, Optional
  <1>2. rules = {Rules}
    BY <1>1 DEF Rules
  <1> QED
    BY <1>2, InputsAssumption DEF BootInv

(* The provider was made of the one section on step-up there is, and its   *)
(* timeout is a number of minutes, or counts as none.                      *)
LEMMA ProviderOfFile ==
    ASSUME BootInv, Loaded, Config.step_up # {}
    PROVE  \E s \in file.step_up :
              /\ file.step_up = {s}
              /\ StepUp = StepUpDefaults(s)
              /\ StepUp.timeout_seconds.value \in Nat
              /\ StepUp.timeout_seconds.kind # "number" => StepUp.timeout_seconds.value = 0
  <1>1. Config.step_up = {StepUpDefaults(s) : s \in file.step_up}
    BY LoadedConfig DEF ApplyDefaults
  <1>2. PICK s \in file.step_up : TRUE
    BY <1>1
  <1>3. file.step_up = {s}
    BY <1>2, InputsAssumption DEF BootInv, Optional
  <1>4. Config.step_up = {StepUpDefaults(s)}
    BY <1>1, <1>3
  <1>5. StepUp = StepUpDefaults(s)
    BY <1>4 DEF StepUp
  <1>6. StepUp.timeout_seconds = OrElse(s.timeout_seconds, Number(2))
    BY <1>5 DEF StepUpDefaults
  <1>7. /\ StepUp.timeout_seconds.value \in Int
        /\ StepUp.timeout_seconds.kind # "number" => StepUp.timeout_seconds.value = 0
    <2>1. CASE s.timeout_seconds = {}
      BY <1>6, <2>1 DEF OrElse, Number
    <2>2. CASE s.timeout_seconds # {}
      <3>1. StepUp.timeout_seconds \in s.timeout_seconds
        BY <1>6, <2>2 DEF OrElse
      <3> QED
        BY <1>2, <3>1, InputsAssumption DEF BootInv
    <2> QED
      BY <2>1, <2>2
  <1>8. IsPositive(StepUp.timeout_seconds)
    BY <1>4, <1>5, LoadedConfig DEF Loaded, Valid
  <1> QED
    BY <1>2, <1>3, <1>5, <1>7, <1>8 DEF IsPositive

(* What was read at boot does not change. *)
LEMMA Fixed ==
    ASSUME UNCHANGED chosen, UNCHANGED config
    PROVE  /\ Config' = Config /\ Rules' = Rules /\ Request' = Request
           /\ Provider' = Provider
           /\ Refused' = Refused
           /\ Loaded' = Loaded
  <1>1. Config' = Config /\ Rules' = Rules
    BY DEF chosen, Config, Rules
  <1>2. Provider' = Provider
    BY <1>1 DEF Provider, StepUp
  <1>3. Request' = Request /\ Refused' = Refused
    BY <1>1 DEF chosen, Request, Refused, Options
  <1>4. Loaded' = Loaded
    BY DEF chosen, Loaded
  <1> QED
    BY <1>1, <1>2, <1>3, <1>4

-----------------------------------------------------------------------------
(* Every step keeps the invariant. *)

LEMMA InvInit == Init => AuthorizationInv
  <1> SUFFICES ASSUME Init
               PROVE  AuthorizationInv
    OBVIOUS
  <1>1. BootInv /\ VerdictInv
    BY DEF Init, BootInv, VerdictInv
  <1>2. WebhookInv
    BY AuthorizationAssumption DEF Init, WebhookInv, SU!Init, SU!TypeOK
  <1> QED
    BY <1>1, <1>2 DEF AuthorizationInv

LEMMA BootInvNext == BootInv /\ [Next]_vars => BootInv'
  <1> SUFFICES ASSUME BootInv, [Next]_vars
               PROVE  BootInv'
    OBVIOUS
  <1> USE DEF BootInv
  <1>1. CASE Boot /\ UNCHANGED chosen
    <2>1. /\ config' \subseteq {ApplyDefaults(file)}
          /\ config' # {} => config' = {ApplyDefaults(file)} /\ Valid(ApplyDefaults(file))
      BY <1>1 DEF Boot, LoadConfig
    <2>2. stage' \in {"ready", "exited"} /\ (stage' = "ready" => config' # {} /\ rules # {})
      BY <1>1 DEF Boot
    <2>3. UNCHANGED << file, rules, call >>
      BY <1>1 DEF chosen
    <2> QED
      BY <2>1, <2>2, <2>3 DEF Loaded
  <1>2. ASSUME UNCHANGED chosen, UNCHANGED config, stage \notin {"booting", "exited"},
               stage' \in {"ready", "validating", "approving", "over"}
        PROVE  BootInv'
    BY <1>2 DEF chosen, Loaded
  <1>3. CASE Arrive /\ UNCHANGED chosen
    BY <1>2, <1>3 DEF Arrive
  <1>4. CASE TokenRejected /\ UNCHANGED chosen
    BY <1>2, <1>4 DEF TokenRejected
  <1>5. CASE WebhookProceeds /\ UNCHANGED chosen
    BY <1>2, <1>5 DEF WebhookProceeds, Meanwhile
  <1>6. CASE StepUpSettles /\ UNCHANGED chosen
    BY <1>2, <1>6 DEF StepUpSettles
  <1>7. ASSUME NEW slow, EvaluatePolicy(slow), UNCHANGED chosen
        PROVE  BootInv'
    BY <1>2, <1>7 DEF EvaluatePolicy
  <1>8. CASE UNCHANGED vars
    BY <1>8 DEF vars, chosen, moving, Loaded
  <1> QED
    BY <1>1, <1>3, <1>4, <1>5, <1>6, <1>7, <1>8 DEF Next

(* What the approval waits for, step by step. *)
LEMMA WaitKeeps ==
    ASSUME WebhookInv, SU!Wait, stage = "approving", UNCHANGED chosen,
           UNCHANGED << config, stage, policyResult >>
    PROVE  WebhookInv'
  <1>1. Provider' = Provider /\ Asked' = Asked
    BY Fixed DEF Asked
  <1>2. TransportTimeout \in Nat \ {0} /\ MaxClock \in Nat
    BY AuthorizationAssumption
  <1>3. webhook \in {"sent", "reading"}
    BY DEF SU!Wait, SU!HeadersArrive, SU!BodyProgresses, SU!RequestFails, SU!TimerEnds,
           SU!Tick, SU!BodyEnds
  <1>4. /\ clock \in 0..MaxClock /\ abortAt \in Nat /\ transportAt \in Nat
        /\ heard = SU!Unread /\ ended = "none" /\ approval = "none"
        /\ Asked /\ clock <= abortAt
        /\ abortAt = SU!TimerDelay(Provider.timeout_seconds)
        /\ transportAt >= TransportTimeout
    BY <1>3 DEF WebhookInv, SU!TypeOK
  <1>5. ASSUME webhook' \in {"sent", "reading"}, clock' \in 0..MaxClock, clock' <= abortAt,
               transportAt' \in Nat, transportAt' >= TransportTimeout,
               UNCHANGED << abortAt, heard, ended, approval >>
        PROVE  WebhookInv'
    BY <1>1, <1>4, <1>5 DEF WebhookInv, SU!TypeOK
  <1>6. ASSUME NEW how \in {"answer", "error", "timer"},
               NEW answer \in {"approve", "refuse", "noAnswer"}, SU!Settle(how, answer),
               heard' \in SU!Bodies \cup {SU!Unread},
               answer = "approve" => heard' \in SU!Bodies /\ SU!Reading(heard') = "approve",
               how = "timer" => SU!Due
        PROVE  WebhookInv'
    <2>1. /\ webhook' = "settled" /\ ended' = how /\ approval' = answer
          /\ UNCHANGED << clock, abortAt, transportAt >>
      BY <1>6 DEF SU!Settle
    <2>2. SU!TypeOK'
      BY <1>4, <1>6, <2>1 DEF SU!TypeOK
    <2>3. answer = "approve" => SU!Reading(heard)'= "approve"
      BY <1>1, <1>6 DEF SU!Reading, SU!Secret
    <2>4. how = "timer" => SU!Due'
      BY <1>6, <2>1 DEF SU!Due
    <2> QED
      BY <1>1, <1>4, <1>6, <2>1, <2>2, <2>3, <2>4 DEF WebhookInv
  <1>7. CASE SU!HeadersArrive \/ SU!BodyProgresses
    <2>1. /\ webhook' \in {"sent", "reading"} /\ transportAt' = clock + TransportTimeout
          /\ UNCHANGED << clock, abortAt, heard, ended, approval >>
      BY <1>7 DEF SU!HeadersArrive, SU!BodyProgresses
    <2>2. transportAt' \in Nat /\ transportAt' >= TransportTimeout
      BY <1>2, <1>4, <2>1
    <2> QED
      BY <1>4, <1>5, <2>1, <2>2
  <1>8. CASE SU!Tick
    <2>1. /\ ~SU!Due /\ clock < MaxClock /\ clock' = clock + 1
          /\ UNCHANGED << webhook, abortAt, transportAt, heard, ended, approval >>
      BY <1>8 DEF SU!Tick
    <2>2. clock' \in 0..MaxClock /\ clock' <= abortAt
      BY <1>2, <1>4, <2>1 DEF SU!Due
    <2> QED
      BY <1>3, <1>4, <1>5, <2>1, <2>2
  <1>9. CASE SU!RequestFails
    BY <1>4, <1>6, <1>9 DEF SU!RequestFails
  <1>10. CASE SU!TimerEnds
    BY <1>4, <1>6, <1>10 DEF SU!TimerEnds
  <1>11. ASSUME NEW body \in SU!Bodies, SU!BodyEnds(body)
         PROVE  WebhookInv'
    <2>1. SU!Reading(body) \in {"approve", "refuse", "noAnswer"}
      BY DEF SU!Reading
    <2> QED
      BY <1>6, <1>11, <2>1 DEF SU!BodyEnds
  <1> QED
    BY <1>7, <1>8, <1>9, <1>10, <1>11 DEF SU!Wait

LEMMA RequestKeeps ==
    ASSUME BootInv, WebhookInv, NEW slow, EvaluatePolicy(slow), UNCHANGED chosen
    PROVE  WebhookInv'
  <1>1. Provider' = Provider /\ Config' = Config
    BY Fixed DEF EvaluatePolicy
  <1>2. stage = "validating" /\ webhook = "idle" /\ SU!Init /\ Loaded
    BY DEF EvaluatePolicy, WebhookInv, BootInv
  <1>3. /\ webhook = "idle" /\ clock = 0 /\ abortAt = 0 /\ transportAt = 0 /\ heard = SU!Unread
        /\ ended = "none" /\ approval = "none"
    BY <1>2 DEF SU!Init
  <1>4. CASE UNCHANGED webhookVars /\ stage' = "over"
    BY <1>3, <1>4, AuthorizationAssumption DEF webhookVars, WebhookInv, SU!TypeOK, SU!Init
  <1>5. CASE /\ policyResult'.decision = "step_up" /\ Config.step_up # {}
             /\ SU!RequestApproval /\ stage' = "approving"
    <2>1. Asked' /\ Config.step_up # {}
      BY <1>1, <1>5 DEF Asked
    <2>2. SU!TimerDelay(Provider.timeout_seconds) \in Nat
      <3>1. Provider.timeout_seconds.value \in Nat
        BY <1>2, <1>5, ProviderOfFile DEF Provider
      <3> QED
        BY <3>1 DEF SU!TimerDelay
    <2>3. TransportTimeout \in Nat /\ MaxClock \in Nat
      BY AuthorizationAssumption
    <2>4. CASE Provider.webhook_url
      <3>1. /\ webhook' = "sent" /\ clock' = 0 /\ heard' = SU!Unread
            /\ abortAt' = SU!TimerDelay(Provider.timeout_seconds)
            /\ transportAt' = TransportTimeout
            /\ ended' = "none" /\ approval' = "none"
        BY <1>3, <1>5, <2>4 DEF SU!RequestApproval
      <3> QED
        BY <1>1, <1>5, <2>1, <2>2, <2>3, <3>1 DEF WebhookInv, SU!TypeOK
    <2>5. CASE ~Provider.webhook_url
      <3>1. /\ webhook' = "settled" /\ clock' = 0 /\ heard' = SU!Unread
            /\ abortAt' = 0 /\ transportAt' = 0
            /\ ended' = "error" /\ approval' = "noAnswer"
        BY <1>3, <1>5, <2>5 DEF SU!RequestApproval
      <3> QED
        BY <1>1, <1>5, <2>1, <2>2, <2>3, <3>1 DEF WebhookInv, SU!TypeOK
    <2> QED
      BY <2>4, <2>5
  <1> QED
    BY <1>4, <1>5 DEF EvaluatePolicy

LEMMA WebhookInvNext == BootInv /\ WebhookInv /\ [Next]_vars => WebhookInv'
  <1> SUFFICES ASSUME BootInv, WebhookInv, [Next]_vars
               PROVE  WebhookInv'
    OBVIOUS
  <1>1. ASSUME UNCHANGED chosen, UNCHANGED << config, policyResult, webhookVars >>,
               \/ stage' \in {"approving", "over"} /\ stage = "approving"
               \/ stage = stage'
        PROVE  WebhookInv'
    <2>1. Provider' = Provider /\ Config' = Config
      BY <1>1, Fixed
    <2> QED
      BY <1>1, <2>1
      DEF webhookVars, WebhookInv, SU!TypeOK, SU!Init, Asked, SU!Due, SU!Reading, SU!Secret
  <1>2. ASSUME webhook = "idle", stage \notin {"approving", "over"}, UNCHANGED webhookVars,
               stage' # "approving"
        PROVE  WebhookInv'
    BY <1>2, AuthorizationAssumption DEF webhookVars, WebhookInv, SU!TypeOK, SU!Init
  <1>3. CASE (Boot \/ Arrive \/ TokenRejected) /\ UNCHANGED chosen
    BY <1>2, <1>3 DEF Boot, Arrive, TokenRejected, WebhookInv
  <1>4. CASE WebhookProceeds /\ UNCHANGED chosen
    BY <1>4, WaitKeeps DEF WebhookProceeds, Meanwhile
  <1>5. CASE StepUpSettles /\ UNCHANGED chosen
    BY <1>1, <1>5 DEF StepUpSettles
  <1>6. ASSUME NEW slow, EvaluatePolicy(slow), UNCHANGED chosen
        PROVE  WebhookInv'
    BY <1>6, RequestKeeps
  <1>7. CASE UNCHANGED vars
    BY <1>1, <1>7 DEF vars, moving
  <1> QED
    BY <1>3, <1>4, <1>5, <1>6, <1>7 DEF Next

LEMMA VerdictInvNext == AuthorizationInv /\ [Next]_vars => VerdictInv'
  <1> SUFFICES ASSUME BootInv, VerdictInv, WebhookInv, [Next]_vars
               PROVE  VerdictInv'
    BY DEF AuthorizationInv
  <1> DEFINE Spoken == \E slow \in SUBSET UNION {Patterns(list) : list \in rules} :
                          policyResult = Evaluate(Rules, Request, slow)
  <1>1. ASSUME UNCHANGED chosen, UNCHANGED << config, policyResult >>
        PROVE  /\ policyResult.decision # "none" => ~Refused' /\ Spoken'
               /\ Provider' = Provider /\ Config' = Config
    BY <1>1, Fixed DEF VerdictInv, chosen
  <1>2. CASE (Boot \/ Arrive \/ TokenRejected) /\ UNCHANGED chosen
    <2>1. /\ decision' = "none" /\ policyResult' = policyResult
          /\ policyResult.decision = "none"
      BY <1>2 DEF Boot, Arrive, TokenRejected, VerdictInv
    <2> QED
      BY <2>1 DEF VerdictInv, Decisions
  <1>3. CASE WebhookProceeds /\ UNCHANGED chosen
    <2>1. stage = "approving" /\ decision' = "none" /\ UNCHANGED << config, stage, policyResult >>
      BY <1>3 DEF WebhookProceeds, Meanwhile, VerdictInv
    <2> QED
      BY <1>1, <1>3, <2>1 DEF VerdictInv
  <1>4. CASE StepUpSettles /\ UNCHANGED chosen
    <2>1. /\ webhook = "settled" /\ stage' = "over"
          /\ decision' = IF SU!Approved(approval) THEN "allow" ELSE "deny"
          /\ UNCHANGED << config, policyResult, webhookVars >>
      BY <1>4 DEF StepUpSettles
    <2>2. Provider' = Provider /\ Config' = Config
      BY <1>1, <1>4, <2>1
    <2>3. Asked'
      BY <2>1, <2>2 DEF WebhookInv, Asked
    <2>4. SU!Approved(approval)' <=> SU!Approved(approval)
      BY <2>1, <2>2 DEF SU!Approved, webhookVars
    <2>5. decision' = "allow" => Asked' /\ webhook' = "settled" /\ SU!Approved(approval)'
      BY <2>1, <2>3, <2>4 DEF webhookVars
    <2> QED
      BY <1>1, <1>4, <2>1, <2>5 DEF VerdictInv, Decisions
  <1>5. ASSUME NEW slow \in SUBSET UNION {Patterns(list) : list \in rules},
               EvaluatePolicy(slow), UNCHANGED chosen
        PROVE  VerdictInv'
    <2>1. /\ ~Refused /\ policyResult' = Evaluate(Rules, Request, slow)
          /\ UNCHANGED config /\ stage' \in {"approving", "over"}
          /\ \/ decision' = "none" /\ decision = "none"
             \/ decision' = "deny" /\ stage' = "over"
             \/ decision' = policyResult'.decision /\ decision' \in Decisions /\ stage' = "over"
      BY <1>5 DEF EvaluatePolicy, VerdictInv
    <2>2. ~Refused' /\ Rules' = Rules /\ Request' = Request
      BY <1>5, <2>1, Fixed
    <2>3. Spoken'
      BY <1>5, <2>1, <2>2 DEF chosen
    <2>4. policyResult'.decision \in Decisions \cup {"step_up", "throws"}
      <3>1. Loaded
        BY <1>5 DEF EvaluatePolicy, BootInv
      <3>2. /\ Rules \in Seq(Range(Rules))
            /\ \A rule \in Range(Rules) :
                  rule.effect \in {"allow", "deny", "step_up", "unrecognised"}
        BY <3>1, RulesOfFile
      <3> HIDE DEF Spoken
      <3>3. Evaluate(Rules, Request, slow).decision \in Decisions \cup {"step_up", "throws"}
        BY <3>2, EvaluateFromRule
      <3> QED
        BY <2>1, <3>3
    <2>5. decision' # "none" => stage' = "over"
      BY <2>1
    <2> QED
      BY <2>1, <2>2, <2>3, <2>4, <2>5 DEF VerdictInv, Decisions
  <1>6. CASE UNCHANGED vars
    <2>1. UNCHANGED chosen /\ UNCHANGED << config, stage, policyResult, decision, webhook, approval >>
      BY <1>6 DEF vars, moving, webhookVars
    <2>2. Asked' = Asked /\ SU!Approved(approval)' = SU!Approved(approval)
      BY <1>1, <2>1 DEF Asked, SU!Approved
    <2> QED
      BY <1>1, <2>1, <2>2 DEF VerdictInv
  <1> QED
    BY <1>2, <1>3, <1>4, <1>5, <1>6 DEF Next

LEMMA Invariant == Spec => []AuthorizationInv
  <1>1. AuthorizationInv /\ [Next]_vars => AuthorizationInv'
    BY BootInvNext, WebhookInvNext, VerdictInvNext DEF AuthorizationInv
  <1> QED
    BY InvInit, <1>1, PTL DEF Spec

-----------------------------------------------------------------------------
(* Every variable keeps its type: no timer is set to a time that is none.  *)
THEOREM TypeCorrect == Spec => []TypeOK
  <1>1. AuthorizationInv => TypeOK
    BY DEF AuthorizationInv, BootInv, VerdictInv, WebhookInv, TypeOK
  <1> QED
    BY Invariant, <1>1, PTL

(* A call is allowed only in the session its token is bound to, and by a   *)
(* rule that matches the call of the agent the token names and says allow, *)
(* or step_up to an approver who agreed, and only rules with a pattern     *)
(* that is run are passed over before it: for every list of rules and      *)
(* however slow or broken their patterns are.                              *)
THEOREM RuleAllows == Spec => []AllowedByRule
  <1>1. AuthorizationInv => AllowedByRule
    <2> DEFINE OnlyRun(j) ==
                 Matches(Rules[j], [Request EXCEPT !.agentId = Agent], {}) =>
                     \E pattern \in Rules[j].tool_name :
                         pattern.script /\ pattern.text # call.tool
    <2> SUFFICES ASSUME AuthorizationInv, decision = "allow"
                 PROVE  /\ \A s \in call.token.session_id : call.session_id = {s}
                        /\ \E i \in DOMAIN Rules :
                              /\ Matches(Rules[i], [Request EXCEPT !.agentId = Agent], {})
                              /\ \/ Rules[i].effect = "allow"
                                 \/ Rules[i].effect = "step_up" /\ SU!Approved(approval)
                              /\ \A j \in 1..(i - 1) : OnlyRun(j)
      BY DEF AllowedByRule
    <2>1. /\ policyResult.decision \in {"allow", "step_up"}
          /\ policyResult.decision = "step_up" => SU!Approved(approval)
      BY DEF AuthorizationInv, VerdictInv, Asked
    <2>2. PICK slow : policyResult = Evaluate(Rules, Request, slow)
      BY <2>1 DEF AuthorizationInv, VerdictInv
    <2>3. ~Refused
      BY <2>1 DEF AuthorizationInv, VerdictInv
    <2>4. Loaded
      BY DEF AuthorizationInv, BootInv, VerdictInv
    <2>5. \A s \in call.token.session_id : call.session_id = {s}
      <3>1. Refusal(call.token, call.session_id, Options, 0) = "none"
        BY <2>3 DEF Refused
      <3>2. SessionBound(call.token, call.session_id)
        BY <3>1, AcceptedIsBound
      <3> QED
        BY <3>2 DEF SessionBound
    <2>6. [Request EXCEPT !.agentId = Agent] = Request
      BY <2>4, LoadedConfig
      DEF Request, Agent, AgentId, Options, ValidatorOptions, ApplyDefaults
    <2>7. PICK i \in DOMAIN Rules : /\ Matches(Rules[i], Request, slow)
                                    /\ Rules[i].effect = policyResult.decision
                                    /\ \A j \in 1..(i - 1) : ~Matches(Rules[j], Request, slow)
      <3>1. /\ Rules \in Seq(Range(Rules))
            /\ \A rule \in Range(Rules) :
                  rule.effect \in {"allow", "deny", "step_up", "unrecognised"}
        BY <2>4, RulesOfFile DEF AuthorizationInv
      <3> QED
        BY <2>1, <2>2, <3>1, EvaluateFromRule
    <2>8. Matches(Rules[i], Request, {})
      BY <2>7, MatchesMonotonic
    <2>9. \A j \in 1..(i - 1) : OnlyRun(j)
      <3>1. Request.tool = call.tool
        BY DEF Request
      <3> QED
        BY <2>6, <2>7, <3>1, PassedOver
    <2> QED
      BY <2>1, <2>5, <2>6, <2>7, <2>8, <2>9
  <1> QED
    BY Invariant, <1>1, PTL

(* Unless the file says on_timeout: allow, no timeout, error or default    *)
(* lets a step_up pass: only an approval that was heard, and with a secret *)
(* only one signed for this very request.                                  *)
THEOREM ApprovalExplicit == Spec => []ExplicitApproval
  <1>1. AuthorizationInv => ExplicitApproval
    <2> SUFFICES ASSUME AuthorizationInv, decision = "allow", policyResult.decision = "step_up",
                        NEW s \in file.step_up, s.on_timeout # {"allow"}
                 PROVE  /\ heard.outcome = "approved"
                        /\ s.webhook_secret \ {""} # {} =>
                               heard.nonce = "own" /\ heard.signature = "own"
      BY DEF ExplicitApproval
    <2>1. Asked /\ webhook = "settled" /\ SU!Approved(approval)
      BY DEF AuthorizationInv, VerdictInv
    <2>2. Loaded
      BY DEF AuthorizationInv, BootInv, VerdictInv
    <2>3. StepUp = StepUpDefaults(s)
      BY <2>1, <2>2, ProviderOfFile DEF AuthorizationInv, Asked
    <2>4. Provider.on_timeout # "allow"
      <3>1. Provider.on_timeout = OrElse(s.on_timeout, "deny")
        BY <2>3 DEF Provider, StepUpDefaults
      <3>2. CASE s.on_timeout = {}
        BY <3>1, <3>2 DEF OrElse
      <3>3. CASE s.on_timeout # {}
        <4>1. OrElse(s.on_timeout, "deny") \in s.on_timeout
          BY <3>3 DEF OrElse
        <4>2. \A v, w \in s.on_timeout : v = w
          BY InputsAssumption DEF AuthorizationInv, BootInv, Optional
        <4> QED
          BY <3>1, <4>1, <4>2
      <3> QED
        BY <3>2, <3>3
    <2>5. approval = "approve"
      BY <2>1, <2>4 DEF SU!Approved
    <2>6. SU!Reading(heard) = "approve"
      BY <2>1, <2>5 DEF AuthorizationInv, WebhookInv
    <2>7. Provider.webhook_secret = s.webhook_secret
      BY <2>3 DEF Provider, StepUpDefaults
    <2> QED
      BY <2>6, <2>7 DEF SU!Reading, SU!Secret
  <1> QED
    BY Invariant, <1>1, PTL

(* The approver has the time that was configured, as long as setTimeout    *)
(* can count it and undici has the patience.                               *)
THEOREM ApproverTimed == Spec => []ApproverHasTime
  <1>1. AuthorizationInv => ApproverHasTime
    <2> SUFFICES ASSUME AuthorizationInv, ended = "timer",
                        Provider.timeout_seconds.value <= TimerMax
                 PROVE  clock >= Provider.timeout_seconds.value \/ clock >= TransportTimeout
      BY DEF ApproverHasTime
    <2>1. /\ abortAt = SU!TimerDelay(Provider.timeout_seconds)
          /\ transportAt >= TransportTimeout
          /\ webhook = "settled"
      BY DEF AuthorizationInv, WebhookInv
    <2>2. clock >= abortAt \/ clock >= transportAt
      BY <2>1 DEF AuthorizationInv, WebhookInv, SU!Due
    <2>3. Asked /\ Loaded
      BY <2>1 DEF AuthorizationInv, WebhookInv, BootInv
    <2>4. /\ Provider.timeout_seconds.value \in Nat
          /\ Provider.timeout_seconds.kind # "number" => Provider.timeout_seconds.value = 0
      BY <2>3, ProviderOfFile DEF AuthorizationInv, Asked, Provider
    <2>5. abortAt = Provider.timeout_seconds.value
      BY <2>1, <2>4 DEF SU!TimerDelay
    <2>6. clock \in Nat /\ transportAt \in Nat /\ TransportTimeout \in Nat
      BY AuthorizationAssumption DEF AuthorizationInv, WebhookInv, SU!TypeOK
    <2> QED
      BY <2>1, <2>2, <2>5, <2>6
  <1> QED
    BY Invariant, <1>1, PTL

(* When a call is let through, the check of its token is at most as old as *)
(* the configured timeout, however slowly the answer trickles in.          *)
THEOREM FreshWhenAllowed == Spec => []DecisionFresh
  <1>1. AuthorizationInv => DecisionFresh
    <2> SUFFICES ASSUME AuthorizationInv, decision = "allow", policyResult.decision = "step_up"
                 PROVE  clock <= Provider.timeout_seconds.value
      BY DEF DecisionFresh
    <2>1. webhook = "settled" /\ Asked /\ Loaded
      BY DEF AuthorizationInv, VerdictInv, WebhookInv, BootInv
    <2>2. /\ clock <= abortAt
          /\ abortAt \in {0, SU!TimerDelay(Provider.timeout_seconds)}
          /\ clock \in 0..MaxClock /\ MaxClock \in Nat
      BY <2>1, AuthorizationAssumption DEF AuthorizationInv, WebhookInv, SU!TypeOK
    <2>3. Provider.timeout_seconds.value \in Nat
      BY <2>1, ProviderOfFile DEF AuthorizationInv, Asked, Provider
    <2> QED
      BY <2>2, <2>3 DEF SU!TimerDelay
  <1> QED
    BY Invariant, <1>1, PTL

-----------------------------------------------------------------------------
(* The contract of a decision *)

(* The variables of the contract, for the one request there is. *)
Place    == CASE stage \in {"booting", "exited", "ready"} -> "idle" [] OTHER -> stage
Answer   == IF decision = "none" THEN "none" ELSE approval
Silence  == IF \E s \in file.step_up : s.on_timeout = {"allow"} THEN "allow" ELSE "deny"

LEMMA ContractInit == Init => Contract!Init
  <1> SUFFICES ASSUME Init
               PROVE  Contract!Init
    OBVIOUS
  <1>1. stage = "booting" /\ policyResult.decision = "none" /\ decision = "none"
    BY DEF Init
  <1> QED
    BY <1>1 DEF Contract!Init

(* What an approver who was not heard means is what the file says.         *)
LEMMA SilenceOfProvider ==
    ASSUME BootInv, Loaded, Config.step_up # {}
    PROVE  Silence = IF Provider.on_timeout = "allow" THEN "allow" ELSE "deny"
  <1>1. PICK s \in file.step_up : file.step_up = {s} /\ StepUp = StepUpDefaults(s)
    BY ProviderOfFile
  <1>2. Provider.on_timeout = OrElse(s.on_timeout, "deny")
    BY <1>1 DEF Provider, StepUpDefaults
  <1>3. Provider.on_timeout = "allow" <=> s.on_timeout = {"allow"}
    <2>1. CASE s.on_timeout = {}
      BY <1>2, <2>1 DEF OrElse
    <2>2. CASE s.on_timeout # {}
      <3>1. OrElse(s.on_timeout, "deny") \in s.on_timeout
        BY <2>2 DEF OrElse
      <3>2. \A v, w \in s.on_timeout : v = w
        BY InputsAssumption DEF BootInv, Optional
      <3>3. s.on_timeout = {Provider.on_timeout}
        BY <1>2, <3>1, <3>2
      <3> QED
        BY <3>3
    <2> QED
      BY <2>1, <2>2
  <1> QED
    BY <1>1, <1>3 DEF Silence

LEMMA ContractStep ==
    ASSUME AuthorizationInv, [Next]_vars
    PROVE  [Contract!Next]_<< IF \E s \in file.step_up : s.on_timeout = {"allow"}
                                THEN "allow" ELSE "deny", Contract!decisionVars >>
  <1> DEFINE Goal == [Contract!Next]_<< IF \E s \in file.step_up : s.on_timeout = {"allow"}
                                          THEN "allow" ELSE "deny", Contract!decisionVars >>
  <1> USE DEF AuthorizationInv
  <1>1. ASSUME UNCHANGED file, Place' = Place, policyResult'.decision = policyResult.decision,
               Answer' = Answer, decision' = decision
        PROVE  Goal
    BY <1>1 DEF Contract!decisionVars, Place, Answer
  <1>2. CASE Boot /\ UNCHANGED chosen
    <2>1. Place = "idle" /\ Place' = "idle" /\ UNCHANGED << file, policyResult, decision, approval >>
      BY <1>2 DEF Boot, Place, chosen, webhookVars
    <2> QED
      BY <1>1, <2>1 DEF Answer
  <1>3. CASE WebhookProceeds /\ UNCHANGED chosen
    <2>1. decision = "none" /\ UNCHANGED << file, stage, policyResult, decision >>
      BY <1>3 DEF WebhookProceeds, Meanwhile, VerdictInv, chosen
    <2> QED
      BY <1>1, <2>1 DEF Answer, Place
  <1>4. CASE UNCHANGED vars
    BY <1>1, <1>4 DEF vars, chosen, moving, webhookVars, Answer, Place
  <1>5. CASE Arrive /\ UNCHANGED chosen
    <2>1. /\ Place = "idle" /\ Place' = "validating"
          /\ UNCHANGED << file, policyResult, decision, approval >>
      BY <1>5 DEF Arrive, Place, chosen, webhookVars
    <2>2. Contract!Accept("call") /\ UNCHANGED file
      BY <2>1 DEF Contract!Accept, Place
    <2> QED
      BY <2>2 DEF Contract!Next
  <1>6. CASE TokenRejected /\ UNCHANGED chosen
    <2>1. /\ Place' = "over" /\ UNCHANGED << file, policyResult, decision, approval >>
      BY <1>6 DEF TokenRejected, Place, chosen, webhookVars
    <2>2. Contract!Abandon /\ UNCHANGED file
      BY <2>1 DEF Contract!Abandon, Place
    <2> QED
      BY <2>2 DEF Contract!Next
  <1>7. CASE StepUpSettles /\ UNCHANGED chosen
    <2>1. /\ stage = "approving" /\ webhook = "settled" /\ stage' = "over"
          /\ decision' = IF SU!Approved(approval) THEN "allow" ELSE "deny"
          /\ UNCHANGED << file, policyResult, approval >>
      BY <1>7 DEF StepUpSettles, chosen, webhookVars
    <2>2. decision = "none" /\ approval \in {"approve", "refuse", "noAnswer"} /\ Asked /\ Loaded
      BY <2>1 DEF VerdictInv, WebhookInv, BootInv
    <2>3. decision' = CASE approval = "approve"  -> "allow"
                        [] approval = "refuse"   -> "deny"
                        [] approval = "noAnswer" -> Silence
      BY <2>1, <2>2, SilenceOfProvider DEF SU!Approved, Asked
    <2>4. Contract!Hear("call", approval) /\ UNCHANGED file
      BY <2>1, <2>2, <2>3 DEF Contract!Hear, Contract!Verdict, Silence
    <2> QED
      BY <2>2, <2>4 DEF Contract!Next
  <1>8. ASSUME NEW slow \in SUBSET UNION {Patterns(list) : list \in rules},
               EvaluatePolicy(slow), UNCHANGED chosen
        PROVE  Goal
    <2>1. stage = "validating" /\ decision = "none" /\ policyResult.decision = "none"
      BY <1>8 DEF EvaluatePolicy, VerdictInv
    <2>2. policyResult'.decision \in {"allow", "deny", "step_up", "unrecognised", "throws"}
      BY <1>8 DEF EvaluatePolicy, Decisions
    <2>3. Contract!Evaluate("call", policyResult'.decision)
      <3>1. Place = "validating" /\ Answer = "none" /\ approval = "none"
        BY <2>1 DEF Place, Answer, WebhookInv, SU!Init
      <3>2. CASE UNCHANGED webhookVars /\ stage' = "over"
        <4>1. Answer' = "none" /\ Place' = "over"
          BY <3>1, <3>2 DEF Answer, Place, webhookVars
        <4> QED
          BY <1>8, <2>1, <2>2, <3>1, <3>2, <4>1
          DEF EvaluatePolicy, Contract!Evaluate, Contract!Verdict, Decisions, Place, Answer
      <3>3. CASE stage' = "approving" /\ policyResult'.decision = "step_up" /\ UNCHANGED decision
        <4>1. Answer' = "none" /\ Place' = "approving"
          BY <2>1, <3>3 DEF Answer, Place
        <4> QED
          BY <3>1, <3>3, <4>1 DEF Contract!Evaluate, Place, Answer
      <3> QED
        BY <1>8, <3>2, <3>3 DEF EvaluatePolicy
    <2> QED
      BY <1>8, <2>2, <2>3 DEF Contract!Next, chosen
  <1> QED
    BY <1>2, <1>3, <1>4, <1>5, <1>6, <1>7, <1>8 DEF Next

(* The path of a call in full detail comes to its verdict as the contract  *)
(* says, which ToolCallGateway is proved to implement as well.             *)
THEOREM ContractImplemented == Spec => DecisionsHonoured
  <1>1. AuthorizationInv /\ [Next]_vars
           => [Contract!Next]_<< IF \E s \in file.step_up : s.on_timeout = {"allow"}
                                   THEN "allow" ELSE "deny", Contract!decisionVars >>
    BY ContractStep
  <1> QED
    BY Invariant, ContractInit, <1>1, PTL DEF Spec, DecisionsHonoured, Contract!Spec
=============================================================================
