---------------------------- MODULE Configuration ----------------------------
(* loadConfig (src/src/config.ts).  A field of the file that may be        *)
(* missing is a set of no or one value; `given' names those fields without *)
(* a default that have a value JavaScript takes for true.                  *)
LOCAL INSTANCE Integers

(* An entry of the file that should be a number. *)
Number(n)  == [kind |-> "number", value |-> n]
NotANumber == [kind |-> "nan", value |-> 0]
NoNumber   == [kind |-> "other", value |-> 0]

(* typeof t is "number" and not t <= 0, which no comparison of NaN is. *)
IsPositive(t) == t.kind = "nan" \/ (t.kind = "number" /\ t.value > 0)

(* config.x ??= value *)
OrElse(field, value) == IF field = {} THEN value ELSE CHOOSE v \in field : TRUE

(* A listen string: how many parts the colons make of it, whether the      *)
(* first is empty, and what parseInt makes of the last.                    *)
ListenAddress(parts, host, port) == [parts |-> parts, host |-> host, port |-> port]

AnyHost == "0.0.0.0"
DefaultListen == ListenAddress(2, AnyHost, Number(8443))

(* parseListenAddress: the address, or none if it throws. *)
ParseListenAddress(listen) ==
    IF listen.parts = 2
      THEN {[host |-> IF listen.host = "" THEN AnyHost ELSE listen.host, port |-> listen.port]}
      ELSE IF listen.parts = 1 /\ listen.port.kind = "number"
        THEN {[host |-> AnyHost, port |-> listen.port]}
        ELSE {}

ValidListen(listen) ==
    \E address \in ParseListenAddress(listen) :
        address.port.kind = "number" /\ address.port.value \in 1..65535

(* Mutation of StepUpDefaults: silence means yes unless it is configured. *)
StepUpDefaultsOpen(stepUp) ==
    [mode            |-> OrElse(stepUp.mode, "webhook"),
     timeout_seconds |-> OrElse(stepUp.timeout_seconds, Number(2)),
     on_timeout      |-> OrElse(stepUp.on_timeout, "allow"),
     webhook_secret  |-> stepUp.webhook_secret]

(* The part of applyDefaults for step_up; timeouts are in minutes here.    *)
StepUpDefaults(stepUp) ==
    [mode            |-> OrElse(stepUp.mode, "webhook"),
     timeout_seconds |-> OrElse(stepUp.timeout_seconds, Number(2)),
     on_timeout      |-> OrElse(stepUp.on_timeout, "deny"),
     webhook_secret  |-> stepUp.webhook_secret]

(* What the file says of policy.engine, policy.default and provider is     *)
(* left out: nothing depends on it.                                        *)
ApplyDefaults(file) ==
    [given    |-> file.given,
     listen   |-> OrElse(file.listen, DefaultListen),
     identity |-> [issuer            |-> file.issuer,
                   required_audience |-> file.required_audience,
                   agent_id_claim    |-> OrElse(file.agent_id_claim, "agent_id")],
     step_up  |-> {StepUpDefaults(s) : s \in file.step_up},
     sink     |-> OrElse(file.sink, "file"),
     upstream |-> file.upstream]

Required(config) ==
    {"server.resource_id", "identity.issuer", "identity.jwks_uri",
     "identity.required_audience", "policy.source"}
    \cup {"step_up.webhook_url" : s \in {t \in config.step_up : t.mode = "webhook"}}
    \cup {"audit.path" : sink \in {config.sink} \cap {"file"}}
    \cup {"upstream.command" : u \in config.upstream}

(* validate does not throw. *)
Valid(config) ==
    /\ Required(config) \subseteq config.given
    /\ config.identity.agent_id_claim # ""
    /\ ValidListen(config.listen)
    /\ \A s \in config.step_up : IsPositive(s.timeout_seconds)

(* The configuration, or none if loadConfig throws. *)
LoadConfig(file) == {ApplyDefaults(f) : f \in {g \in {file} : Valid(ApplyDefaults(g))}}
=============================================================================
