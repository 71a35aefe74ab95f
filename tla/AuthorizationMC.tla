--------------------------- MODULE AuthorizationMC ---------------------------
(* Small instances of Authorization for TLC: see the README.               *)
EXTENDS Authorization

Mandatory == {"server.resource_id", "identity.issuer", "identity.jwks_uri",
              "identity.required_audience", "policy.source"}

AllGiven == Mandatory \cup {"step_up.webhook_url", "audit.path", "upstream.command"}

NoStepUp == [given |-> AllGiven, listen |-> {}, issuer |-> "idp", required_audience |-> "here",
             agent_id_claim |-> {}, step_up |-> {}, sink |-> {}, upstream |-> {}]

StepUpSection(timeout, onTimeout, secret) ==
    [mode |-> {}, timeout_seconds |-> timeout, on_timeout |-> onTimeout, webhook_secret |-> secret]

With(section) == [NoStepUp EXCEPT !.step_up = {section}]

MCFiles ==
    { NoStepUp,
      [NoStepUp EXCEPT !.agent_id_claim = {"acting"}],
      [NoStepUp EXCEPT !.agent_id_claim = {""}],
      [NoStepUp EXCEPT !.listen = {ListenAddress(1, "", Number(8443))}],
      [NoStepUp EXCEPT !.listen = {ListenAddress(2, "", Number(70000))}],
      [NoStepUp EXCEPT !.listen = {ListenAddress(3, "", Number(8443))}],
      [NoStepUp EXCEPT !.given = @ \ {"audit.path"}],
      [NoStepUp EXCEPT !.given = @ \ {"audit.path"}, !.sink = {"http"}],
      [NoStepUp EXCEPT !.given = @ \ {"upstream.command"}, !.upstream = {"upstream"}],
      [With(StepUpSection({}, {"allow"}, {})) EXCEPT !.given = @ \ {"step_up.webhook_url"}],
      [With([StepUpSection({}, {"allow"}, {}) EXCEPT !.mode = {"ciba"}])
          EXCEPT !.given = @ \ {"step_up.webhook_url"}],
      With(StepUpSection({}, {}, {})),
      With(StepUpSection({}, {}, {"secret"})),
      With(StepUpSection({}, {}, {""})),
      With(StepUpSection({Number(1)}, {"allow"}, {"secret"})),
      With(StepUpSection({Number(6)}, {"deny"}, {})),
      With(StepUpSection({Number(0)}, {}, {})),
      With(StepUpSection({Number(8)}, {}, {})),
      With(StepUpSection({NotANumber}, {}, {})),
      With(StepUpSection({NoNumber}, {}, {})) }

Rule(name, effect) ==
    [name |-> name, effect |-> effect, broken |-> FALSE, tool_name |-> {}, agent_id_in |-> {},
     agent_id_not_in |-> {}, principal_in |-> {}, arguments |-> << >>]

Exact    == Pattern("pay", FALSE, {})
Prefix   == Pattern("/^pay/", TRUE, {"pay", "payroll"})
Wildcard == Pattern("*", TRUE, {"pay", "payroll"})
Invalid  == Pattern("/(/", TRUE, {})

MCRules ==
    { [Rule("exact", "allow")     EXCEPT !.tool_name = {Exact}],
      [Rule("prefix", "deny")     EXCEPT !.tool_name = {Prefix}],
      [Rule("wildcard", "allow")  EXCEPT !.tool_name = {Wildcard}, !.agent_id_in = {{"bot"}}],
      [Rule("invalid", "allow")   EXCEPT !.tool_name = {Invalid}],
      [Rule("other", "step_up")   EXCEPT !.agent_id_not_in = {{"bot"}}],
      [Rule("human", "step_up")   EXCEPT !.principal_in = {{"ann"}}],
      [Rule("large", "step_up")   EXCEPT !.arguments = [amount |-> "large"]],
      [Rule("nested", "allow")    EXCEPT !.arguments = [amount |-> "object"]],
      [Rule("odd", "audit")       EXCEPT !.effect = "unrecognised"],
      [Rule("broken", "allow")    EXCEPT !.broken = TRUE] }

MCLastRules == {r \in MCRules : r.name \in {"prefix", "wildcard", "human"}}

MCRuleFiles ==
    {{}} \cup {{list} : list \in {<< >>} \cup {<< r >> : r \in MCRules}
                                 \cup {<< r, s >> : r \in MCRules, s \in MCLastRules}}

GoodToken == [signed |-> TRUE, iss |-> "idp", exp |-> {1}, aud |-> {"here"}, resource |-> {},
              named |-> [agent_id |-> "bot", acting |-> "tool"], session_id |-> {}, sub |-> {"ann"}]

MCTokens ==
    { GoodToken,
      [GoodToken EXCEPT !.signed = FALSE],
      [GoodToken EXCEPT !.iss = "elsewhere"],
      [GoodToken EXCEPT !.exp = {0}],
      [GoodToken EXCEPT !.aud = {"there"}],
      [GoodToken EXCEPT !.aud = {"there"}, !.resource = {"here"}, !.exp = {}],
      [GoodToken EXCEPT !.named = [acting |-> "bot"]],
      [GoodToken EXCEPT !.named = [agent_id |-> "tool"], !.sub = {}],
      [GoodToken EXCEPT !.session_id = {"s1"}] }

MCCalls ==
    {[token |-> GoodToken, tool |-> tool, arguments |-> [amount |-> amount], session_id |-> {}] :
        tool \in {"pay", "payroll"}, amount \in {"large", "small", "object"}}
    \cup
    {[token |-> token, tool |-> "pay", arguments |-> << >>, session_id |-> session] :
        token \in MCTokens, session \in {{}, {"s1"}, {"s2"}}}
=============================================================================
