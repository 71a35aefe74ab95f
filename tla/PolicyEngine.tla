---------------------------- MODULE PolicyEngine ----------------------------
(* YamlPolicyEngine (src/src/policy/engine.ts).  evaluate() awaits         *)
(* nothing, so it is an operator.  A field that may be missing is a set of *)
(* no or one value.                                                        *)
EXTENDS Naturals, Sequences, SequencesExt

(* A pattern stands for its text: the tool it is equal to, whether it is   *)
(* run as a regular expression ("/.../") or a wildcard ("*"), and the      *)
(* tools that one matches, none if it does not compile.                    *)
Pattern(text, script, language) ==
    [text |-> text, script |-> script, language |-> language]

(* Mutation of ToolMatches: the catch of the timeout counts as a match. *)
ToolMatchesOnTimeout(pattern, tool, slow) ==
    \/ pattern.text = tool
    \/ pattern.script /\ (pattern \in slow \/ tool \in pattern.language)

(* A script that runs for more than 50 ms, being one of the slow patterns  *)
(* this time, matches nothing.                                             *)
ToolMatches(pattern, tool, slow) ==
    \/ pattern.text = tool
    \/ pattern.script /\ pattern \notin slow /\ tool \in pattern.language

(* Values are compared with ===, which no two objects are.                 *)
Identical(a, b) == a = b /\ a # "object"

Matches(rule, request, slow) ==
    /\ \A pattern \in rule.tool_name : ToolMatches(pattern, request.tool, slow)
    /\ \A agents \in rule.agent_id_in : request.agentId \in agents
    /\ \A agents \in rule.agent_id_not_in : request.agentId \notin agents
    /\ \A subs \in rule.principal_in : request.sub \in subs
    /\ \A key \in DOMAIN rule.arguments :
          /\ key \in DOMAIN request.arguments
          /\ Identical(request.arguments[key], rule.arguments[key])

(* A rule without a match, or whose tool_name is no string, is broken: the *)
(* evaluation that reaches it throws.                                      *)
Evaluate(rules, request, slow) ==
    LET i == SelectInSeq(rules, LAMBDA rule : rule.broken \/ Matches(rule, request, slow))
    IN  IF i = 0 THEN [decision |-> "deny", matchedRule |-> "default"]
        ELSE IF rules[i].broken THEN [decision |-> "throws", matchedRule |-> "none"]
        ELSE [decision |-> rules[i].effect, matchedRule |-> rules[i].name]

Patterns(rules) == UNION {rule.tool_name : rule \in Range(rules)}
=============================================================================
