--------------------------- MODULE TokenValidation ---------------------------
(* TokenValidator (src/src/oauth/tokenValidator.ts) and the adapters that  *)
(* build it.  A claim that may be missing is a set of no or one value.     *)
EXTENDS Naturals, Sequences, SequencesExt

(* What the three adapters pass on.  jwks_uri is there: loadConfig has     *)
(* refused a configuration without one, whatever the provider.             *)
ValidatorOptions(identity) ==
    [issuer           |-> identity.issuer,
     requiredAudience |-> identity.required_audience,
     agentIdClaim     |-> identity.agent_id_claim]

(* jwtVerify: the signature is of the issuer's key set, iss is the issuer, *)
(* and exp, when the token has one, is still to come.                      *)
Verified(token, options, now) ==
    /\ token.signed
    /\ token.iss = options.issuer
    /\ \A exp \in token.exp : now < exp

(* aud and resource may each be a string or a list: together the targets.  *)
Targets(token) == token.aud \cup token.resource

(* Mutation of SessionBound: a request without a session is let off. *)
SessionBoundIfGiven(token, sessionId) ==
    \A s \in token.session_id : sessionId \subseteq {s}

(* A session_id that is no string binds nothing: it counts as missing.     *)
SessionBound(token, sessionId) ==
    \A s \in token.session_id : sessionId = {s}

(* The checks in their order, each with the code of its                    *)
(* TokenValidationError.  token.named holds the claims whose value is a    *)
(* non-empty string.                                                       *)
Checks(token, sessionId, options, now) ==
    << [holds |-> Verified(token, options, now),               code |-> "invalid_signature"],
       [holds |-> options.requiredAudience \in Targets(token), code |-> "wrong_resource"],
       [holds |-> options.agentIdClaim \in DOMAIN token.named, code |-> "missing_agent_id"],
       [holds |-> SessionBound(token, sessionId),              code |-> "invalid_signature"] >>

(* The code that validate() rejects the token with, or "none". *)
Refusal(token, sessionId, options, now) ==
    LET checks == Checks(token, sessionId, options, now)
        i == SelectInSeq(checks, LAMBDA check : ~check.holds)
    IN  IF i = 0 THEN "none" ELSE checks[i].code

(* String(payload.sub). *)
Principal(token) == IF token.sub = {} THEN "undefined" ELSE CHOOSE sub \in token.sub : TRUE

AgentId(token, options) == token.named[options.agentIdClaim]
=============================================================================
