---------------------------- MODULE StepUpWebhook ----------------------------
(* WebhookStepUpProvider.requestApproval (src/src/stepup/webhook.ts): one  *)
(* request to the approver, the AbortController's timer, the timeouts of   *)
(* undici, and the reading of the answer.  The clock counts minutes.       *)
LOCAL INSTANCE Integers

CONSTANTS
    TimerMax,            \* the longest delay setTimeout can keep
    TransportTimeout,    \* undici's headersTimeout and bodyTimeout
    MaxClock             \* bound of the clock, past every timer

VARIABLES
    provider,     \* what the constructor was given
    webhook,      \* idle, sent, reading (the body) or settled
    clock,        \* since requestApproval was called
    abortAt,      \* when the timer aborts the request
    transportAt,  \* when undici gives it up
    heard,        \* the body that was read, if any
    ended,        \* how the request ended: "answer", "error" or "timer"
    approval      \* what the outcome rests on

webhookVars == << webhook, clock, abortAt, transportAt, heard, ended, approval >>

(* A body as far as it is looked at.  "own" is the nonce of this request,  *)
(* or the signature that the secret gives with it; "other" is of another   *)
(* request.  A signature that is a number makes Buffer.from throw.         *)
Bodies ==
    [outcome   : {"approved", "denied"},
     nonce     : {"own", "other"},
     signature : {"own", "other", "absent", "noString"}]

Unread == [outcome |-> "unread", nonce |-> "other", signature |-> "absent"]

TypeOK ==
    /\ webhook \in {"idle", "sent", "reading", "settled"}
    /\ clock \in 0..MaxClock
    /\ abortAt \in Nat /\ transportAt \in Nat
    /\ heard \in Bodies \cup {Unread}
    /\ ended \in {"none", "answer", "error", "timer"}
    /\ approval \in {"none", "approve", "refuse", "noAnswer"}

Init ==
    /\ webhook = "idle"
    /\ clock = 0 /\ abortAt = 0 /\ transportAt = 0
    /\ heard = Unread
    /\ ended = "none"
    /\ approval = "none"

-----------------------------------------------------------------------------
(* Mutation of TimerDelay: seconds are given to setTimeout unscaled, which *)
(* come to no minute.                                                      *)
TimerDelayUnscaled(t) == 0

(* A delay that is no number or does not fit into 32 bits becomes 1 ms.    *)
TimerDelay(t) == IF t.kind = "number" /\ t.value <= TimerMax THEN t.value ELSE 0

(* A secret that is empty counts as none. *)
Secret == provider.webhook_secret \ {""}

(* Mutation of Reading: the nonce is not compared. *)
ReadingAnySignature(body) ==
    IF body.outcome # "approved" THEN "refuse"
    ELSE IF Secret = {} \/ body.signature \in {"own", "other"} THEN "approve"
    ELSE IF body.signature = "noString" THEN "noAnswer"
    ELSE "refuse"

(* What the code makes of a body; only the last check can throw. *)
Reading(body) ==
    IF body.outcome # "approved" THEN "refuse"
    ELSE IF Secret = {} \/ (body.nonce = "own" /\ body.signature = "own")
      THEN "approve"
    ELSE IF body.nonce = "own" /\ body.signature = "noString" THEN "noAnswer"
    ELSE "refuse"

(* The promise resolves to "approved": onTimeout speaks for an approver    *)
(* who was not heard.                                                      *)
Approved(answer) ==
    answer = "approve" \/ (answer = "noAnswer" /\ provider.on_timeout = "allow")

(* The request is over; `finally' clears the timer. *)
Settle(how, answer) ==
    /\ webhook' = "settled"
    /\ ended' = how
    /\ approval' = answer
    /\ UNCHANGED << clock, abortAt, transportAt >>

(* request() is called, and throws at once if there is no URL. *)
RequestApproval ==
    /\ webhook = "idle"
    /\ clock' = 0
    /\ heard' = Unread
    /\ IF provider.webhook_url
         THEN /\ webhook' = "sent"
              /\ abortAt' = TimerDelay(provider.timeout_seconds)
              /\ transportAt' = TransportTimeout
              /\ UNCHANGED << ended, approval >>
         ELSE /\ webhook' = "settled"
              /\ ended' = "error"
              /\ approval' = "noAnswer"
              /\ UNCHANGED << abortAt, transportAt >>

(* Mutation of HeadersArrive: the timer is cleared when request() resolves. *)
HeadersArriveTimerCleared ==
    /\ webhook = "sent"
    /\ webhook' = "reading"
    /\ abortAt' = MaxClock + 1
    /\ transportAt' = clock + TransportTimeout
    /\ UNCHANGED << clock, heard, ended, approval >>

HeadersArrive ==
    /\ webhook = "sent"
    /\ webhook' = "reading"
    /\ transportAt' = clock + TransportTimeout
    /\ UNCHANGED << clock, abortAt, heard, ended, approval >>

(* A part of the body comes: bodyTimeout starts over. *)
BodyProgresses ==
    /\ webhook = "reading"
    /\ transportAt' = clock + TransportTimeout
    /\ UNCHANGED << webhook, clock, abortAt, heard, ended, approval >>

BodyEnds(body) ==
    /\ webhook = "reading"
    /\ heard' = body
    /\ Settle("answer", Reading(body))

(* The connection fails, or the body is no JSON object. *)
RequestFails ==
    /\ webhook \in {"sent", "reading"}
    /\ UNCHANGED heard
    /\ Settle("error", "noAnswer")

Due == clock >= abortAt \/ clock >= transportAt

(* Mutation of TimerEnds: the signal does not reach the reading of the body. *)
TimerEndsConnecting ==
    /\ webhook = "sent" \/ (webhook = "reading" /\ clock >= transportAt)
    /\ Due
    /\ UNCHANGED heard
    /\ Settle("timer", "noAnswer")

TimerEnds ==
    /\ webhook \in {"sent", "reading"}
    /\ Due
    /\ UNCHANGED heard
    /\ Settle("timer", "noAnswer")

(* Time passes up to the next timer: a timer fires when it is due. *)
Tick ==
    /\ webhook \in {"sent", "reading"}
    /\ ~Due /\ clock < MaxClock
    /\ clock' = clock + 1
    /\ UNCHANGED << webhook, abortAt, transportAt, heard, ended, approval >>

Wait ==
    \/ HeadersArrive \/ BodyProgresses \/ RequestFails \/ TimerEnds \/ Tick
    \/ \E body \in Bodies : BodyEnds(body)
=============================================================================
