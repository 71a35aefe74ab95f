# LimeKey, specified in TLA+

LimeKey authorizes the tool calls of AI agents. It validates a token, evaluates
a YAML policy, may ask a human through a webhook, writes an audit event, and
then answers the client (`POST /v0/authorize`, or the `authorize` tool over
MCP) or forwards the call to an upstream MCP server it has spawned (proxy
mode). This directory holds TLA+ modules for the parts of that with state,
concurrency or failures in them, the TLC runs that check them, and theorems
that TLAPS checks.

Paths below are relative to the repository.

## Inventory

| Component | Code | State | Operations | What is hard |
|---|---|---|---|---|
| Audit sink | `src/audit/logger.ts` | `lastHash`, the file | `init`, `write`, `close` | `write` is called concurrently; it hashes before and appends after an await; calls may reject; the process or the machine may stop anywhere |
| Audit verifier | `src/audit/logger.ts` | none | `verifyAuditChain` | the hash has no key: what can still be noticed, and when |
| Tool call gateway | `src/mcp.ts`, `src/index.ts` | one async handler per call | validate, evaluate, approve, audit, answer or forward | up to five awaits per call, all calls share one sink, shutdown and crashes in between |
| Upstream manager | `src/proxy/upstream.ts`, `idmap.ts` | process, id counter, pending map, timers | `start`, `send`, exit, timeout | answer, timer and exit race for each request |
| Upstream supervisor | `src/mcp.ts` `start`, `shutdown` | `upstream`, `isReconnecting`, `reconnectAttempts`, the backoff timer | boot, crash, reconnect, signal | managers of failed attempts live on; the current one is replaced while it is in use |
| Step-up webhook | `src/stepup/webhook.ts` | per call: timer, nonce | `requestApproval` | three timers against a slow, late or malformed answer; what silence means |
| Policy engine | `src/policy/engine.ts` | rules, read once | `evaluate` | order of rules, 50 ms bound on a pattern, unvalidated effects |
| Token validation | `src/oauth/tokenValidator.ts`, `src/adapters` | key set cache (library) | `validate` | order of checks, session binding |
| Standard input framing | `src/mcp.ts` `listenToStdin` | `buffer` | data event | lines split over chunks, the 10 MB limit |
| JSON-RPC dispatch | `src/mcp.ts` `handleLine` | none | by `id`, method and mode | lines without id |
| HTTP server | `src/index.ts` | Fastify's | routes, hooks, error handler | closing with calls in progress |
| Configuration | `src/config.ts` | none after start | `loadConfig` | what is defaulted, what is checked, and what is neither |
| Resource metadata, benchmark | `src/oauth/resourceMetadata.ts`, `benchmark.js` | none | | |

How they interact: a gateway handler calls the validator, the engine, the
webhook, the sink and (in proxy mode) the current upstream manager, awaiting
each. Node runs one handler at a time, from one await to the next. The
handlers share the sink and the manager. The supervisor creates managers and
listens to their `crash` event; it replaces the variable `upstream` that the
handlers read. A signal runs `shutdown`, which ends the process.

What makes each correct:

- **Sink**: an acknowledged event survives a crash and can be read; the sink's
  own doings never look like tampering; lines never fork.
- **Verifier**: once the sink has appended to a file that others changed, the
  file no longer verifies, whatever hashes they computed.
- **Gateway**: nothing is let through, or answered, before its decision is on
  the disk; only an allow is let through; every call ends.
- **Manager**: each call is settled once, with its own answer; nothing is left
  pending or armed.
- **Supervisor**: an upstream that is gone is replaced; one attempt at a time;
  a signal ends the gateway.
- **Webhook, engine, validator, configuration** together: what is allowed was
  allowed by a rule that matches, for the holder of the token, and where a human
  is to decide, by an approval of this very request, within the time given.
- **Standard input**: lines are handled as the client wrote them, whatever the
  chunks; every request is answered once.

`PROJECT.json` lists the hazards behind these, with their lines.

## Modules

| Module | Role |
|---|---|
| `AuditChain` | lines, hashes and `verifyAuditChain` as operators |
| `AuditSink` | `FileAuditSink`: one action per stage of `write`, the faults, `init` |
| `AuditSinkProofs` | theorems about `AuditSink` |
| `AuditVerifier`, `AuditVerifierProofs` | the verifier and a sink whose file others change, and theorems |
| `AuthorizationContract` | abstract: one final durable verdict per call, only an allow is executed |
| `DecisionContract` | abstract: how a verdict comes about, from the policy and the approver |
| `ToolCallGateway`, `ToolCallGatewayProofs` | the handlers of the three entry points, over `AuditSink`, and theorems |
| `SendContract` | abstract: what `send()` promises |
| `UpstreamManager` | the managers and their id maps |
| `UpstreamManagerProofs`, `UpstreamRoutingProofs` | theorems about `UpstreamManager` |
| `Reconnect`, `ReconnectProofs` | the supervisor, over `UpstreamManager`, and theorems |
| `PolicyEngine`, `TokenValidation`, `Configuration` | rules, token checks and `loadConfig` as operators |
| `StepUpWebhook` | `requestApproval`: one action per event of its request |
| `Authorization`, `AuthorizationProofs` | one call from the configuration file to its verdict, over the four modules above, and theorems |
| `StdioServer`, `StdioServerProofs` | `listenToStdin`, `handleLine` and what the handlers write, and theorems |
| `...MC` | symmetry sets and constants for TLC |

`ToolCallGateway` has an `INSTANCE` of `AuditSink` whose events are pairs of a
call and `"decision"` or `"upstream_failure"`; its actions conjoin the sink's.
`Reconnect` has an `INSTANCE` of `UpstreamManager` with one manager per
attempt. `Authorization` has an `INSTANCE` of `StepUpWebhook` that is given the
arguments of the provider's constructor, and extends the three modules of
operators. `Authorization` and `ToolCallGateway` both implement
`DecisionContract`, the first for one call in detail, the second for several
that interleave: that is what allows `ToolCallGateway` to take the result of
the policy and the answer of the approver as inputs. Each operation named
*Mutation of ...* is a variant of the definition that follows it, with a
plausible mistake in it; none is part of a `Next`. They are kept to show that
each property notices a mistake.

### AuditSink

An event goes `new`, `hashed`, `appended`, `synced`, `acked`: the synchronous
head of `write`, then the promises of `open`+`write`, of `sync`, and of
`close`. `failed` is a rejected call, `lost` one that the process did not
outlive. `file` is the sequence of lines the kernel holds, `synced` how many of
them are on the disk, `openTail` that the last one lacks its newline. Bytes
that run into a line of the disk may be lost by themselves: until they are
synced, `diskTail` keeps what the disk has of that line, and `PowerLossInLine`
goes back to it. A line is
a record; a line cut short or run together with another is one that is not
`whole`. SHA-256 is taken as injective: a hash is the sequence of events that
it commits to. `Serialized` says whether callers await each write before the
next (a single client that waits for its answers) or not (the general case).
`Faults` selects what may go wrong, since which properties hold depends on it.
Which of the operations in flight completes first is nondeterministic: they run
in the thread pool.

### AuditVerifier

Here an event has a core (the top-level fields as one value) and a `step_up`.
`ContentToHash` models what `JSON.stringify` keeps when it is given a key list:
of the nested object, nothing but that it is there.

`prev` and `hash` are fields of the line like any other: the verifier reads
them from the file, and whoever changes a line can compute its hash as well,
since there is no key. `Tamper` edits events, gives a line the hashes that fit
it (`Rehash`), spoils, removes, exchanges and repeats lines, and inserts foreign
ones. Meanwhile the sink goes on: it hashes (`HashEvent`), appends in any order,
and starts over from the file (`Restart`). `found` is the file as the running
process found it, `written` the lines it has hashed since.

What can be promised follows from the hash that the sink has in memory. A file
whose end was rewritten verifies (`TamperingDetected` below). But the next line
that the gateway appends names the hash of the last line that it wrote itself,
so it seals all lines before it: `SealedIsAuthentic` says that a file which ends
in such a line and verifies says, in the fields that are hashed, what the
process found and wrote, and nothing else. Of what was done to the file while no
process was running, and verified when one started, nothing can be said.

### ToolCallGateway

`pc` says which await a handler is in. An action is the stretch from the event
that the await waited for to the next await, including the synchronous head of
the `write` that it calls (`Decide` and `UpstreamFails` conjoin
`Sink!HashEvent`), and the answer to the client. `deployment`, which never
changes, holds the entry point (`Mode`), the step-up configuration and the
results that the policy may have. The entry points differ in the test of the
decision (`LetsThrough`), in what happens to an uncaught error, and in
shutdown. The policy's result and the approver's
answer are inputs. `executed` holds the calls that were forwarded, or that the
client was told it may execute. The connection to the upstream is abstract:
`send` succeeds or fails; its detail is `UpstreamManager` and `Reconnect`.

### UpstreamManager

State is a function of the manager because old ones live on. A process is
`running`, `exited` (dead, event to come) or `reaped` (`crashed` is set).
`atServer` holds the requests that the process has read: it may answer each
once, at any time and in any order, also after its exit was seen. A server
request is a line with an id of the server's own numbering; a number the
manager never gives out is represented by one that it does not reach. Lines
without an id and lines that do not parse change nothing and have no action.

### Reconnect

`UpstreamExits` is one action for the whole `exit` event: `rejectAll`, the
`crash` listener, the continuation of the awaited `start()`, the listener of
`shutdown`. `Delay` is in seconds: 2^n up to the cap of 15, which `2^4` is the
first to exceed. Managers are used in order, so a manager is
also the number of the attempt. `Faults` selects slow handshakes and the two
errors that nobody listens to: of a write to a process that is dead or whose
stdin `shutdown` has ended, be it a call or `notifications/initialized`
(`Write`), and of a command that cannot be spawned.

### Authorization and the modules it is made of

The calls in flight share nothing on the way to their verdict but what was read
at boot, so one call is followed. `file`, `rules` and `call` are chosen once;
`Boot` is `loadConfig`, the reading of the rules and the bootstrap of the audit
directory, any of which may end the process. What may be missing from a file, a
token or a rule is a set of no or one value.

- `Configuration`: a number of the file is a number, NaN, or no number at all,
  since `validate` treats the three differently (NaN passes). A listen string
  is what `split` and `parseInt` make of it.
- `PolicyEngine`: a pattern is the tool it is equal to and the set of tools its
  script matches. `slow` is the set of patterns whose script is cut off after
  50 ms in this evaluation; any set may be. A broken rule makes `evaluate`
  throw when it is reached.
- `TokenValidation`: what jose verifies is one flag of the token, its issuer
  and its expiry; the checks of the code follow in their order.
- `StepUpWebhook`: `abortAt` is the timer of the code, `transportAt` those of
  undici, which start over with the headers and with each part of the body. The
  clock counts minutes up to the next timer that is due. A body is the outcome,
  the nonce (of this request or another) and the signature (that of the secret
  and this request, another one, none, or no string). An empty
  `webhook_secret` is none.

### StdioServer

The client's stream is a sequence of messages, each with its bytes; a byte
knows its line. `reads` of a message says what JSON makes of the text from each
of its bytes on: the tail of a line that was dropped in part can be a request,
too, if the line begins with blanks or is no JSON itself. `Data` takes any
number of bytes up to `MaxChunk`, decodes them, appends them to `buffer` and
either drops it or cuts it into lines, each of which `HandleLines` gives to
`handleLine`: `FirstStep` says where that is at its first await,
`AnsweredAtOnce` and `ForwardedAtOnce` what it has written by then, and
`AnsweredByCatch` what a rejection adds in a microtask, after the last line of
the chunk. After that a handler is `"authorizing"`, which stands for everything
up to the decision and its audit, or `"forwarded"`, or over. `resets` is
history: after how many lines the buffer was dropped.

## Runs

Passing:

| Run | Bounds | Shows |
|---|---|---|
| `AuditSinkSerial` | 5 events, one at a time, kill, power loss | `AckedDurable`, `ChainVerifies` |
| `AuditSinkConcurrent` | 4 events in flight together, no faults | `NoFork`, `NothingDangles` |
| `AuditSinkAll` | 3 events in flight together, every fault | `TypeOK`, `VerifiedIsComplete` |
| `AuditVerifier` | 3 events found and written, 2 changes, 2 foreign lines | `SealedIsAuthentic` |
| `Gateway` | 2 calls, 4 deployments: proxy with `on_timeout: deny`, http without step-up and with `on_timeout: allow`, standalone; kill, power loss, rejections, restarts | `TypeOK`, `Mediated`, `AnswersAudited`, `FailureFollowsDecision`, `CallsSettle`, `ContractHonoured` and `DecisionsHonoured` (it implements `AuthorizationContract` and `DecisionContract`) |
| `UpstreamManager` | 2 managers, 2 calls, requests of the server | `TypeOK`, `AnswersMatch`, `TimersGuardEntries`, `WaitingIsPending`, `DrainedOnExit`, `CallsSettle`, `ContractHonoured` (it implements `SendContract`) |
| `Reconnect` | 4 managers, the fourth reliable, 1 call, slow handshakes, broken pipes, failing spawns | `TypeOK`, `RecoveryPending`, `OneAttempt`, `BackoffCounts`, `ManagersBehave` (it is an `UpstreamManager` all along), `ServiceResumes`, `ShutdownEnds` |
| `Authorization` | 20 files, 42 rule files, 33 calls, every body, timers of up to 7 minutes against 5 of undici | `TypeOK`, `AllowedByRule`, `ExplicitApproval`, `ApproverHasTime`, `DecisionFresh`, `CallEnds`, `DecisionsHonoured` (it implements `DecisionContract`) |
| `StdioServer` | 276 streams of up to 4 messages, blank ones and tails that parse among them, both modes, a buffer of 6, chunks of up to 3 | `TypeOK`, `ClientLinesOnly`, `OnlyLongLinesDrop`, `AnsweredOnce`, `OrderKept` |

Why the bounds are enough to be interesting: two writes in flight already
reorder, a third one shows what a later one makes of it, and the fourth and
fifth let the same happen again after a restart. Two calls interleave in every
pair of awaits; each writes up to two events. Two managers are needed to see
one replaced, three to see the left-over of a failed attempt beside a healthy
one, four to see two left-overs, or a crash after a recovery. Four managers
are the delays 1, 2 and 4; the cap of 15 seconds is not reached. Two changes to
the audit file are an edit and its re-hashing, or the forging of one line before
a write and one after it.

In `Authorization` the default timeout of 120 seconds is 2 minutes, the 300
seconds of undici are 5, and `TimerMax`, which stands for the 2147483 seconds
that a timer of Node can keep, is 7: the files have timeouts below, between and
above the two limits, zero, NaN and no number. `MaxClock` is past every timer.
The rules are every single one of ten shapes, and each before one of three, so
that an earlier rule may be skipped, throw, or decide. The tokens fail each
check once, and are paired with no session, the right one and a wrong one. In
`StdioServer` a line of 7 does not fit into the buffer of 6, two of which come
in one stream, with every line before, between and after; chunks of up to 3
hold up to three lines, or cut one, or a character of two bytes.

What the runs leave out on purpose: the proxy in `Gateway` has no policy
results but allow, deny and step_up, since with others `Mediated` does not hold
in that mode (below). `AckedDurable` and `NoFork` are
proved for the combinations of faults under which they hold (below), which are
more than the runs try. Behaviours end when the events, calls or managers are
used up, and a gateway may have exited for good: deadlock is not checked.

Fairness. `Gateway`: the token check settles (jose bounds its fetch), the
abort timer of the webhook fires, `request_timeout` of the upstream fires, and
the file operations complete. Nothing is assumed of the approver or the
upstream, only the timers. `Authorization`: the same, with the clock and the
timers of the webhook in place of "the webhook ends"; a body that trickles in
without end is ended by the abort timer alone. `StdioServer` states no
fairness: that each handler gets to its end is `CallsSettle` of `Gateway` and of
`UpstreamManager`, and that its line is then answered is `AnsweredOnce`.
`UpstreamManager`: request timers fire and Node
delivers the exit of a dead process. `Reconnect`: the same, the backoff
timer fires, and a process that neither dies nor stalls answers the handshake;
`ServiceResumes` assumes that one process within the bound is such a one, or
no attempt need ever succeed.

### Where the code and its documents disagree

Three runs end in a violation. Each quotes a comment or message in
`PROJECT.json`.

| Run | Property | What happens |
|---|---|---|
| `AuditSinkReordered` | `ChainVerifies` | two writes in flight append in the other order, and an untouched file is reported as tampered with |
| `UpstreamManagerServerRequest` | `AnswersMatch` | a request by the upstream server is taken for the answer to a pending call of that number |
| `ReconnectHealthy` | `ReconnectOnlyWhenDown` | the late exit of a timed-out attempt replaces a healthy upstream |

The modules state more such properties, which no run repeats. To reproduce one,
start from the configuration named, make it the only `INVARIANT` and give the
constants these values, if any:

| Property | From | With | What happens |
|---|---|---|---|
| `ChainVerifies` | `AuditSinkSerial` | `Faults = {"failedCall"}` | a write that rejects before its append leaves `lastHash` ahead of the file; the next line does not verify |
| `AckedDurable` | `AuditSinkSerial` | `Faults = {"powerLoss", "tornTail"}` | an acknowledged event is appended to a torn line and cannot be read (`logger.ts:9` promises durability) |
| `AckedDurable` | `AuditSinkSerial` | `Faults = {"shortWrite"}` | an acknowledged event was cut short by a write that took fewer bytes |
| `SealedStepUpIsAuthentic` | `AuditVerifier` | | `step_up` is hashed as `{}`, its content can change (`logger.ts:82`) |
| `TamperingDetected` | `AuditVerifier` | | the last line is edited and hashed anew, and the file verifies (`logger.ts:83`) |
| `ForwardedOnlyIfAuthorized` | `Gateway` | `Foreseen == {"unrecognised"}` in `ToolCallGatewayMC` | a rule with a misspelt effect forwards the call (`README.md:191`) |
| `EveryCallIntercepted` | `StdioServer` | | `tools/call` without an id is forwarded as a notification (`README.md:191`) |
| `Transparent` | `StdioServer` | | a character on the border of two chunks is replaced (`README.md:191`) |
| `FirstMatchWins` | `Authorization` | | a pattern that takes too long is passed over, and a later rule decides (`SPEC.md:80`) |
| `ApproverAsked` | `Authorization` | | with `mode: ciba` no URL is required: every request to it fails, and `on_timeout: allow` lets the call pass (`SPEC.md:84`) |
| `TimeConfigured` | `Authorization` | | the wait ends at 300 s when undici gives up, or at once when the timer overflows (`SPEC.md:151`) |
| `FlushedOnShutdown` | `Gateway` | | a signal cuts off an audit write (`CHANGELOG.md:32`) |
| `EveryOutcomeAudited` | `Gateway` | | a rejected token leaves no audit event (`SPEC.md:118`) |
| `HandshakeChecked` | `UpstreamManager` | | an error response to `initialize` completes the handshake (`upstream.ts:13`) |
| `ForwardedAfterHandshake` | `Reconnect` | | calls are forwarded during the handshake of a reconnect (`upstream.ts:36`) |
| `InitializeCached` | `Reconnect` | | a client's `initialize` is answered with null during a reconnect (`mcp.ts:136`) |

## Theorems

Every invariant that a run checks is also a theorem, and so is every
refinement: for every value of the constants, under the modules' own
assumptions and those named here. A module's own assumptions say what kind of
values its constants have (an `ASSUME`, which TLC evaluates in every run).

The sink.

- `AuditSinkProofs!TypeCorrect`: `Spec => []TypeOK`.
- `VerifiedCompleteness`: a file that verifies holds every
  acknowledged event, under every fault. `VerifiedIsComplete` is not inductive:
  it says nothing of writes not yet acknowledged, nor of damaged lines.
  `HeldInv` says that an appended event has, within the reach it has been
  assured of (the file, then its synced part), its line or a line that does
  not parse. A verifying file has none of the latter. Since a power loss may
  take a line of the disk back to what it was (`diskTail`), the same is said of
  that (`HeldOnDisk`).
- `Durability` (`NoTearing`: no `tornTail`, no `shortWrite`): from `HeldInv`
  and `NoScar`, that every line is whole.
- `ChainVerified` (`OneAtATime`: serialized, only kills and power losses):
  `ChainInv` adds `TipInv`: the tip of the chain in memory is what `init`
  would recover from the file, or one event ahead of it while that event is in
  flight.
- `ForkFree` (`OneLife` of the process): `ForkInv` orders the
  hashed events by the length of the chain that each continues, which
  `lastHash` exceeds.
- `ChainUnbroken` (`NothingFails`): `LinkInv` says that the
  predecessor an event was hashed with is an event hashed before it, so that
  its line is in the file once all writes have settled.

The verifier.

- `AuditVerifierProofs!HashDetermines`: two files that verify and have a hash
  in common have it in the same place and agree, in the hashed fields, on all
  lines up to it. A hash is the sequence of what was hashed, and where a file
  verifies, that of line i is what the first i lines say (`VerifyLineByLine`).
- `Sealed`: `SealedIsAuthentic`, for any history and any number of changes,
  with any foreign lines. The inductive part says nothing of the file, which
  others may change as they like, but of what the process has in memory: each
  line it has hashed continues the one before, the first the last hash of
  `found` (`ChainInv`). So if `found` verifies, `found` followed by `written`
  does (`RecordVerifies`), and `HashDetermines` compares that with the file.

The gateway.

- `ToolCallGatewayProofs!SinkImplemented`: the gateway's steps are steps of
  `AuditSink` or leave it alone. So the sink's theorems carry over; the
  following ones use `Audit!HeldInv`.
- `TypeCorrect`; `Mediation` (`Untorn`: no torn or short lines; `Recognised`:
  no proxy has a policy with an effect that is none of the three), and
  `Accountability` (`Untorn`): `CallInv` links where a handler is to how far
  the writes of its events are. Without it nothing says that the
  handler that goes on is the one whose write was acknowledged.
- `VerifiedFileAccounts` (`Recognised`): both, under every fault, for a file
  that verifies.
- `FailuresFollow` (`Untorn`): the failure is hashed only after the decision
  was acknowledged, so it is behind it in the file, and appends never reorder.
- `ContractImplemented` (`Untorn`, `Recognised`) and `DecisionsImplemented`:
  each step is one of `AuthorizationContract`, and of `DecisionContract`, or a
  stutter.

`Recognised` cannot be dropped from `Mediation` (see
`ForwardedOnlyIfAuthorized` above), nor `Untorn` from `Accountability`
(`AckedDurable` above).

The managers and the supervisor.

- `UpstreamManagerProofs!TypeCorrect`, and `TimersGuard`: `IdInv` says that
  pending and delivered requests have ids up to the counter, each its own.
  Every step adds one entry under a fresh id or removes some (`StepShapes`).
- `UpstreamRoutingProofs!WaitingPending` and `Drained`: `Calling` states the
  correspondence of waiting calls and entries in both directions, with
  uniqueness over all managers, without which a rejection in one could leave an
  entry in another.
- `UpstreamRoutingProofs!Honoured` and `RoutedRight` (`ForeignIds`: the
  server's own ids are none that a manager gives out): each step of the
  managers is a step of `SendContract` or one it does not see, because with
  `IdInv` an answer finds no entry but that of its own request.
  `UpstreamManagerServerRequest` shows the assumption is needed.
- `ReconnectProofs!ManagersImplemented`: the supervisor's steps are steps of
  `UpstreamManager`; with it `CallsTracked` and, under `ForeignIds`,
  `CallsRoutedRight` take the managers' theorems over.
- `TypeCorrect`, `RecoveryAlwaysPending`, `OneAttemptAtATime`,
  `BackoffCounted`: from `SupervisorInv` and `ManagerInv`. They say which
  managers have been used, that nothing disturbs the boot, that in service
  `isReconnecting` is set exactly while a timer or a handshake is under way,
  that the attempts counted are those that failed in a row, and that what a
  shutdown waits for is not reaped yet. By itself none of them is inductive:
  that a crash starts no second attempt depends on which managers can still
  crash.

One call in detail.

- `AuthorizationProofs!TypeCorrect`, `RuleAllows`, `ApprovalExplicit`,
  `ApproverTimed`, `FreshWhenAllowed`, from `AuthorizationInv`: `BootInv`
  (past the boot the configuration is the file with its defaults, and valid),
  `VerdictInv` (the policy's result is that of `Evaluate` for a token that was
  not refused and some set of slow patterns; an `allow` is its own or the
  approver's), `WebhookInv` (the webhook has the time that the configuration
  gives it and the clock is not past it).
- `ContractImplemented`: one call implements `DecisionContract`, which
  `ToolCallGateway` implements for several.

Standard input, where a chunk is assumed to be no longer than the limit (Node
reads 64 KiB at a time from a pipe, the limit is 10 MB).

- `StdioServerProofs!TypeCorrect`: the buffer is within the limit because
  the rest that `RestOf` leaves is no longer than the text that was.
- `ClientLines`: `HandledInv` says that what was handled are ends of lines,
  in order, all before those that the buffer and the rest of the stream are of;
  `BufferInv` that the buffer is what was read last, that there is no newline
  in it, and that it begins where a line begins unless it was dropped after the
  last line. Neither is inductive without the other. Under them are lemmas on
  what `Newlines`, `LinesOf` and `RestOf` compute for every text (`LinesCut`,
  `RestCut`) and on how the stream is laid out (`InOrder`).
- `LongLinesDrop`: `DropInv` is about lines whose begin is behind the
  buffer, whether or not their newline has arrived: each of them was handled
  whole, or there is a long one at or before it that was not.
- `OneAnswer`: `AnswersInv` ties the step of each handler to the kind of its
  line, and answers to handlers in both directions.
- `OrderAtUpstream`: what is forwarded at once is behind all lines handled
  before; only a decision forwards later.

Some of this needs induction over data (a file, a text, a flattened sequence).
The induction theorems of the library take operators, so these proofs take a
least counterexample instead (`CountUp`), which is why the modules state such
computations as recursive functions or with `FlattenSeq`. Arithmetic on `Len` of
a compound term is beyond Z3 in most places: the proofs name the length and
hide what it is.

Only model-checked: liveness (`CallsSettle` of `Gateway` and of
`UpstreamManager`, `CallEnds`, `ServiceResumes`, `ShutdownEnds`), which needs
fairness and `ENABLED`. That is all of it.

## Not modelled

The text of tokens, rules, arguments and answers; the checks that JavaScript
makes of types where no decision depends on them; Fastify's own behaviour, CORS,
the health check and the rate limiter, which keep no state of this code; the
resource metadata, a constant document; the allowlisted environment of the
upstream; the parameters of notifications; `startup_timeout` and
`request_timeout` as numbers (each timer of `UpstreamManager` may fire at any
time); `benchmark.js`. jose, undici, js-yaml, Fastify and Node are modelled as
the code relies on them. The hazards in `PROJECT.json` that no property covers
say which of these matter.

## Plan

Done, in the order of importance: the sink, the gateway over it, the manager,
the supervisor over that, the verifier, the path to a verdict in detail with
its four parts, and the front of standard input; then the theorems on each of
them, up to every invariant and refinement that a run checks.

Next:

1. Of the properties in the table of disagreements, those that hold under a
   condition: `FirstMatchWins` when no pattern is slow,
   `ForwardedAfterHandshake` outside of reconnections, `Transparent` when no
   character takes two bytes. Each condition, as a theorem, says what the
   documents leave out.
2. Action properties: that a verdict, an answer or an acknowledgement is never
   taken back is a consequence of the refinements, which could be stated for
   the detailed modules by themselves.
3. What the weakest assumptions are: `Durability` with `NoTearing` and
   `ForkFree` with `OneLife` are proved for sets of faults; which single steps
   break them is shown by runs only.
