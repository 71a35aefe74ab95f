------------------------------ MODULE Reconnect ------------------------------
(* The supervision of the upstream in proxy mode (src/src/mcp.ts): start,  *)
(* handleUpstreamCrash, the backoff timer, shutdown, and the requests that *)
(* clients send meanwhile.  It drives UpstreamManager, one instance per    *)
(* attempt; manager 1 is the one of the boot, and an attempt takes the     *)
(* next number.                                                            *)
EXTENDS Naturals, FiniteSets

CONSTANTS
    MaxManagers,         \* bound: boot and reconnect attempts in one life
    Calls,
    Handshake,
    ServerRequestIds,
    Reliable,            \* managers whose process neither dies nor stalls
    Faults               \* which of FaultKinds may happen

(* slowStart   a handshake may outlast startup_timeout                     *)
(* brokenPipe  writing to a process that died, or after shutdown() has     *)
(*             ended its stdin, raises an unhandled 'error'                *)
(* spawnError  the command cannot be spawned: an unhandled 'error', too    *)
FaultKinds == {"slowStart", "brokenPipe", "spawnError"}

ASSUME ReconnectAssumption ==
    /\ MaxManagers \in Nat \ {0}
    /\ Handshake \notin Calls
    /\ ServerRequestIds \subseteq Nat
    /\ Reliable \subseteq 1..MaxManagers
    /\ Faults \subseteq FaultKinds

Managers == 1..MaxManagers

VARIABLES
    phase,               \* booting, serving (stdin is listened to) or exited
    current,             \* the variable `upstream'
    isReconnecting,
    reconnectAttempts,
    backoff,             \* the delay of the armed reconnect timer, 0 if none
    stopTargets,         \* the managers that shutdown() waits for
    premature,           \* calls written before the handshake was over
    proc, counter, pending, timers, atServer, handshake, initResult, status, answer

supervisorVars ==
    << phase, current, isReconnecting, reconnectAttempts, backoff, stopTargets, premature >>
managerVars ==
    << proc, counter, pending, timers, atServer, handshake, initResult, status, answer >>
vars == << supervisorVars, managerVars >>

UM == INSTANCE UpstreamManager

(* The delay before attempt n + 1, in seconds: the lesser of 2^n and 15.   *)
Delay(n) == IF n < 4 THEN 2^n ELSE 15

TypeOK ==
    /\ phase \in {"booting", "serving", "exited"}
    /\ current \in Managers
    /\ isReconnecting \in BOOLEAN
    /\ reconnectAttempts \in 0..MaxManagers
    /\ backoff \in 0..15
    /\ stopTargets \subseteq Managers
    /\ premature \subseteq Calls
    /\ UM!TypeOK

Init ==
    /\ phase = "booting"
    /\ current = 1
    /\ isReconnecting = FALSE
    /\ reconnectAttempts = 0
    /\ backoff = 0
    /\ stopTargets = {}
    /\ premature = {}
    /\ UM!Init

-----------------------------------------------------------------------------
Up == phase # "exited"

(* Mutation of ArmBackoff: the crash listener and the catch both count. *)
ArmBackoffTwice ==
    /\ isReconnecting' = TRUE
    /\ backoff' = Delay(reconnectAttempts)
    /\ reconnectAttempts' = reconnectAttempts + 2

(* handleUpstreamCrash past its guard: the timer is armed. *)
ArmBackoff ==
    /\ isReconnecting' = TRUE
    /\ backoff' = Delay(reconnectAttempts)
    /\ reconnectAttempts' = reconnectAttempts + 1

KeepBackoff == UNCHANGED << isReconnecting, backoff, reconnectAttempts >>

(* A write to the stdin of m's process, after which the gateway is as it   *)
(* was or `then', unless nobody is there to read and the 'error' ends it.  *)
Write(m, then) ==
    \/ phase' = then
    \/ /\ "brokenPipe" \in Faults
       /\ proc[m] = "exited" \/ m \in stopTargets
       /\ phase' = "exited"

(* Mutation of HandshakeSucceeds: the backoff is not reset. *)
HandshakeSucceedsKeepingCount(m) ==
    /\ Write(m, "serving")
    /\ IF phase = "booting"
         THEN KeepBackoff
         ELSE isReconnecting' = FALSE /\ UNCHANGED << backoff, reconnectAttempts >>

(* The process has answered: it is sent notifications/initialized, and     *)
(* await upstream.start() is over.  At boot, listenToStdin follows; in the *)
(* timer's callback, the attempt counts as the last one.                   *)
HandshakeSucceeds(m) ==
    /\ Write(m, "serving")
    /\ IF phase = "booting"
         THEN KeepBackoff
         ELSE /\ reconnectAttempts' = 0
              /\ isReconnecting' = FALSE
              /\ UNCHANGED backoff

(* Mutation of HandshakeFails: isReconnecting is not reset, so that        *)
(* handleUpstreamCrash returns at its guard.                               *)
HandshakeFailsGuarded ==
    IF phase = "booting"
      THEN phase' = "exited" /\ KeepBackoff
      ELSE UNCHANGED phase /\ KeepBackoff

(* Mutation of HandshakeFails: the catch makes no further attempt. *)
HandshakeFailsOnce ==
    IF phase = "booting"
      THEN phase' = "exited" /\ KeepBackoff
      ELSE isReconnecting' = FALSE /\ UNCHANGED << phase, backoff, reconnectAttempts >>

(* It has failed: at boot, process.exit; otherwise the catch calls         *)
(* handleUpstreamCrash with isReconnecting reset.                          *)
HandshakeFails ==
    IF phase = "booting"
      THEN phase' = "exited" /\ KeepBackoff
      ELSE ArmBackoff /\ UNCHANGED phase

(* What follows from the promise of manager m's start() settling.          *)
AfterHandshake(m) ==
    \/ handshake'[m] = handshake[m] /\ UNCHANGED phase /\ KeepBackoff
    \/ handshake[m] = "waiting" /\ handshake'[m] = "ready"  /\ HandshakeSucceeds(m)
    \/ handshake[m] = "waiting" /\ handshake'[m] = "failed" /\ HandshakeFails

-----------------------------------------------------------------------------
(* The supervisor *)

(* start() has spawned the process, or nobody listens to its 'error' and   *)
(* the gateway ends.                                                       *)
Spawned(m) ==
    \/ UNCHANGED phase
    \/ "spawnError" \in Faults /\ m \notin Reliable /\ phase' = "exited"

Boot ==
    /\ phase = "booting"
    /\ UM!Start(1)
    /\ Spawned(1)
    /\ UNCHANGED << current, isReconnecting, reconnectAttempts, backoff, stopTargets, premature >>

(* Mutation of Attempt: the old UpstreamManager is started again. *)
AttemptReusing ==
    /\ Up
    /\ backoff > 0
    /\ proc' = [proc EXCEPT ![current] = "running"]
    /\ handshake' = [handshake EXCEPT ![current] = "waiting"]
    /\ UM!Register(current, Handshake)
    /\ backoff' = 0
    /\ UNCHANGED << phase, current, isReconnecting, reconnectAttempts, stopTargets, premature,
                    initResult, status, answer >>

(* The callback of the backoff timer replaces `upstream' before the new    *)
(* process has answered anything.                                          *)
Attempt ==
    /\ Up
    /\ backoff > 0
    /\ \E m \in Managers :
          /\ proc[m] = "none"
          /\ \A n \in 1..(m-1) : proc[n] # "none"
          /\ UM!Start(m)
          /\ Spawned(m)
          /\ current' = m
    /\ backoff' = 0
    /\ UNCHANGED << isReconnecting, reconnectAttempts, stopTargets, premature >>

(* Mutation of UpstreamExits: handleUpstreamCrash without its guard. *)
UpstreamExitsUnguarded(m) ==
    /\ Up
    /\ UM!ExitEvent(m)
    /\ IF m \in stopTargets
         THEN phase' = "exited" /\ KeepBackoff
         ELSE IF handshake[m] = "waiting"
           THEN HandshakeFails
           ELSE ArmBackoff /\ UNCHANGED phase
    /\ UNCHANGED << current, stopTargets, premature >>

(* The exit of a process: rejectAll, the "crash" event with its listener   *)
(* handleUpstreamCrash, then what awaited start(), and last shutdown().    *)
UpstreamExits(m) ==
    /\ Up
    /\ UM!ExitEvent(m)
    /\ IF m \in stopTargets
         THEN phase' = "exited" /\ KeepBackoff
         ELSE IF handshake[m] = "waiting"
           THEN HandshakeFails
           ELSE /\ IF isReconnecting THEN KeepBackoff ELSE ArmBackoff
                /\ UNCHANGED phase
    /\ UNCHANGED << current, stopTargets, premature >>

TimerFires(m, id) ==
    /\ Up
    /\ UM!Timeout(m, id)
    /\ \A e \in pending[m] : e.id = id /\ e.call = Handshake =>
          "slowStart" \in Faults /\ m \notin Reliable
    /\ AfterHandshake(m)
    /\ UNCHANGED << current, stopTargets, premature >>

LineArrives(m) ==
    /\ Up
    /\ \/ \E req \in atServer[m] : UM!ServerAnswers(m, req)
       \/ \E id \in ServerRequestIds : UM!ServerRequests(m, id)
    /\ AfterHandshake(m)
    /\ UNCHANGED << current, stopTargets, premature >>

ProcessDies(m) ==
    /\ Up
    /\ m \notin Reliable \/ m \in stopTargets
    /\ UM!ProcessDies(m)
    /\ UNCHANGED supervisorVars

(* SIGTERM or SIGINT: upstream.shutdown() ends the stdin of the process,   *)
(* or has nothing to wait for.                                             *)
Signal ==
    /\ Up
    /\ IF proc[current] \in {"none", "reaped"}
         THEN phase' = "exited" /\ UNCHANGED stopTargets
         ELSE stopTargets' = stopTargets \cup {current} /\ UNCHANGED phase
    /\ UNCHANGED << current, isReconnecting, reconnectAttempts, backoff, premature, managerVars >>

(* Mutation of ForceKill: only a process that has ended is given up. *)
ForceKillEnded(m) ==
    /\ Up
    /\ m \in stopTargets
    /\ proc[m] = "exited"
    /\ phase' = "exited"
    /\ UNCHANGED << current, isReconnecting, reconnectAttempts, backoff, stopTargets, premature,
                    managerVars >>

(* Five seconds later: SIGKILL, and process.exit. *)
ForceKill(m) ==
    /\ Up
    /\ m \in stopTargets
    /\ phase' = "exited"
    /\ proc' = [proc EXCEPT ![m] = "exited"]
    /\ UNCHANGED << current, isReconnecting, reconnectAttempts, backoff, stopTargets, premature,
                    counter, pending, timers, atServer, handshake, initResult, status, answer >>

-----------------------------------------------------------------------------
(* The clients, once stdin is listened to *)

(* A call is forwarded to whatever `upstream' is now.  The handshake that  *)
(* manager may still be in is not asked about, nor whether shutdown() has  *)
(* ended its stdin: then the line is lost (that it may be answered all the *)
(* same only adds behaviour), or the write ends the gateway.               *)
ClientCalls(c) ==
    /\ phase = "serving"
    /\ UM!Send(current, c)
    /\ premature' = IF /\ handshake[current] = "waiting" /\ proc[current] = "running"
                       /\ current \notin stopTargets
                      THEN premature \cup {c} ELSE premature
    /\ IF proc[current] = "reaped" THEN UNCHANGED phase ELSE Write(current, phase)
    /\ UNCHANGED << current, isReconnecting, reconnectAttempts, backoff, stopTargets >>

-----------------------------------------------------------------------------
Next ==
    \/ Boot \/ Attempt \/ Signal
    \/ \E m \in Managers :
          \/ UpstreamExits(m) \/ LineArrives(m) \/ ProcessDies(m) \/ ForceKill(m)
          \/ \E id \in timers[m] : TimerFires(m, id)
    \/ \E c \in Calls : ClientCalls(c)

Spec == Init /\ [][Next]_vars

HandshakeEnds(m) == LineArrives(m) /\ handshake[m] = "waiting" /\ handshake'[m] = "ready"

(* Timers fire, exits are delivered, and a process that stays up answers   *)
(* the handshake, if only too late.                                        *)
Fairness ==
    /\ WF_vars(Boot) /\ WF_vars(Attempt)
    /\ \A m \in Managers :
          /\ WF_vars(UpstreamExits(m))
          /\ WF_vars(ForceKill(m))
          /\ WF_vars(HandshakeEnds(m))
          /\ WF_vars(\E id \in timers[m] : TimerFires(m, id))

FairSpec == Spec /\ Fairness

-----------------------------------------------------------------------------
(* Properties *)

(* The guard isReconnecting swallows crash events; it may do so only while *)
(* a timer or a handshake under way will bring the next attempt about, so  *)
(* that an upstream known to be gone is never left at that.                *)
RecoveryPending ==
    phase = "serving" =>
        /\ isReconnecting <=> (backoff > 0 \/ handshake[current] = "waiting")
        /\ proc[current] = "reaped" => backoff > 0

(* One attempt at a time: no second handshake, and no timer beside it.     *)
OneAttempt ==
    \A m \in Managers :
        handshake[m] = "waiting" => m = current /\ backoff = 0

(* The attempts that have failed since a handshake last succeeded.         *)
FailedInARow ==
    {m \in 1..current : handshake[m] = "failed" /\ \A n \in m..current : handshake[n] # "ready"}

(* The delay doubles with every failed attempt, up to its limit, and       *)
(* starts over with a success: the count is that of the failures in a row, *)
(* however many events each of them raised and whichever managers that     *)
(* were given up exit meanwhile.                                           *)
BackoffCounts ==
    phase = "serving" =>
        /\ reconnectAttempts = IF isReconnecting THEN 1 + Cardinality(FailedInARow) ELSE 0
        /\ backoff > 0 => backoff = Delay(Cardinality(FailedInARow))

(* Whatever is replaced or dies, each manager is used as its class allows, *)
(* so every property of UpstreamManager holds of each.                     *)
ManagersBehave == UM!Spec

(* An upstream that exits while clients are served is replaced by one that *)
(* has completed its handshake, unless the gateway ends.                   *)
ServiceResumes ==
    phase = "serving" /\ proc[current] = "reaped"
        ~> phase = "exited" \/ handshake[current] = "ready"

(* A signal ends the gateway, whatever the upstream does.                  *)
ShutdownEnds == stopTargets # {} ~> phase = "exited"

(* "upstream crashed - attempting reconnect" (mcp.ts:536): a reconnect is  *)
(* scheduled when the upstream in use is gone.                             *)
ReconnectOnlyWhenDown ==
    backoff > 0 => ~(proc[current] = "running" /\ handshake[current] = "ready")

(* start() "resolves when the upstream is ready to accept forwarded        *)
(* requests" (upstream.ts:36): none is forwarded before.                   *)
ForwardedAfterHandshake == premature = {}

(* "Return cached initialize result" (mcp.ts:136): whenever a client may   *)
(* ask, there is one.                                                      *)
InitializeCached == phase = "serving" => initResult[current] # "null"
=============================================================================
