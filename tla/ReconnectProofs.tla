--------------------------- MODULE ReconnectProofs ---------------------------
(* Theorems about Reconnect, for every number of attempts, every set of    *)
(* calls and all the faults.  That the supervisor uses each manager as     *)
(* UpstreamManager allows is proved first; what is known of the managers   *)
(* then holds here, and the supervisor's own invariant rests on it.        *)
EXTENDS Reconnect, FiniteSetTheorems, TLAPS

Routing == INSTANCE UpstreamRoutingProofs

LEMMA ManagersAssumed == Routing!UpstreamManagerAssumption
  BY ReconnectAssumption DEF Routing!UpstreamManagerAssumption

(* UM and Routing are the same instance of UpstreamManager. *)
LEMMA SameManagers ==
    /\ UM!TypeOK <=> Routing!TypeOK
    /\ UM!Init <=> Routing!Init
    /\ UM!Next <=> Routing!Next
    /\ [UM!Next]_(UM!managerVars) <=> [Routing!Next]_(Routing!managerVars)
  <1>1. UM!TypeOK <=> Routing!TypeOK
    BY DEF UM!TypeOK, Routing!TypeOK, UM!Entries, Routing!Entries, UM!Requests, Routing!Requests
  <1>2. UM!Init <=> Routing!Init
    BY DEF UM!Init, Routing!Init
  <1>3. ASSUME NEW m \in Managers
        PROVE  /\ UM!Start(m) <=> Routing!Start(m)
               /\ \A c \in Calls : UM!Send(m, c) <=> Routing!Send(m, c)
               /\ \A req : UM!ServerAnswers(m, req) <=> Routing!ServerAnswers(m, req)
               /\ \A id : UM!ServerRequests(m, id) <=> Routing!ServerRequests(m, id)
               /\ \A id : UM!Timeout(m, id) <=> Routing!Timeout(m, id)
               /\ UM!ProcessDies(m) <=> Routing!ProcessDies(m)
               /\ UM!ExitEvent(m) <=> Routing!ExitEvent(m)
    <2>1. \A call : UM!Register(m, call) <=> Routing!Register(m, call)
      BY DEF UM!Register, Routing!Register
    <2>2. \A es : UM!Remove(m, es) <=> Routing!Remove(m, es)
      BY DEF UM!Remove, Routing!Remove
    <2>3. \A es : UM!Reject(m, es) <=> Routing!Reject(m, es)
      BY <2>2 DEF UM!Reject, Routing!Reject
    <2>4. \A e, about : UM!Resolve(m, e, about) <=> Routing!Resolve(m, e, about)
      BY <2>2 DEF UM!Resolve, Routing!Resolve
    <2>5. \A id, about : UM!DeliverLine(m, id, about) <=> Routing!DeliverLine(m, id, about)
      BY <2>4 DEF UM!DeliverLine, Routing!DeliverLine
    <2>6. UM!Start(m) <=> Routing!Start(m)
      BY <2>1 DEF UM!Start, Routing!Start
    <2>7. \A c \in Calls : UM!Send(m, c) <=> Routing!Send(m, c)
      BY <2>1 DEF UM!Send, Routing!Send
    <2>8. \A req : UM!ServerAnswers(m, req) <=> Routing!ServerAnswers(m, req)
      BY <2>5 DEF UM!ServerAnswers, Routing!ServerAnswers
    <2>9. \A id : UM!ServerRequests(m, id) <=> Routing!ServerRequests(m, id)
      BY <2>5 DEF UM!ServerRequests, Routing!ServerRequests
    <2>10. \A id : UM!Timeout(m, id) <=> Routing!Timeout(m, id)
      BY <2>3 DEF UM!Timeout, Routing!Timeout
    <2>11. UM!ProcessDies(m) <=> Routing!ProcessDies(m)
      BY DEF UM!ProcessDies, Routing!ProcessDies
    <2>12. UM!ExitEvent(m) <=> Routing!ExitEvent(m)
      BY <2>3 DEF UM!ExitEvent, Routing!ExitEvent
    <2> QED
      BY <2>6, <2>7, <2>8, <2>9, <2>10, <2>11, <2>12
  <1>4. UM!Next <=> Routing!Next
    BY <1>3 DEF UM!Next, Routing!Next
  <1>5. [UM!Next]_(UM!managerVars) <=> [Routing!Next]_(Routing!managerVars)
    BY <1>4 DEF UM!managerVars, Routing!managerVars
  <1> QED
    BY <1>1, <1>2, <1>4, <1>5

-----------------------------------------------------------------------------
(* The invariant *)

SupervisorType ==
    /\ phase \in {"booting", "serving", "exited"}
    /\ current \in Managers
    /\ isReconnecting \in BOOLEAN
    /\ reconnectAttempts \in 0..MaxManagers
    /\ backoff \in 0..15
    /\ stopTargets \subseteq Managers
    /\ premature \subseteq Calls

(* The managers are used in turn, and the one in use is the last.          *)
UsedInTurn ==
    \A m \in Managers :
        /\ m > current => proc[m] = "none"
        /\ m < current => proc[m] # "none"

(* Until the boot is over nothing has crashed: an exit ends the gateway.   *)
BootUndisturbed ==
    phase = "booting" =>
        /\ current = 1 /\ ~isReconnecting /\ backoff = 0 /\ reconnectAttempts = 0
        /\ proc[current] # "none" => handshake[current] = "waiting"

(* While clients are served the upstream in use has been started, and the  *)
(* three variables of the backoff agree with it.                           *)
ServiceSupervised ==
    phase = "serving" =>
        /\ RecoveryPending /\ BackoffCounts /\ proc[current] # "none"
        /\ ~isReconnecting => handshake[current] = "ready"

(* Every attempt counted has taken a manager of its own, save the one that *)
(* the timer is armed for.                                                 *)
AttemptsCounted ==
    /\ reconnectAttempts <= current
    /\ backoff = 0 => reconnectAttempts < current

(* What shutdown() waits for has not been reaped: that ends the gateway.   *)
StopPending ==
    Up => \A m \in stopTargets : proc[m] \in {"running", "exited"}

SupervisorInv ==
    /\ SupervisorType /\ UsedInTurn /\ BootUndisturbed /\ ServiceSupervised
    /\ AttemptsCounted /\ StopPending /\ OneAttempt

(* What is known of the managers. *)
ManagerInv ==
    /\ UM!TypeOK
    /\ Routing!DrainedOnExit
    /\ Routing!HandshakeInv

LEMMA TypeOKParts == TypeOK <=> SupervisorType /\ UM!TypeOK
  BY DEF TypeOK, SupervisorType

(* The delay is a positive number of seconds. *)
LEMMA DelayRange ==
    ASSUME NEW n \in Nat
    PROVE  Delay(n) \in 1..15
  <1>1. Delay(0) = 1
    BY DEF Delay
  <1>2. Delay(1) = 2
    BY DEF Delay
  <1>3. Delay(2) = 4
    BY DEF Delay
  <1>4. Delay(3) = 8
    BY DEF Delay
  <1>5. CASE n \in {0, 1, 2, 3}
    BY <1>1, <1>2, <1>3, <1>4, <1>5
  <1>6. CASE n \notin {0, 1, 2, 3}
    BY <1>6 DEF Delay
  <1> QED
    BY <1>5, <1>6

(* The failures in a row are finitely many, and they are the same as long  *)
(* as the handshakes up to the last manager are.                           *)
LEMMA FailuresCounted ==
    ASSUME current \in Managers
    PROVE  IsFiniteSet(FailedInARow) /\ Cardinality(FailedInARow) \in Nat
  <1>1. 1 \in Int /\ current \in Int
    BY ReconnectAssumption DEF Managers
  <1>2. IsFiniteSet(1..current)
    BY <1>1, FS_Interval
  <1>3. FailedInARow \subseteq 1..current
    BY DEF FailedInARow
  <1> QED
    BY <1>2, <1>3, FS_Subset, FS_CardinalityType

LEMMA SameFailures ==
    ASSUME current \in Managers, UNCHANGED current,
           \A n \in Managers : handshake'[n] = handshake[n]
    PROVE  FailedInARow' = FailedInARow
  <1>1. \A n \in 1..current : n \in Managers
    BY ReconnectAssumption DEF Managers
  <1>2. \A n \in 1..current : handshake'[n] = handshake[n]
    BY <1>1
  <1>3. \A m \in 1..current : \A n \in m..current : n \in 1..current
    BY ReconnectAssumption DEF Managers
  <1> QED
    BY <1>2, <1>3 DEF FailedInARow

(* The attempt under way fails: one more. *)
LEMMA OneMoreFailure ==
    ASSUME current \in Managers, UNCHANGED current,
           handshake[current] = "waiting", handshake'[current] = "failed",
           \A n \in Managers : n # current => handshake'[n] = handshake[n]
    PROVE  Cardinality(FailedInARow)' = Cardinality(FailedInARow) + 1
  <1>1. current \in Nat \ {0}
    BY ReconnectAssumption DEF Managers
  <1>2. \A n \in 1..current : n # current => handshake'[n] = handshake[n]
    BY ReconnectAssumption DEF Managers
  <1>3. \A m \in 1..current : \A n \in m..current : n \in 1..current
    BY <1>1
  <1>4. \A n \in 1..current : handshake'[n] = "ready" <=> handshake[n] = "ready"
    BY <1>2
  <1>5. \A n \in 1..current : handshake'[n] = "failed" <=> handshake[n] = "failed" \/ n = current
    BY <1>2
  <1>6. \A n \in current..current : handshake[n] # "ready"
    BY <1>1
  <1>7. current \in 1..current
    BY <1>1
  <1>8. FailedInARow' = FailedInARow \cup {current}
    BY <1>3, <1>4, <1>5, <1>6, <1>7 DEF FailedInARow
  <1>9. current \notin FailedInARow
    BY DEF FailedInARow
  <1> QED
    BY <1>8, <1>9, FailuresCounted, FS_AddElement

(* None has failed since the last manager got ready. *)
LEMMA NoFailures ==
    ASSUME current \in Managers, handshake[current] = "ready"
    PROVE  Cardinality(FailedInARow) = 0
  <1>1. \A m \in 1..current : current \in m..current
    BY ReconnectAssumption DEF Managers
  <1>2. FailedInARow = {}
    BY <1>1 DEF FailedInARow
  <1> QED
    BY <1>2, FS_EmptySet

LEMMA SupervisorInvInit == Init => SupervisorInv
  <1> SUFFICES ASSUME Init
               PROVE  SupervisorInv
    OBVIOUS
  <1>1. MaxManagers \in Nat \ {0} /\ 1 \in Managers
    BY ReconnectAssumption DEF Managers
  <1>2. \A m \in Managers : proc[m] = "none" /\ handshake[m] = "none"
    BY DEF Init, UM!Init
  <1>3. SupervisorType
    <2>1. 0 \in 0..MaxManagers /\ 0 \in 0..15 /\ FALSE \in BOOLEAN
      BY <1>1
    <2> QED
      BY <1>1, <2>1 DEF Init, SupervisorType
  <1>4. UsedInTurn
    BY <1>1, <1>2 DEF Init, UsedInTurn, Managers
  <1>5. BootUndisturbed /\ ServiceSupervised /\ AttemptsCounted /\ StopPending /\ OneAttempt
    BY <1>1, <1>2 DEF Init, BootUndisturbed, ServiceSupervised, AttemptsCounted, StopPending,
       OneAttempt
  <1> QED
    BY <1>3, <1>4, <1>5 DEF SupervisorInv

-----------------------------------------------------------------------------
(* Every step is one of a manager's, or leaves the managers alone. *)

LEMMA ManagersStep ==
    ASSUME UM!TypeOK, SupervisorType, StopPending, [Next]_vars
    PROVE  [UM!Next]_(UM!managerVars)
  <1> USE DEF UM!Next
  <1>1. CASE Boot
    <2>1. 1 \in Managers
      BY ReconnectAssumption DEF Managers
    <2> QED
      BY <1>1, <2>1 DEF Boot
  <1>2. CASE Attempt
    BY <1>2 DEF Attempt
  <1>3. CASE Signal
    BY <1>3 DEF Signal, managerVars, UM!managerVars
  <1>4. ASSUME NEW m \in Managers, UpstreamExits(m)
        PROVE  UM!Next
    BY <1>4 DEF UpstreamExits
  <1>5. ASSUME NEW m \in Managers, LineArrives(m)
        PROVE  UM!Next
    BY <1>5 DEF LineArrives
  <1>6. ASSUME NEW m \in Managers, ProcessDies(m)
        PROVE  UM!Next
    BY <1>6 DEF ProcessDies
  <1>7. ASSUME NEW m \in Managers, ForceKill(m)
        PROVE  [UM!Next]_(UM!managerVars)
    <2>1. proc[m] \in {"running", "exited"} /\ proc' = [proc EXCEPT ![m] = "exited"]
      BY <1>7 DEF ForceKill, StopPending
    <2>2. UNCHANGED << counter, pending, timers, atServer, handshake, initResult, status, answer >>
      BY <1>7 DEF ForceKill
    <2>3. CASE proc[m] = "running"
      BY <2>1, <2>2, <2>3 DEF UM!ProcessDies
    <2>4. CASE proc[m] = "exited"
      <3>1. proc' = proc
        BY <2>1, <2>4 DEF UM!TypeOK
      <3> QED
        BY <2>2, <3>1 DEF UM!managerVars
    <2> QED
      BY <2>1, <2>3, <2>4
  <1>8. ASSUME NEW m \in Managers, NEW id \in timers[m], TimerFires(m, id)
        PROVE  UM!Next
    BY <1>8 DEF TimerFires
  <1>9. ASSUME NEW c \in Calls, ClientCalls(c)
        PROVE  UM!Next
    BY <1>9 DEF ClientCalls, SupervisorType
  <1>11. CASE UNCHANGED vars
    BY <1>11 DEF vars, managerVars, UM!managerVars
  <1> HIDE DEF UM!Next
  <1> QED
    BY <1>1, <1>2, <1>3, <1>4, <1>5, <1>6, <1>7, <1>8, <1>9, <1>11 DEF Next

-----------------------------------------------------------------------------
(* Every step keeps the invariant. *)

(* A step that at most ends the gateway, stops one more live manager or    *)
(* makes a process end.                                                    *)
LEMMA Undisturbed ==
    ASSUME SupervisorInv,
           phase' \in {phase, "exited"},
           UNCHANGED << current, isReconnecting, reconnectAttempts, backoff >>,
           premature' \subseteq Calls,
           \A n \in Managers :
              /\ handshake'[n] = handshake[n]
              /\ \/ proc'[n] = proc[n]
                 \/ proc[n] \in {"running", "exited"} /\ proc'[n] \in {"running", "exited"},
           stopTargets' \subseteq Managers,
           \A n \in stopTargets' \ stopTargets : proc'[n] \in {"running", "exited"}
    PROVE  SupervisorInv'
  <1> USE DEF SupervisorInv
  <1>1. SupervisorType'
    BY DEF SupervisorType
  <1>2. current \in Managers
    BY DEF SupervisorType
  <1>3. UsedInTurn'
    BY DEF UsedInTurn
  <1>4. BootUndisturbed'
    BY <1>2 DEF BootUndisturbed
  <1>5. ServiceSupervised'
    <2>1. FailedInARow' = FailedInARow
      BY <1>2, SameFailures
    <2> QED
      BY <1>2, <2>1 DEF ServiceSupervised, RecoveryPending, BackoffCounts
  <1>6. AttemptsCounted'
    BY DEF AttemptsCounted
  <1>7. StopPending'
    BY DEF StopPending, Up
  <1>8. OneAttempt'
    BY DEF OneAttempt
  <1> QED
    BY <1>1, <1>3, <1>4, <1>5, <1>6, <1>7, <1>8

(* The timer is armed when no handshake waits: no other can, and the count *)
(* stays within the managers used.                                         *)
LEMMA ArmedBackoff ==
    ASSUME SupervisorInv, phase = "serving", backoff = 0, ArmBackoff,
           Cardinality(FailedInARow)' = reconnectAttempts,
           UNCHANGED << phase, current, stopTargets, premature >>,
           \A n \in Managers : handshake'[n] # "waiting",
           \A n \in Managers : proc'[n] = "none" <=> proc[n] = "none",
           \A n \in stopTargets : proc'[n] \in {"running", "exited"}
    PROVE  SupervisorInv'
  <1> USE DEF SupervisorInv
  <1>1. current \in Managers /\ current \in Nat /\ MaxManagers \in Nat /\ reconnectAttempts \in Nat
    BY ReconnectAssumption DEF SupervisorType, Managers
  <1>2. reconnectAttempts + 1 \in 0..MaxManagers /\ reconnectAttempts + 1 <= current
    BY <1>1 DEF AttemptsCounted, Managers
  <1>3. backoff' \in 1..15 /\ isReconnecting' = TRUE /\ reconnectAttempts' = reconnectAttempts + 1
    BY <1>1, DelayRange DEF ArmBackoff
  <1>4. backoff' > 0 /\ backoff' \in 0..15 /\ backoff' # 0
    BY <1>3
  <1>5. SupervisorType'
    BY <1>2, <1>3, <1>4 DEF SupervisorType
  <1>6. UsedInTurn'
    BY DEF UsedInTurn
  <1>7. ServiceSupervised'
    <2>1. RecoveryPending' /\ proc'[current] # "none"
      BY <1>1, <1>3, <1>4 DEF ServiceSupervised, RecoveryPending
    <2>2. backoff' = Delay(Cardinality(FailedInARow)')
      BY DEF ArmBackoff
    <2>3. reconnectAttempts' = 1 + Cardinality(FailedInARow)'
      BY <1>1, <1>3
    <2> HIDE DEF FailedInARow
    <2> QED
      BY <1>1, <1>3, <1>4, <2>1, <2>2, <2>3 DEF ServiceSupervised, BackoffCounts, Delay
  <1>8. AttemptsCounted'
    BY <1>2, <1>3, <1>4 DEF AttemptsCounted
  <1>9. BootUndisturbed' /\ StopPending' /\ OneAttempt'
    BY DEF BootUndisturbed, StopPending, OneAttempt, Up
  <1> QED
    BY <1>5, <1>6, <1>7, <1>8, <1>9

(* When the attempt under way fails, the failures in a row are the         *)
(* attempts counted.                                                       *)
LEMMA AttemptCounted ==
    ASSUME SupervisorInv, phase = "serving", UNCHANGED current,
           handshake[current] = "waiting", handshake'[current] = "failed",
           \A n \in Managers : n # current => handshake'[n] = handshake[n]
    PROVE  Cardinality(FailedInARow)' = reconnectAttempts
  <1>1. current \in Managers
    BY DEF SupervisorInv, SupervisorType
  <1>2. reconnectAttempts = 1 + Cardinality(FailedInARow)
    BY DEF SupervisorInv, ServiceSupervised, RecoveryPending, BackoffCounts
  <1>3. Cardinality(FailedInARow) \in Nat
    BY <1>1, FailuresCounted
  <1>4. Cardinality(FailedInARow)' = Cardinality(FailedInARow) + 1
    BY <1>1, OneMoreFailure
  <1> QED
    BY <1>2, <1>3, <1>4

(* What awaits a handshake goes on once it is over. *)
LEMMA Settled ==
    ASSUME ManagerInv, SupervisorInv, Up, NEW m \in Managers,
           UNCHANGED << proc, current, stopTargets, premature >>,
           \A n \in Managers : n # m => handshake'[n] = handshake[n],
           AfterHandshake(m)
    PROVE  SupervisorInv'
  <1> USE DEF SupervisorInv
  <1>1. CASE handshake'[m] = handshake[m] /\ UNCHANGED phase /\ KeepBackoff
    BY <1>1, Undisturbed DEF KeepBackoff, SupervisorType
  <1>2. ASSUME handshake[m] = "waiting", handshake'[m] # "waiting"
        PROVE  /\ m = current /\ backoff = 0
               /\ proc[m] \notin {"none", "reaped"}
               /\ \A n \in Managers : handshake'[n] # "waiting"
    <2>1. m = current /\ backoff = 0
      BY <1>2 DEF OneAttempt
    <2>2. pending[m] # {} /\ proc[m] # "none"
      BY <1>2 DEF ManagerInv, Routing!HandshakeInv
    <2>3. proc[m] # "reaped"
      BY <2>2 DEF ManagerInv, Routing!DrainedOnExit
    <2>4. \A n \in Managers : n # m => handshake[n] # "waiting"
      BY <2>1 DEF OneAttempt
    <2> QED
      BY <1>2, <2>1, <2>2, <2>3, <2>4
  <1>3. CASE handshake[m] = "waiting" /\ handshake'[m] = "ready" /\ HandshakeSucceeds(m)
    <2>1. /\ m = current /\ backoff = 0
          /\ proc[m] \notin {"none", "reaped"}
          /\ \A n \in Managers : handshake'[n] # "waiting"
      BY <1>2, <1>3
    <2>2. /\ phase' \in {"serving", "exited"}
          /\ backoff' = 0 /\ isReconnecting' = FALSE /\ reconnectAttempts' = 0
      BY <1>3, <2>1 DEF HandshakeSucceeds, Write, KeepBackoff, Up, SupervisorType, BootUndisturbed
    <2>3. current \in Nat \ {0} /\ MaxManagers \in Nat
      BY ReconnectAssumption DEF SupervisorType, Managers
    <2>4. SupervisorType'
      <3>1. 0 \in 0..MaxManagers /\ 0 \in 0..15 /\ FALSE \in BOOLEAN
        BY <2>3
      <3> QED
        BY <2>2, <3>1 DEF SupervisorType
    <2>5. UsedInTurn' /\ BootUndisturbed' /\ StopPending' /\ OneAttempt'
      BY <2>1, <2>2 DEF UsedInTurn, BootUndisturbed, StopPending, OneAttempt, Up
    <2>6. AttemptsCounted'
      BY <2>2, <2>3 DEF AttemptsCounted
    <2>7. ServiceSupervised'
      <3>1. BackoffCounts'
        BY <2>2 DEF BackoffCounts
      <3>2. RecoveryPending' /\ proc'[current'] # "none" /\ handshake'[current'] = "ready"
        BY <1>3, <2>1, <2>2 DEF RecoveryPending
      <3> QED
        BY <3>1, <3>2 DEF ServiceSupervised
    <2> QED
      BY <2>4, <2>5, <2>6, <2>7
  <1>4. CASE handshake[m] = "waiting" /\ handshake'[m] = "failed" /\ HandshakeFails
    <2>1. /\ backoff = 0
          /\ \A n \in Managers : handshake'[n] # "waiting"
      BY <1>2, <1>4
    <2>2. CASE phase = "booting"
      <3>1. phase' = "exited" /\ KeepBackoff
        BY <1>4, <2>2 DEF HandshakeFails
      <3> QED
        BY <2>1, <3>1 DEF KeepBackoff, SupervisorType, UsedInTurn, BootUndisturbed,
           ServiceSupervised, AttemptsCounted, StopPending, OneAttempt, Up
    <2>3. CASE phase # "booting"
      <3>1. phase = "serving" /\ UNCHANGED phase /\ ArmBackoff
        BY <1>4, <2>3 DEF HandshakeFails, Up, SupervisorType
      <3>2. Cardinality(FailedInARow)' = reconnectAttempts
        BY <1>2, <1>4, <3>1, AttemptCounted
      <3> QED
        BY <2>1, <3>1, <3>2, ArmedBackoff DEF StopPending
    <2> QED
      BY <2>2, <2>3
  <1> QED
    BY <1>1, <1>3, <1>4 DEF AfterHandshake

(* How the actions of a manager touch proc and handshake. *)
LEMMA StartEffect ==
    ASSUME UM!TypeOK, NEW m \in Managers, UM!Start(m)
    PROVE  /\ proc[m] = "none" /\ proc'[m] = "running" /\ handshake'[m] = "waiting"
           /\ \A n \in Managers : n # m => proc'[n] = proc[n] /\ handshake'[n] = handshake[n]
  BY DEF UM!TypeOK, UM!Start

LEMMA RejectEffect ==
    ASSUME UM!TypeOK, NEW m \in Managers, NEW es, UM!Reject(m, es)
    PROVE  /\ handshake'[m] = IF \E e \in es : e.call = Handshake
                                THEN "failed" ELSE handshake[m]
           /\ \A n \in Managers : n # m => handshake'[n] = handshake[n]
  BY DEF UM!TypeOK, UM!Reject

LEMMA ExitEffect ==
    ASSUME ManagerInv, NEW m \in Managers, UM!ExitEvent(m)
    PROVE  /\ proc[m] = "exited" /\ proc'[m] = "reaped"
           /\ handshake'[m] = IF handshake[m] = "waiting" THEN "failed" ELSE handshake[m]
           /\ \A n \in Managers : n # m => proc'[n] = proc[n] /\ handshake'[n] = handshake[n]
  <1>1. proc[m] = "exited" /\ proc' = [proc EXCEPT ![m] = "reaped"] /\ UM!Reject(m, pending[m])
    BY DEF UM!ExitEvent
  <1>2. handshake[m] = "waiting" <=> \E e \in pending[m] : e.call = Handshake
    BY DEF ManagerInv, Routing!HandshakeInv
  <1> QED
    BY <1>1, <1>2, RejectEffect DEF ManagerInv, UM!TypeOK

LEMMA LineEffect ==
    ASSUME UM!TypeOK, NEW m \in Managers, NEW id, NEW about, UM!DeliverLine(m, id, about)
    PROVE  \A n \in Managers : n # m => handshake'[n] = handshake[n]
  BY DEF UM!TypeOK, UM!DeliverLine, UM!Resolve

LEMMA BootKeeps ==
    ASSUME ManagerInv, SupervisorInv, Boot
    PROVE  SupervisorInv'
  <1> USE DEF SupervisorInv
  <1>1. current = 1 /\ current \in Managers /\ backoff = 0 /\ phase' \in {"booting", "exited"}
    BY DEF Boot, Spawned, BootUndisturbed, SupervisorType
  <1>2. /\ proc[current] = "none" /\ proc'[current] = "running" /\ handshake'[current] = "waiting"
        /\ \A n \in Managers : n # current => proc'[n] = proc[n] /\ handshake'[n] = handshake[n]
    BY <1>1, StartEffect DEF Boot, ManagerInv
  <1>3. UNCHANGED << current, isReconnecting, reconnectAttempts, backoff, stopTargets, premature >>
    BY DEF Boot
  <1>4. SupervisorType' /\ AttemptsCounted'
    BY <1>1, <1>3 DEF SupervisorType, AttemptsCounted
  <1>5. UsedInTurn' /\ BootUndisturbed' /\ ServiceSupervised' /\ OneAttempt'
    BY <1>1, <1>2, <1>3 DEF Boot, UsedInTurn, BootUndisturbed, ServiceSupervised, OneAttempt
  <1>6. StopPending'
    BY <1>1, <1>2, <1>3 DEF Boot, StopPending, Up, SupervisorType
  <1> QED
    BY <1>4, <1>5, <1>6

LEMMA AttemptKeeps ==
    ASSUME ManagerInv, SupervisorInv, Attempt
    PROVE  SupervisorInv'
  <1> USE DEF SupervisorInv
  <1>1. PICK m \in Managers :
           /\ proc[m] = "none"
           /\ \A n \in 1..(m-1) : proc[n] # "none"
           /\ UM!Start(m)
           /\ Spawned(m)
           /\ current' = m
    BY DEF Attempt
  <1>2. /\ proc'[m] = "running" /\ handshake'[m] = "waiting"
        /\ \A n \in Managers : n # m => proc'[n] = proc[n] /\ handshake'[n] = handshake[n]
    BY <1>1, StartEffect DEF ManagerInv
  <1>3. /\ Up /\ backoff > 0 /\ backoff' = 0
        /\ UNCHANGED << isReconnecting, reconnectAttempts, stopTargets, premature >>
    BY DEF Attempt
  <1>4. phase = "serving" /\ phase' \in {"serving", "exited"}
    BY <1>1, <1>3 DEF Up, SupervisorType, BootUndisturbed, Spawned
  <1>5. /\ current \in 1..MaxManagers /\ m \in 1..MaxManagers /\ MaxManagers \in Nat
        /\ backoff \in Nat /\ reconnectAttempts \in Nat
    BY ReconnectAssumption DEF SupervisorType, Managers
  <1>6. proc[current] # "none" /\ isReconnecting
    BY <1>3, <1>4, <1>5 DEF ServiceSupervised, RecoveryPending, SupervisorType
  <1>7. m = current + 1
    <2>1. m > current
      BY <1>1, <1>5, <1>6 DEF UsedInTurn, Managers
    <2>2. ~(current + 1 < m)
      <3> SUFFICES ASSUME current + 1 < m
                   PROVE  FALSE
        OBVIOUS
      <3>1. current + 1 \in 1..(m-1) /\ current + 1 \in Managers /\ current + 1 > current
        BY <1>5 DEF Managers
      <3> QED
        BY <1>1, <3>1 DEF UsedInTurn
    <2> QED
      BY <1>5, <2>1, <2>2
  <1>8. SupervisorType'
    BY <1>1, <1>3, <1>4 DEF SupervisorType
  <1>9. AttemptsCounted'
    BY <1>1, <1>3, <1>5, <1>7 DEF AttemptsCounted
  <1>10. UsedInTurn'
    BY <1>1, <1>2, <1>5, <1>6, <1>7 DEF UsedInTurn, Managers
  <1>11. OneAttempt'
    BY <1>1, <1>2, <1>3, <1>5 DEF OneAttempt
  <1>14. FailedInARow' = FailedInARow
    <2>1. \A n \in 1..current : n \in Managers /\ n # m
      BY <1>5, <1>7 DEF Managers
    <2>2. \A n \in 1..current : handshake'[n] = handshake[n]
      BY <1>2, <2>1
    <2>3. \A n \in 1..m : n \in 1..current \/ n = m
      BY <1>5, <1>7
    <2>4. \A k \in 1..m : \A n \in k..m : n \in 1..m
      BY <1>5
    <2>5. 1..current \subseteq 1..m /\ \A k \in 1..current : k..current \subseteq k..m
      BY <1>5, <1>7
    <2>6. ASSUME NEW k \in 1..current
          PROVE  (\A n \in k..m : handshake'[n] # "ready")
                    <=> (\A n \in k..current : handshake[n] # "ready")
      <3>1. \A n \in k..m : n \in k..current \/ n = m
        BY <1>5, <1>7
      <3>2. \A n \in k..current : n \in 1..current
        BY <1>5
      <3> QED
        BY <1>2, <2>2, <2>5, <3>1, <3>2
    <2> QED
      BY <1>1, <1>2, <2>2, <2>3, <2>5, <2>6 DEF FailedInARow
  <1>12. BootUndisturbed' /\ ServiceSupervised'
    <2>1. BootUndisturbed'
      BY <1>4 DEF BootUndisturbed
    <2>2. reconnectAttempts = 1 + Cardinality(FailedInARow)
      BY <1>4, <1>6 DEF ServiceSupervised, BackoffCounts
    <2>3. BackoffCounts'
      BY <1>3, <1>6, <1>14, <2>2 DEF BackoffCounts
    <2>4. RecoveryPending' /\ proc'[current'] # "none"
      BY <1>1, <1>2, <1>3, <1>6 DEF RecoveryPending
    <2> QED
      BY <1>3, <1>6, <2>1, <2>3, <2>4 DEF ServiceSupervised
  <1>13. StopPending'
    BY <1>1, <1>2, <1>3, <1>4 DEF StopPending, Up, SupervisorType
  <1> QED
    BY <1>8, <1>9, <1>10, <1>11, <1>12, <1>13

LEMMA ExitKeeps ==
    ASSUME ManagerInv, SupervisorInv, NEW m \in Managers, UpstreamExits(m)
    PROVE  SupervisorInv'
  <1> USE DEF SupervisorInv
  <1>1. /\ proc[m] = "exited" /\ proc'[m] = "reaped"
        /\ handshake'[m] = IF handshake[m] = "waiting" THEN "failed" ELSE handshake[m]
        /\ \A n \in Managers : n # m => proc'[n] = proc[n] /\ handshake'[n] = handshake[n]
    BY ExitEffect DEF UpstreamExits
  <1>2. Up /\ UNCHANGED << current, stopTargets, premature >>
    BY DEF UpstreamExits
  <1>3. current \in Managers /\ current \in Nat
    BY ReconnectAssumption DEF SupervisorType, Managers
  <1>4. ASSUME phase' = "exited", KeepBackoff
        PROVE  SupervisorInv'
    <2>1. SupervisorType' /\ AttemptsCounted' /\ BootUndisturbed' /\ ServiceSupervised' /\ StopPending'
      BY <1>2, <1>4 DEF KeepBackoff, SupervisorType, AttemptsCounted, BootUndisturbed,
         ServiceSupervised, StopPending, Up
    <2>2. UsedInTurn' /\ OneAttempt'
      BY <1>1, <1>2, <1>4 DEF KeepBackoff, UsedInTurn, OneAttempt
    <2> QED
      BY <2>1, <2>2
  <1>5. ASSUME m \notin stopTargets, phase = "serving", phase' = phase, ArmBackoff, backoff = 0,
               Cardinality(FailedInARow)' = reconnectAttempts,
               \A n \in Managers : n # m => handshake[n] # "waiting"
        PROVE  SupervisorInv'
    <2>1. \A n \in Managers : handshake'[n] # "waiting"
      BY <1>1, <1>5
    <2>2. \A n \in Managers : proc'[n] = "none" <=> proc[n] = "none"
      BY <1>1
    <2>3. \A n \in stopTargets : proc'[n] \in {"running", "exited"}
      BY <1>1, <1>2, <1>5 DEF StopPending, SupervisorType
    <2> QED
      BY <1>2, <1>5, <2>1, <2>2, <2>3, ArmedBackoff
  <1>6. CASE m \in stopTargets
    BY <1>4, <1>6 DEF UpstreamExits
  <1>7. CASE m \notin stopTargets /\ handshake[m] = "waiting"
    <2>1. HandshakeFails /\ m = current /\ backoff = 0
      BY <1>7 DEF UpstreamExits, OneAttempt
    <2>2. \A n \in Managers : n # m => handshake[n] # "waiting"
      BY <2>1 DEF OneAttempt
    <2>3. CASE phase = "booting"
      BY <1>4, <2>1, <2>3 DEF HandshakeFails
    <2>4. CASE phase # "booting"
      <3>1. phase = "serving" /\ phase' = phase /\ ArmBackoff
        BY <1>2, <2>1, <2>4 DEF HandshakeFails, Up, SupervisorType
      <3>2. Cardinality(FailedInARow)' = reconnectAttempts
        BY <1>1, <1>2, <1>7, <2>1, <3>1, AttemptCounted
      <3> QED
        BY <1>5, <1>7, <2>1, <2>2, <3>1, <3>2
    <2> QED
      BY <2>3, <2>4
  <1>8. CASE m \notin stopTargets /\ handshake[m] # "waiting"
    <2>1. /\ IF isReconnecting THEN KeepBackoff ELSE ArmBackoff
          /\ UNCHANGED phase
      BY <1>8 DEF UpstreamExits
    <2>2. phase = "serving"
      <3>1. CASE phase = "booting"
        <4>1. ~(m > current) /\ ~(m < current)
          BY <1>1, <1>3, <3>1, ReconnectAssumption DEF BootUndisturbed, UsedInTurn, Managers
        <4>2. m = current
          BY <1>3, <4>1, ReconnectAssumption DEF Managers
        <4> QED
          BY <1>1, <1>8, <3>1, <4>2 DEF BootUndisturbed
      <3> QED
        BY <1>2, <3>1 DEF Up, SupervisorType
    <2>3. CASE isReconnecting
      <3>1. KeepBackoff /\ UNCHANGED phase /\ \A n \in Managers : handshake'[n] = handshake[n]
        BY <1>1, <1>8, <2>1, <2>3
      <3>2. SupervisorType' /\ AttemptsCounted' /\ BootUndisturbed'
        BY <1>2, <2>2, <3>1 DEF KeepBackoff, SupervisorType, AttemptsCounted, BootUndisturbed
      <3>3. UsedInTurn' /\ OneAttempt'
        BY <1>1, <1>2, <3>1 DEF KeepBackoff, UsedInTurn, OneAttempt
      <3>4. StopPending'
        BY <1>1, <1>2, <1>8, <3>1 DEF StopPending, Up, SupervisorType
      <3>5. proc[current] # "none" /\ proc'[current] # "none" /\ RecoveryPending /\ BackoffCounts
        BY <1>1, <1>3, <2>2 DEF ServiceSupervised
      <3>6. RecoveryPending' /\ BackoffCounts'
        <4>1. isReconnecting' /\ (backoff' > 0 \/ handshake'[current] = "waiting")
          BY <1>3, <2>2, <2>3, <3>1, <3>5 DEF KeepBackoff, RecoveryPending
        <4>2. m = current => backoff' > 0
          BY <1>8, <3>1, <4>1
        <4>3. proc'[current] = "reaped" => backoff' > 0
          BY <1>1, <1>3, <2>2, <3>1, <3>5, <4>2 DEF KeepBackoff, RecoveryPending
        <4>4. FailedInARow' = FailedInARow
          BY <1>2, <1>3, <3>1, SameFailures
        <4>5. BackoffCounts'
          BY <3>1, <3>5, <4>4 DEF KeepBackoff, BackoffCounts
        <4> QED
          BY <1>2, <2>2, <3>1, <3>5, <4>1, <4>3, <4>5 DEF KeepBackoff, RecoveryPending
      <3>7. ServiceSupervised'
        BY <1>2, <2>3, <3>1, <3>5, <3>6 DEF KeepBackoff, ServiceSupervised
      <3> QED
        BY <3>2, <3>3, <3>4, <3>7
    <2>4. CASE ~isReconnecting
      <3>1. ArmBackoff /\ backoff = 0 /\ handshake[current] # "waiting"
        BY <2>1, <2>2, <2>4 DEF ServiceSupervised, RecoveryPending, SupervisorType
      <3>2. \A n \in Managers : handshake[n] # "waiting"
        BY <3>1 DEF OneAttempt
      <3>3. Cardinality(FailedInARow)' = reconnectAttempts
        <4>1. handshake[current] = "ready" /\ reconnectAttempts = 0
          BY <2>2, <2>4 DEF ServiceSupervised, BackoffCounts
        <4>2. FailedInARow' = FailedInARow
          BY <1>1, <1>2, <1>3, <1>8, SameFailures
        <4> QED
          BY <1>3, <4>1, <4>2, NoFailures
      <3> QED
        BY <1>5, <1>8, <2>1, <2>2, <3>1, <3>2, <3>3
    <2> QED
      BY <2>3, <2>4
  <1> QED
    BY <1>6, <1>7, <1>8

LEMMA SupervisorInvNext ==
    ASSUME ManagerInv, SupervisorInv, [Next]_vars
    PROVE  SupervisorInv'
  <1>1. CASE Boot
    BY <1>1, BootKeeps
  <1>2. CASE Attempt
    BY <1>2, AttemptKeeps
  <1>3. CASE Signal
    <2>1. CASE proc[current] \in {"none", "reaped"}
      BY <1>3, <2>1, Undisturbed DEF Signal, SupervisorInv, SupervisorType, managerVars
    <2>2. CASE proc[current] \notin {"none", "reaped"}
      <3>1. current \in Managers /\ proc[current] \in {"running", "exited"}
        BY <2>2 DEF ManagerInv, UM!TypeOK, SupervisorInv, SupervisorType
      <3>2. /\ stopTargets' = stopTargets \cup {current}
            /\ UNCHANGED << phase, current, isReconnecting, reconnectAttempts, backoff,
                            premature, proc, handshake >>
        BY <1>3, <2>2 DEF Signal, managerVars
      <3> QED
        BY <3>1, <3>2, Undisturbed DEF SupervisorInv, SupervisorType
    <2> QED
      BY <2>1, <2>2
  <1>4. ASSUME NEW m \in Managers, UpstreamExits(m)
        PROVE  SupervisorInv'
    BY <1>4, ExitKeeps
  <1>5. ASSUME NEW m \in Managers, LineArrives(m)
        PROVE  SupervisorInv'
    <2>1. UNCHANGED proc /\ \A n \in Managers : n # m => handshake'[n] = handshake[n]
      BY <1>5, LineEffect DEF LineArrives, UM!ServerAnswers, UM!ServerRequests, ManagerInv
    <2> QED
      BY <1>5, <2>1, Settled DEF LineArrives
  <1>6. ASSUME NEW m \in Managers, ProcessDies(m)
        PROVE  SupervisorInv'
    <2>1. /\ \A n \in Managers : handshake'[n] = handshake[n]
          /\ \A n \in Managers :
                \/ proc'[n] = proc[n]
                \/ proc[n] \in {"running", "exited"} /\ proc'[n] \in {"running", "exited"}
      BY <1>6 DEF ProcessDies, UM!ProcessDies, ManagerInv, UM!TypeOK
    <2> QED
      BY <1>6, <2>1, Undisturbed
      DEF ProcessDies, supervisorVars, SupervisorInv, SupervisorType
  <1>7. ASSUME NEW m \in Managers, ForceKill(m)
        PROVE  SupervisorInv'
    <2>1. /\ \A n \in Managers : handshake'[n] = handshake[n]
          /\ \A n \in Managers :
                \/ proc'[n] = proc[n]
                \/ proc[n] \in {"running", "exited"} /\ proc'[n] \in {"running", "exited"}
      BY <1>7 DEF ForceKill, ManagerInv, UM!TypeOK, SupervisorInv, StopPending
    <2> QED
      BY <1>7, <2>1, Undisturbed DEF ForceKill, SupervisorInv, SupervisorType
  <1>8. ASSUME NEW m \in Managers, NEW id \in timers[m], TimerFires(m, id)
        PROVE  SupervisorInv'
    <2>1. UNCHANGED proc /\ \A n \in Managers : n # m => handshake'[n] = handshake[n]
      BY <1>8, RejectEffect DEF TimerFires, UM!Timeout, ManagerInv
    <2> QED
      BY <1>8, <2>1, Settled DEF TimerFires
  <1>9. ASSUME NEW c \in Calls, ClientCalls(c)
        PROVE  SupervisorInv'
    <2>1. UNCHANGED << proc, handshake >>
      BY <1>9 DEF ClientCalls, UM!Send
    <2> QED
      BY <1>9, <2>1, Undisturbed DEF ClientCalls, Write, SupervisorInv, SupervisorType
  <1>11. CASE UNCHANGED vars
    BY <1>11, Undisturbed DEF vars, supervisorVars, managerVars, SupervisorInv, SupervisorType
  <1> QED
    BY <1>1, <1>2, <1>3, <1>4, <1>5, <1>6, <1>7, <1>8, <1>9, <1>11 DEF Next

LEMMA ManagerInvInit == Init => ManagerInv
  <1> SUFFICES ASSUME Init
               PROVE  ManagerInv
    OBVIOUS
  <1>1. UM!Init /\ Routing!Init
    BY SameManagers DEF Init
  <1>2. UM!TypeOK
    BY <1>1, SameManagers, ManagersAssumed, Routing!TypeOKInit
  <1>3. Routing!DrainedOnExit /\ Routing!HandshakeInv
    BY <1>1 DEF Routing!Init, Routing!DrainedOnExit, Routing!HandshakeInv
  <1> QED
    BY <1>2, <1>3 DEF ManagerInv

LEMMA ManagerInvNext ==
    ASSUME ManagerInv, [UM!Next]_(UM!managerVars)
    PROVE  ManagerInv'
  <1>1. Routing!TypeOK /\ [Routing!Next]_(Routing!managerVars)
    BY SameManagers DEF ManagerInv
  <1>2. Routing!TypeOK' /\ Routing!DrainedOnExit' /\ Routing!HandshakeInv'
    BY <1>1, ManagersAssumed, Routing!TypeOKNext, Routing!DrainedNext, Routing!HandshakeNext
    DEF ManagerInv
  <1>3. UM!TypeOK'
    BY <1>2 DEF UM!TypeOK, Routing!TypeOK, UM!Entries, Routing!Entries, UM!Requests,
                Routing!Requests
  <1> QED
    BY <1>2, <1>3 DEF ManagerInv

(* The two invariants carry each other: a step of the supervisor is one of *)
(* the managers because of the first, and the second is theirs.            *)
LEMMA Invariant == Spec => [](ManagerInv /\ SupervisorInv)
  <1>1. Init => ManagerInv /\ SupervisorInv
    BY ManagerInvInit, SupervisorInvInit
  <1>2. ManagerInv /\ SupervisorInv /\ [Next]_vars => (ManagerInv /\ SupervisorInv)'
    BY ManagerInvNext, SupervisorInvNext, ManagersStep DEF ManagerInv, SupervisorInv
  <1> QED
    BY <1>1, <1>2, PTL DEF Spec

-----------------------------------------------------------------------------
(* Every variable keeps its type; the attempts counted stay within the     *)
(* managers there are, whatever crashes.                                   *)
THEOREM TypeCorrect == Spec => []TypeOK
  <1>1. ManagerInv /\ SupervisorInv => TypeOK
    BY TypeOKParts DEF ManagerInv, SupervisorInv
  <1> QED
    BY Invariant, <1>1, PTL

(* No crash is swallowed: while clients are served, the guard of           *)
(* handleUpstreamCrash is up exactly when a timer or a handshake will      *)
(* bring the next attempt about, and a reaped upstream has the timer.      *)
THEOREM RecoveryAlwaysPending == Spec => []RecoveryPending
  <1>1. SupervisorInv => RecoveryPending
    BY DEF SupervisorInv, ServiceSupervised, RecoveryPending
  <1> QED
    BY Invariant, <1>1, PTL

(* One attempt at a time: no second handshake, and no timer beside it.     *)
THEOREM OneAttemptAtATime == Spec => []OneAttempt
  <1>1. SupervisorInv => OneAttempt
    BY DEF SupervisorInv
  <1> QED
    BY Invariant, <1>1, PTL

(* The delay is the one for the attempts that failed in a row, and none    *)
(* when the last one has succeeded, for any number of attempts.            *)
THEOREM BackoffCounted == Spec => []BackoffCounts
  <1>1. SupervisorInv => BackoffCounts
    BY DEF SupervisorInv, ServiceSupervised, BackoffCounts
  <1> QED
    BY Invariant, <1>1, PTL

(* The supervisor drives every manager as UpstreamManager allows: each of  *)
(* its steps is one of a manager or leaves all of them alone.              *)
THEOREM ManagersImplemented == Spec => ManagersBehave
  <1>1. Init => UM!Init
    BY DEF Init
  <1>2. ManagerInv /\ SupervisorInv /\ [Next]_vars => [UM!Next]_(UM!managerVars)
    BY ManagersStep DEF ManagerInv, SupervisorInv
  <1> QED
    BY Invariant, <1>1, <1>2, PTL DEF Spec, ManagersBehave, UM!Spec

LEMMA SpecImplementsRouting == Spec => Routing!Spec
  <1>1. UM!Init => Routing!Init
    BY SameManagers
  <1>2. [UM!Next]_(UM!managerVars) => [Routing!Next]_(Routing!managerVars)
    BY SameManagers
  <1> QED
    BY ManagersImplemented, <1>1, <1>2, PTL DEF ManagersBehave, UM!Spec, Routing!Spec

(* So what UpstreamManager promises its callers holds through every crash, *)
(* reconnect and shutdown: no timer outlives its request, a call waits as  *)
(* long as one manager holds it, a reaped manager holds none ...           *)
THEOREM CallsTracked ==
    Spec => [](UM!TimersGuardEntries /\ UM!WaitingIsPending /\ UM!DrainedOnExit)
  <1>2. Routing!Spec => [](Routing!TimersGuardEntries /\ Routing!WaitingIsPending
                             /\ Routing!DrainedOnExit)
    BY ManagersAssumed, Routing!TimersGuard, Routing!WaitingPending, Routing!Drained, PTL
  <1>3. Routing!TimersGuardEntries /\ Routing!WaitingIsPending /\ Routing!DrainedOnExit
           => UM!TimersGuardEntries /\ UM!WaitingIsPending /\ UM!DrainedOnExit
    BY DEF UM!TimersGuardEntries, Routing!TimersGuardEntries, UM!WaitingIsPending,
           Routing!WaitingIsPending, UM!DrainedOnExit, Routing!DrainedOnExit
  <1> QED
    BY SpecImplementsRouting, <1>2, <1>3, PTL

(* ... and, if the upstream's own requests use no id a manager gives out,  *)
(* every caller of send() gets one outcome, and an answer only to its own  *)
(* call.                                                                   *)
THEOREM CallsRoutedRight ==
    ASSUME \A id \in ServerRequestIds : id = 0
    PROVE  Spec => UM!ContractHonoured /\ []UM!AnswersMatch
  <1>1. Routing!ForeignIds
    BY DEF Routing!ForeignIds
  <1>2. Routing!Spec => Routing!ContractHonoured /\ []Routing!AnswersMatch
    BY <1>1, ManagersAssumed, Routing!Honoured, Routing!RoutedRight, PTL
  <1>3. Routing!ContractHonoured => UM!ContractHonoured
    <2>1. Routing!Contract!Init => UM!Contract!Init
      BY DEF Routing!Contract!Init, UM!Contract!Init
    <2>2. [Routing!Contract!Next]_(Routing!Contract!contractVars)
             => [UM!Contract!Next]_(UM!Contract!contractVars)
      BY DEF Routing!Contract!Next, UM!Contract!Next, Routing!Contract!Request,
         UM!Contract!Request, Routing!Contract!Refuse, UM!Contract!Refuse,
         Routing!Contract!Respond, UM!Contract!Respond, Routing!Contract!Fail,
         UM!Contract!Fail, Routing!Contract!contractVars, UM!Contract!contractVars
    <2> QED
      BY <2>1, <2>2, PTL
      DEF Routing!ContractHonoured, UM!ContractHonoured, Routing!Contract!Spec, UM!Contract!Spec
  <1>4. Routing!AnswersMatch => UM!AnswersMatch
    BY DEF Routing!AnswersMatch, UM!AnswersMatch
  <1> QED
    BY SpecImplementsRouting, <1>2, <1>3, <1>4, PTL
=============================================================================
