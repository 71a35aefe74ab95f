------------------------ MODULE ToolCallGatewayProofs ------------------------
(* Theorems about ToolCallGateway, for every set of requests, deployments  *)
(* and faults.  What concerns the audit file alone is not proved again: the *)
(* gateway drives its sink as AuditSink allows, and the theorems about that *)
(* module carry over.                                                      *)
EXTENDS ToolCallGateway, TLAPS

(* shutdown() ends the process whether or not a kill is among the faults.  *)
Audit == INSTANCE AuditSinkProofs
    WITH Events <- AuditEvents, Serialized <- FALSE, Faults <- Faults \cup {"kill"}

LEMMA AuditAssumed == Audit!AuditSinkAssumption
  BY GatewayFaultsAssumption
  DEF Audit!AuditSinkAssumption, Audit!FaultKinds, Sink!FaultKinds

(* The two instances of AuditSink differ in the faults alone. *)
LEMMA SameSink ==
    /\ Audit!TypeOK <=> Sink!TypeOK
    /\ Audit!Init <=> Sink!Init
    /\ \A e \in AuditEvents : Audit!OnDisk(e) <=> Sink!OnDisk(e)
  <1>1. Audit!TypeOK <=> Sink!TypeOK
    BY DEF Audit!TypeOK, Sink!TypeOK, Audit!Hashes, Sink!Hashes, Audit!Lines, Sink!Lines,
           Audit!WriteStates, Sink!WriteStates
  <1>2. Audit!Init <=> Sink!Init
    BY DEF Audit!Init, Sink!Init, Audit!Genesis, Sink!Genesis
  <1>3. \A e \in AuditEvents : Audit!OnDisk(e) <=> Sink!OnDisk(e)
    BY DEF Audit!OnDisk, Sink!OnDisk, Audit!WrittenLine, Sink!WrittenLine,
           Audit!HashOf, Sink!HashOf
  <1> QED
    BY <1>1, <1>2, <1>3

(* The events of a request, and those of different requests, are distinct. *)
LEMMA EventsDistinct ==
    ASSUME NEW r \in Requests, NEW q \in Requests
    PROVE  /\ DecisionEvent(r) \in AuditEvents
           /\ FailureEvent(r) \in AuditEvents
           /\ DecisionEvent(r) # FailureEvent(q)
           /\ DecisionEvent(r) = DecisionEvent(q) => r = q
           /\ FailureEvent(r) = FailureEvent(q) => r = q
  BY DEF AuditEvents, DecisionEvent, FailureEvent

LEMMA EventKinds ==
    ASSUME NEW e \in AuditEvents
    PROVE  \E r \in Requests : e = DecisionEvent(r) \/ e = FailureEvent(r)
  BY DEF AuditEvents, DecisionEvent, FailureEvent

-----------------------------------------------------------------------------
(* Every step of the gateway is one of its sink, or leaves the sink alone. *)

LEMMA HashEventAllowed ==
    ASSUME NEW e \in AuditEvents, Sink!HashEvent(e)
    PROVE  Audit!Next
  BY DEF Sink!HashEvent, Audit!HashEvent, Audit!Next, Audit!Write, Sink!HashOf, Audit!HashOf

LEMMA WriteStepAllowed ==
    ASSUME NEW e \in AuditEvents,
           \/ Sink!AppendLine(e) \/ Sink!ShortWrite(e) \/ Sink!Sync(e)
           \/ Sink!CloseHandle(e) \/ Sink!RejectWrite(e)
    PROVE  Audit!Next
  <1>1. CASE Sink!AppendLine(e)
    BY <1>1 DEF Audit!Next, Audit!Write, Sink!AppendLine, Audit!AppendLine,
       Sink!AppendBytes, Audit!AppendBytes, Sink!Garbled, Audit!Garbled,
       Sink!WrittenLine, Audit!WrittenLine, Sink!HashOf, Audit!HashOf
  <1>2. CASE Sink!ShortWrite(e)
    BY <1>2 DEF Audit!Next, Audit!Write, Sink!ShortWrite, Audit!ShortWrite,
       Sink!AppendBytes, Audit!AppendBytes, Sink!Garbled, Audit!Garbled,
       Sink!TornLine, Audit!TornLine, Sink!HashOf, Audit!HashOf
  <1>3. CASE Sink!Sync(e) \/ Sink!CloseHandle(e)
    BY <1>3 DEF Audit!Next, Audit!Write, Sink!Sync, Audit!Sync,
       Sink!CloseHandle, Audit!CloseHandle
  <1>4. CASE Sink!RejectWrite(e)
    BY <1>4 DEF Audit!Next, Audit!Write, Sink!RejectWrite, Audit!RejectWrite,
       Sink!InFlight, Audit!InFlight
  <1> QED
    BY <1>1, <1>2, <1>3, <1>4

LEMMA ProcessEndsAllowed ==
    ASSUME Sink!ProcessEnds
    PROVE  Audit!Next
  BY DEF Sink!ProcessEnds, Audit!ProcessEnds, Audit!Kill, Audit!Next,
         Sink!LoseInFlight, Audit!LoseInFlight, Sink!InFlight, Audit!InFlight

LEMMA PowerLossAllowed ==
    ASSUME NEW n \in 0..Len(file), NEW torn \in BOOLEAN, Sink!PowerLoss(n, torn)
    PROVE  Audit!Next
  <1>1. Audit!PowerLoss(n, torn)
    BY DEF Sink!PowerLoss, Audit!PowerLoss, Sink!LoseInFlight, Audit!LoseInFlight,
           Sink!InFlight, Audit!InFlight, Sink!Garbled, Audit!Garbled
  <1> QED
    BY <1>1 DEF Audit!Next

LEMMA PowerLossInLineAllowed ==
    ASSUME Sink!PowerLossInLine
    PROVE  Audit!Next
  BY DEF Sink!PowerLossInLine, Audit!PowerLossInLine, Sink!LoseInFlight, Audit!LoseInFlight,
         Sink!InFlight, Audit!InFlight, Audit!Next

LEMMA RestartAllowed ==
    ASSUME Sink!InitSink
    PROVE  Audit!Next
  BY DEF Sink!InitSink, Audit!InitSink, Audit!Next, Sink!RecoveredHash, Audit!RecoveredHash,
         Sink!Genesis, Audit!Genesis

LEMMA SinkStep == [Next]_vars => [Audit!Next]_(Audit!sinkVars)
  <1> SUFFICES ASSUME [Next]_vars
               PROVE  Audit!Next \/ UNCHANGED sinkVars
    BY DEF sinkVars, Audit!sinkVars
  <1>1. ASSUME NEW r \in Requests, RejectRequest(r) \/ AcceptRequest(r) \/ TokenRejected(r)
                                   \/ UpstreamAnswers(r)
        PROVE  UNCHANGED sinkVars
    BY <1>1 DEF RejectRequest, AcceptRequest, TokenRejected, UpstreamAnswers
  <1>2. ASSUME NEW r \in Requests, NEW result, EvaluatePolicy(r, result)
        PROVE  Audit!Next \/ UNCHANGED sinkVars
    BY <1>2, EventsDistinct, HashEventAllowed DEF EvaluatePolicy, Decide
  <1>3. ASSUME NEW r \in Requests, NEW reply1, StepUpSettles(r, reply1)
        PROVE  Audit!Next
    BY <1>3, EventsDistinct, HashEventAllowed DEF StepUpSettles, Decide
  <1>4. ASSUME NEW r \in Requests, DecisionAudited(r) \/ FailureAudited(r) \/ AuditRejects(r)
        PROVE  Audit!Next
    BY <1>4, EventsDistinct, WriteStepAllowed DEF DecisionAudited, FailureAudited, AuditRejects
  <1>5. ASSUME NEW r \in Requests, UpstreamFails(r)
        PROVE  Audit!Next
    BY <1>5, EventsDistinct, HashEventAllowed DEF UpstreamFails
  <1>6. ASSUME NEW e \in AuditEvents, WriteProceeds(e)
        PROVE  Audit!Next
    BY <1>6, WriteStepAllowed DEF WriteProceeds
  <1>7. CASE Crash
    BY <1>7, ProcessEndsAllowed, PowerLossAllowed, PowerLossInLineAllowed DEF Crash, Sink!Kill
  <1>8. CASE Exit \/ Restart
    BY <1>8, ProcessEndsAllowed, RestartAllowed DEF Exit, Restart
  <1>9. CASE Signal \/ UNCHANGED vars
    BY <1>9 DEF Signal, vars, moving
  <1> QED
    BY <1>1, <1>2, <1>3, <1>4, <1>5, <1>6, <1>7, <1>8, <1>9 DEF Next, HandlerStep

(* The calls, their crashes and their restarts drive the audit sink as     *)
(* AuditSink says that it may be driven.                                   *)
THEOREM SinkImplemented == Spec => Audit!Spec
  <1>1. Init => Audit!Init
    BY SameSink DEF Init
  <1> QED
    BY <1>1, SinkStep, PTL DEF Spec, Audit!Spec

-----------------------------------------------------------------------------
(* The inductive invariant.  The places and the two writes of a call go    *)
(* together: a handler only goes on from a write that has resolved, and    *)
(* what it let through or answered rests on such a write.                  *)
Open == {"hashed", "appended", "synced"}

Undecided == {"idle", "validating", "approving"}

Linked(r) ==
    /\ decision[r] = "none" <=> state[DecisionEvent(r)] = "new"
    /\ decision[r] = "unrecognised" => "unrecognised" \in PolicyResults
    /\ pc[r] \in Undecided => decision[r] = "none"
    /\ pc[r] = "auditing" => state[DecisionEvent(r)] \in Open
    /\ pc[r] \in {"forwarding", "failureAuditing"} =>
          /\ state[DecisionEvent(r)] = "acked"
          /\ Mode = "proxy" /\ LetsThrough(decision[r])
    /\ pc[r] = "forwarding" => state[FailureEvent(r)] = "new"
    /\ pc[r] = "failureAuditing" => state[FailureEvent(r)] \in Open
    /\ state[FailureEvent(r)] # "new" => state[DecisionEvent(r)] = "acked"
    /\ r \in executed => LetsThrough(decision[r]) /\ state[DecisionEvent(r)] = "acked"
    /\ reply[r] # "none" => pc[r] = "done"
    /\ reply[r] \in {"allowed", "denied", "result", "upstreamError"} =>
          state[DecisionEvent(r)] = "acked"
    /\ reply[r] = "upstreamError" => state[FailureEvent(r)] = "acked"

CallInv == TypeOK /\ \A r \in Requests : Linked(r)

Moves(e, from, to) == state[e] \in from /\ state' = [state EXCEPT ![e] = to]

LEMMA SinkMoves ==
    ASSUME NEW e \in AuditEvents
    PROVE  /\ Sink!HashEvent(e) => Moves(e, {"new"}, "hashed")
           /\ Sink!AppendLine(e) \/ Sink!ShortWrite(e) => Moves(e, {"hashed"}, "appended")
           /\ Sink!Sync(e) => Moves(e, {"appended"}, "synced")
           /\ Sink!CloseHandle(e) => Moves(e, {"synced"}, "acked")
           /\ Sink!RejectWrite(e) => Moves(e, Open, "failed")
  BY DEF Moves, Open, Sink!HashEvent, Sink!AppendLine, Sink!ShortWrite, Sink!Sync,
         Sink!CloseHandle, Sink!RejectWrite, Sink!InFlight

(* A step that leaves alone what Linked(q) is about. *)
LEMMA LinkedKept ==
    ASSUME NEW q \in Requests, Linked(q), deployment' = deployment,
           pc'[q] = pc[q], decision'[q] = decision[q], reply'[q] = reply[q],
           q \in executed' <=> q \in executed,
           state'[DecisionEvent(q)] = state[DecisionEvent(q)],
           state'[FailureEvent(q)] = state[FailureEvent(q)]
    PROVE  Linked(q)'
  BY DEF Linked, LetsThrough, Mode, PolicyResults, DecisionEvent, FailureEvent

(* A step of the handler of r, with one move of one of its two events or   *)
(* none, is no step of any other call.                                     *)
LEMMA OthersLinked ==
    ASSUME CallInv, NEW r \in Requests, deployment' = deployment,
           \/ UNCHANGED state
           \/ \E s : \E e \in {DecisionEvent(r), FailureEvent(r)} : state' = [state EXCEPT ![e] = s],
           \E p : pc' = [pc EXCEPT ![r] = p],
           UNCHANGED decision \/ \E d : decision' = [decision EXCEPT ![r] = d],
           UNCHANGED reply \/ \E a : reply' = [reply EXCEPT ![r] = a],
           executed' \in {executed, executed \cup {r}},
           NEW q \in Requests, q # r
    PROVE  Linked(q)'
  <1>1. pc'[q] = pc[q] /\ decision'[q] = decision[q] /\ reply'[q] = reply[q]
    BY DEF CallInv, TypeOK
  <1>2. q \in executed' <=> q \in executed
    OBVIOUS
  <1>3. /\ state'[DecisionEvent(q)] = state[DecisionEvent(q)]
        /\ state'[FailureEvent(q)] = state[FailureEvent(q)]
    <2>1. state \in [AuditEvents -> Sink!WriteStates]
      BY DEF CallInv, TypeOK, Sink!TypeOK
    <2> QED
      BY <2>1, EventsDistinct
  <1>4. Linked(q)
    BY DEF CallInv
  <1> QED
    BY <1>1, <1>2, <1>3, <1>4, LinkedKept

LEMMA LinkedInit == Init => \A r \in Requests : Linked(r)
  <1> SUFFICES ASSUME Init, NEW r \in Requests
               PROVE  Linked(r)
    OBVIOUS
  <1>1. /\ pc[r] = "idle" /\ decision[r] = "none" /\ reply[r] = "none" /\ executed = {}
        /\ state[DecisionEvent(r)] = "new" /\ state[FailureEvent(r)] = "new"
    BY EventsDistinct DEF Init, Sink!Init
  <1> QED
    BY <1>1 DEF Linked, Undecided
(* The types, but for those of the sink, which AuditSinkProofs has. *)
LEMMA TypeNext == TypeOK /\ [Next]_vars /\ Sink!TypeOK' => TypeOK'
  <1> SUFFICES ASSUME TypeOK, [Next]_vars, Sink!TypeOK'
               PROVE  TypeOK'
    OBVIOUS
  <1>0. deployment \in Deployment
    BY ToolCallGatewayAssumption DEF TypeOK
  <1>1. ASSUME NEW r \in Requests, RejectRequest(r) \/ AcceptRequest(r) \/ TokenRejected(r)
                                   \/ UpstreamAnswers(r), UNCHANGED deployment
        PROVE  TypeOK'
    BY <1>1 DEF TypeOK, PolicyResults, RejectRequest, AcceptRequest, TokenRejected,
                UpstreamAnswers, Answer, Goto
  <1>2. ASSUME NEW r \in Requests, NEW result \in PolicyResults, EvaluatePolicy(r, result),
               UNCHANGED deployment
        PROVE  TypeOK'
    BY <1>2 DEF TypeOK, PolicyResults, EvaluatePolicy, Uncaught, Decide, Answer, Goto
  <1>3. ASSUME NEW r \in Requests, NEW answer \in {"approve", "refuse", "noAnswer"},
               StepUpSettles(r, answer), UNCHANGED deployment
        PROVE  TypeOK'
    BY <1>3 DEF TypeOK, PolicyResults, StepUpSettles, Decide, Goto
  <1>4. ASSUME NEW r \in Requests, DecisionAudited(r), UNCHANGED deployment
        PROVE  TypeOK'
    BY <1>4 DEF TypeOK, PolicyResults, DecisionAudited, Answer, Goto
  <1>5. ASSUME NEW r \in Requests, UpstreamFails(r) \/ FailureAudited(r) \/ AuditRejects(r),
               UNCHANGED deployment
        PROVE  TypeOK'
    BY <1>5 DEF TypeOK, PolicyResults, UpstreamFails, FailureAudited, AuditRejects, Uncaught,
                Answer, Goto
  <1>6. ASSUME NEW e \in AuditEvents, WriteProceeds(e), UNCHANGED deployment
        PROVE  TypeOK'
    BY <1>6 DEF TypeOK, PolicyResults, WriteProceeds, callVars
  <1>7. CASE (Crash \/ Exit) /\ UNCHANGED deployment
    BY <1>7 DEF TypeOK, PolicyResults, Crash, Exit, LeaveUnfinished
  <1>8. CASE (Signal \/ Restart) /\ UNCHANGED deployment
    BY <1>8 DEF TypeOK, PolicyResults, Signal, Restart, callVars
  <1>9. CASE UNCHANGED vars
    BY <1>9 DEF TypeOK, PolicyResults, vars, moving, callVars
  <1> QED
    BY <1>1, <1>2, <1>3, <1>4, <1>5, <1>6, <1>7, <1>8, <1>9 DEF Next, HandlerStep

LEMMA LinkedNext == CallInv /\ [Next]_vars => \A q \in Requests : Linked(q)'
  <1> SUFFICES ASSUME CallInv, [Next]_vars, NEW q \in Requests
               PROVE  Linked(q)'
    OBVIOUS
  <1>0. /\ deployment \in Deployment /\ Linked(q)
        /\ state \in [AuditEvents -> Sink!WriteStates]
        /\ DecisionEvent(q) \in AuditEvents /\ FailureEvent(q) \in AuditEvents
        /\ DecisionEvent(q) # FailureEvent(q)
    BY ToolCallGatewayAssumption, EventsDistinct DEF CallInv, TypeOK, Sink!TypeOK
  <1>1. ASSUME NEW r \in Requests, RejectRequest(r) \/ AcceptRequest(r) \/ TokenRejected(r)
                                   \/ UpstreamAnswers(r), UNCHANGED deployment
        PROVE  Linked(q)'
    <2>1. CASE q # r
      BY <1>1, <2>1, OthersLinked DEF RejectRequest, AcceptRequest, TokenRejected,
         UpstreamAnswers, Answer, Goto, sinkVars
    <2>2. CASE q = r
      <3>1. UNCHANGED << state, decision, executed >>
        BY <1>1 DEF RejectRequest, AcceptRequest, TokenRejected, UpstreamAnswers, sinkVars
      <3>2. CASE AcceptRequest(r)
        BY <1>0, <1>1, <2>2, <3>1, <3>2 DEF AcceptRequest, Arrives, Goto,
           CallInv, TypeOK, Linked, Undecided, LetsThrough, Mode, PolicyResults
      <3>3. CASE RejectRequest(r) \/ TokenRejected(r)
        <4>1. pc'[r] = "done" /\ reply'[r] \in {"invalid", "unauthorized"}
          BY <3>3 DEF RejectRequest, TokenRejected, Answer, Goto, CallInv, TypeOK
        <4> QED
          BY <1>0, <1>1, <2>2, <3>1, <4>1 DEF Linked, Undecided, LetsThrough, Mode, PolicyResults
      <3>4. CASE UpstreamAnswers(r)
        <4>1. pc[r] = "forwarding" /\ pc'[r] = "done" /\ reply'[r] = "result"
          BY <3>4 DEF UpstreamAnswers, Answer, Goto, CallInv, TypeOK
        <4> QED
          BY <1>0, <1>1, <2>2, <3>1, <4>1 DEF Linked, Undecided, LetsThrough, Mode, PolicyResults
      <3> QED
        BY <1>1, <3>2, <3>3, <3>4
    <2> QED
      BY <2>1, <2>2
  <1>2. ASSUME NEW r \in Requests, NEW result \in PolicyResults, EvaluatePolicy(r, result),
               UNCHANGED deployment
        PROVE  Linked(q)'
    <2>1. UNCHANGED state \/ Moves(DecisionEvent(r), {"new"}, "hashed")
      BY <1>2, EventsDistinct, SinkMoves DEF EvaluatePolicy, Decide, sinkVars
    <2>2. CASE q # r
      BY <1>2, <2>1, <2>2, OthersLinked DEF EvaluatePolicy, Uncaught, Decide, Answer, Goto, Moves
    <2>3. CASE q = r
      <3>1. CASE result = "throws"
        BY <1>0, <1>2, <2>3, <3>1 DEF EvaluatePolicy, Uncaught, Answer, Goto, sinkVars,
           CallInv, TypeOK, Linked, Undecided, Open, LetsThrough, Mode, PolicyResults
      <3>2. CASE result = "step_up" /\ StepUp # "absent"
        <4>1. UNCHANGED << state, decision, reply, executed >>
          BY <1>2, <3>2 DEF EvaluatePolicy, sinkVars
        <4>2. pc[r] = "validating" /\ pc'[r] = "approving"
          BY <1>2, <3>2 DEF EvaluatePolicy, Goto, CallInv, TypeOK
        <4> QED
          BY <1>0, <1>2, <2>3, <4>1, <4>2 DEF Linked, Undecided, LetsThrough, Mode, PolicyResults
      <3>3. ASSUME NEW d \in {"allow", "deny", "unrecognised"}, Decide(r, d)
            PROVE  Linked(q)'
        <4>1. Moves(DecisionEvent(r), {"new"}, "hashed")
          BY <3>3, EventsDistinct, SinkMoves DEF Decide
        <4> QED
          BY <1>0, <1>2, <2>3, <3>3, <4>1 DEF EvaluatePolicy, Decide, Goto, Moves, Open,
             CallInv, TypeOK, Linked, Undecided, LetsThrough, Mode, PolicyResults
      <3> QED
        BY <1>2, <3>1, <3>2, <3>3 DEF EvaluatePolicy
    <2> QED
      BY <2>2, <2>3
  <1>3. ASSUME NEW r \in Requests, NEW answer \in {"approve", "refuse", "noAnswer"},
               StepUpSettles(r, answer), UNCHANGED deployment
        PROVE  Linked(q)'
    <2>1. PICK d \in {"allow", "deny"} : Decide(r, d)
      BY <1>3 DEF StepUpSettles
    <2>2. Moves(DecisionEvent(r), {"new"}, "hashed")
      BY <2>1, EventsDistinct, SinkMoves DEF Decide
    <2>3. CASE q # r
      BY <1>3, <2>1, <2>2, <2>3, OthersLinked DEF StepUpSettles, Decide, Goto, Moves
    <2>4. CASE q = r
      BY <1>0, <1>3, <2>1, <2>2, <2>4 DEF StepUpSettles, Decide, Goto, Moves, Open,
         CallInv, TypeOK, Linked, Undecided, LetsThrough, Mode, PolicyResults
    <2> QED
      BY <2>3, <2>4
  <1>4. ASSUME NEW r \in Requests, DecisionAudited(r), UNCHANGED deployment
        PROVE  Linked(q)'
    <2>1. Moves(DecisionEvent(r), {"synced"}, "acked")
      BY <1>4, EventsDistinct, SinkMoves DEF DecisionAudited
    <2>2. CASE q # r
      BY <1>4, <2>1, <2>2, OthersLinked DEF DecisionAudited, Answer, Goto, Moves
    <2>3. CASE q = r
      BY <1>0, <1>4, <2>1, <2>3 DEF DecisionAudited, Answer, Goto, Moves, Open,
         CallInv, TypeOK, Linked, Undecided, LetsThrough, Mode, PolicyResults
    <2> QED
      BY <2>2, <2>3
  <1>5. ASSUME NEW r \in Requests, UpstreamFails(r), UNCHANGED deployment
        PROVE  Linked(q)'
    <2>1. Moves(FailureEvent(r), {"new"}, "hashed")
      BY <1>5, EventsDistinct, SinkMoves DEF UpstreamFails
    <2>2. CASE q # r
      BY <1>5, <2>1, <2>2, OthersLinked DEF UpstreamFails, Goto, Moves
    <2>3. CASE q = r
      BY <1>0, <1>5, <2>1, <2>3 DEF UpstreamFails, Goto, Moves, Open,
         CallInv, TypeOK, Linked, Undecided, LetsThrough, Mode, PolicyResults
    <2> QED
      BY <2>2, <2>3
  <1>6. ASSUME NEW r \in Requests, FailureAudited(r), UNCHANGED deployment
        PROVE  Linked(q)'
    <2>1. Moves(FailureEvent(r), {"synced"}, "acked")
      BY <1>6, EventsDistinct, SinkMoves DEF FailureAudited
    <2>2. CASE q # r
      BY <1>6, <2>1, <2>2, OthersLinked DEF FailureAudited, Answer, Goto, Moves
    <2>3. CASE q = r
      BY <1>0, <1>6, <2>1, <2>3 DEF FailureAudited, Answer, Goto, Moves, Open,
         CallInv, TypeOK, Linked, Undecided, LetsThrough, Mode, PolicyResults
    <2> QED
      BY <2>2, <2>3
  <1>7. ASSUME NEW r \in Requests, AuditRejects(r), UNCHANGED deployment
        PROVE  Linked(q)'
    <2>1. \/ pc[r] = "auditing" /\ Moves(DecisionEvent(r), Open, "failed")
          \/ pc[r] = "failureAuditing" /\ Moves(FailureEvent(r), Open, "failed")
      BY <1>7, EventsDistinct, SinkMoves DEF AuditRejects
    <2>2. CASE q # r
      BY <1>7, <2>1, <2>2, OthersLinked DEF AuditRejects, Uncaught, Answer, Goto, Moves
    <2>3. CASE q = r
      BY <1>0, <1>7, <2>1, <2>3 DEF AuditRejects, Uncaught, Answer, Goto, Moves, Open,
         CallInv, TypeOK, Linked, Undecided, LetsThrough, Mode, PolicyResults
    <2> QED
      BY <2>2, <2>3
  <1>8. ASSUME NEW e \in AuditEvents, WriteProceeds(e), UNCHANGED deployment
        PROVE  Linked(q)'
    <2>1. \E from \in {"hashed", "appended"}, to \in {"appended", "synced"} :
             Moves(e, {from}, to)
      BY <1>8, SinkMoves DEF WriteProceeds
    <2>2. \A d \in AuditEvents : state'[d] = state[d] \/ (state[d] \in Open /\ state'[d] \in Open)
      BY <1>0, <2>1 DEF Moves, Open
    <2>3. \A d \in AuditEvents, s \in {"new", "acked"} : state'[d] = s <=> state[d] = s
      BY <2>2 DEF Open
    <2>4. \A d \in AuditEvents : state[d] \in Open => state'[d] \in Open
      BY <2>2
    <2> QED
      BY <1>0, <1>8, <2>3, <2>4 DEF WriteProceeds, callVars, Linked, LetsThrough, Mode, PolicyResults,
         DecisionEvent, FailureEvent
  <1>9. CASE (Crash \/ Exit) /\ UNCHANGED deployment
    <2>1. Sink!LoseInFlight
      BY <1>9 DEF Crash, Exit, Sink!Kill, Sink!ProcessEnds, Sink!PowerLoss, Sink!PowerLossInLine
    <2>2. \A d \in AuditEvents, s \in {"new", "acked"} : state'[d] = s <=> state[d] = s
      BY <2>1 DEF Sink!LoseInFlight, Sink!InFlight
    <2>3. /\ pc'[q] \in {pc[q], "killed", "dropped"}
          /\ pc'[q] \notin {"validating", "approving", "auditing", "forwarding", "failureAuditing"}
          /\ pc[q] = "done" => pc'[q] = "done"
      BY <1>9 DEF Crash, Exit, LeaveUnfinished, Unfinished, CallInv, TypeOK
    <2> QED
      BY <1>0, <1>9, <2>2, <2>3 DEF Crash, Exit, Linked, Undecided, LetsThrough, Mode, PolicyResults,
         DecisionEvent, FailureEvent
  <1>10. CASE (Signal \/ Restart \/ UNCHANGED vars) /\ UNCHANGED deployment
    <2>1. UNCHANGED << callVars, state >>
      BY <1>10 DEF Signal, Restart, Sink!InitSink, vars, moving, sinkVars
    <2> QED
      BY <1>0, <1>10, <2>1, LinkedKept DEF callVars
  <1> QED
    BY <1>1, <1>2, <1>3, <1>4, <1>5, <1>6, <1>7, <1>8, <1>9, <1>10 DEF Next, HandlerStep, vars
LEMMA CallInvariant == Spec => [](CallInv /\ Audit!TypeInv /\ Audit!HeldInv)
  <1>1. Init => Audit!Init /\ Sink!TypeOK /\ Audit!TypeInv /\ Audit!HeldInv
    <2> SUFFICES ASSUME Init
                 PROVE  Audit!Init /\ Sink!TypeOK /\ Audit!TypeInv /\ Audit!HeldInv
      OBVIOUS
    <2>1. Audit!Init
      BY SameSink DEF Init
    <2>2. Audit!TypeInv
      BY <2>1, AuditAssumed, Audit!TypeInvInit
    <2>3. Audit!HeldInv
      BY <2>1 DEF Audit!Init, Audit!HeldInv
    <2> QED
      BY <2>1, <2>2, <2>3, SameSink DEF Audit!TypeInv
  <1>2. Init /\ Sink!TypeOK => CallInv
    <2>1. Init /\ Sink!TypeOK => TypeOK
      BY ToolCallGatewayAssumption DEF Init, TypeOK, PolicyResults
    <2> QED
      BY <2>1, LinkedInit DEF CallInv
  <1>3. Audit!TypeInv /\ Audit!HeldInv /\ [Next]_vars =>
            Audit!TypeInv' /\ Audit!HeldInv' /\ Sink!TypeOK'
    <2> SUFFICES ASSUME Audit!TypeInv, Audit!HeldInv, [Next]_vars
                 PROVE  Audit!TypeInv' /\ Audit!HeldInv' /\ Sink!TypeOK'
      OBVIOUS
    <2>1. [Audit!Next]_(Audit!sinkVars)
      BY SinkStep
    <2>2. Audit!TypeInv' /\ Audit!HeldInv'
      BY <2>1, AuditAssumed, Audit!TypeInvNext, Audit!HeldInvNext
    <2>3. Sink!TypeOK'
      BY <2>2 DEF Audit!TypeInv, Audit!TypeOK, Sink!TypeOK, Audit!Hashes, Sink!Hashes,
         Audit!Lines, Sink!Lines, Audit!WriteStates, Sink!WriteStates
    <2> QED
      BY <2>2, <2>3
  <1>4. CallInv /\ Sink!TypeOK' /\ [Next]_vars => CallInv'
    BY TypeNext, LinkedNext DEF CallInv
  <1> QED
    BY <1>1, <1>2, <1>3, <1>4, PTL DEF Spec

(* Every variable keeps its type, that of the sink included.               *)
THEOREM TypeCorrect == Spec => []TypeOK
  <1>1. CallInv => TypeOK
    BY DEF CallInv
  <1> QED
    BY <1>1, CallInvariant, PTL

-----------------------------------------------------------------------------
(* What is let through and what is answered.  Two things the code does not *)
(* ensure are assumed where they are needed: that no line of the audit is  *)
(* cut in the middle, and that a gateway which proxies has no policy with  *)
(* an effect that is none of the three, which it would let through.        *)
Untorn == Faults \cap {"tornTail", "shortWrite"} = {}

Recognised ==
    \A d \in Deployments : d.mode = "proxy" => "unrecognised" \notin d.policyResults

LEMMA LetsThroughAllowed ==
    ASSUME Recognised, CallInv, NEW r \in Requests, LetsThrough(decision[r]),
           state[DecisionEvent(r)] # "new"
    PROVE  decision[r] = "allow"
  <1>1. decision[r] \in {"allow", "deny", "unrecognised"} /\ Linked(r)
    BY DEF CallInv, TypeOK, Linked
  <1>2. CASE Mode = "proxy"
    <2>1. "unrecognised" \notin PolicyResults
      BY <1>2 DEF Recognised, CallInv, TypeOK, Mode, PolicyResults
    <2> QED
      BY <1>1, <1>2, <2>1 DEF LetsThrough, Linked
  <1>3. CASE Mode # "proxy"
    BY <1>3 DEF LetsThrough
  <1> QED
    BY <1>2, <1>3

LEMMA MediatedOnDisk ==
    ASSUME Recognised, CallInv,
           \A e \in AuditEvents : state[e] = "acked" => Sink!OnDisk(e)
    PROVE  Mediated
  <1> SUFFICES ASSUME NEW r \in executed
               PROVE  decision[r] = "allow" /\ DecisionOnDisk(r)
    BY DEF Mediated
  <1>1. r \in Requests /\ DecisionEvent(r) \in AuditEvents
    BY EventsDistinct DEF CallInv, TypeOK
  <1>2. LetsThrough(decision[r]) /\ state[DecisionEvent(r)] = "acked"
    BY <1>1 DEF CallInv, Linked
  <1> QED
    BY <1>1, <1>2, LetsThroughAllowed DEF DecisionOnDisk

LEMMA AnswersOnDisk ==
    ASSUME CallInv,
           \A e \in AuditEvents : state[e] = "acked" => Sink!OnDisk(e)
    PROVE  AnswersAudited
  <1> SUFFICES ASSUME NEW r \in Requests
               PROVE  /\ reply[r] \in {"allowed", "denied", "result", "upstreamError"} =>
                             DecisionOnDisk(r)
                      /\ reply[r] = "upstreamError" => Sink!OnDisk(FailureEvent(r))
    BY DEF AnswersAudited
  <1> QED
    BY EventsDistinct DEF CallInv, Linked, DecisionOnDisk

LEMMA SinkUntorn ==
    ASSUME Untorn
    PROVE  Spec => []Audit!NoScar
  <1>1. Audit!NoTearing
    BY DEF Untorn, Audit!NoTearing
  <1>2. Audit!Spec => [](Audit!TypeInv /\ Audit!NoScar /\ Audit!HeldInv)
    BY <1>1, AuditAssumed, Audit!UntornInvariant
  <1> QED
    BY <1>2, SinkImplemented, PTL

LEMMA AckedOnDisk ==
    ASSUME Untorn, Audit!TypeInv, Audit!HeldInv, Audit!NoScar
    PROVE  \A e \in AuditEvents : state[e] = "acked" => Sink!OnDisk(e)
  <1>1. Audit!AckedDurable
    BY AuditAssumed, Audit!NoScarImplies
  <1> QED
    BY <1>1, SameSink DEF Audit!AckedDurable

(* No call takes effect before the decision to allow it is on the disk,    *)
(* whatever the calls in flight, the crashes and the restarts.             *)
THEOREM Mediation ==
    ASSUME Untorn, Recognised
    PROVE  Spec => []Mediated
  <1>1. CallInv /\ Audit!TypeInv /\ Audit!HeldInv /\ Audit!NoScar => Mediated
    BY AckedOnDisk, MediatedOnDisk
  <1> QED
    BY <1>1, CallInvariant, SinkUntorn, PTL

(* What a client was told is in the file, through crashes and restarts.    *)
THEOREM Accountability ==
    ASSUME Untorn
    PROVE  Spec => []AnswersAudited
  <1>1. CallInv /\ Audit!TypeInv /\ Audit!HeldInv /\ Audit!NoScar => AnswersAudited
    BY AckedOnDisk, AnswersOnDisk
  <1> QED
    BY <1>1, CallInvariant, SinkUntorn, PTL

(* Under every fault, torn lines among them: a file that verifies accounts *)
(* for all that was let through and for all that was answered.             *)
THEOREM VerifiedFileAccounts ==
    ASSUME Recognised
    PROVE  Spec => [](Sink!VerifyAuditChain(file) => Mediated /\ AnswersAudited)
  <1>1. CallInv /\ Audit!TypeInv /\ Audit!HeldInv =>
            (Sink!VerifyAuditChain(file) => Mediated /\ AnswersAudited)
    <2> SUFFICES ASSUME CallInv, Audit!TypeInv, Audit!HeldInv, Sink!VerifyAuditChain(file)
                 PROVE  Mediated /\ AnswersAudited
      OBVIOUS
    <2>1. Audit!VerifyAuditChain(file)
      BY DEF Sink!VerifyAuditChain, Audit!VerifyAuditChain, Sink!LineVerifies, Audit!LineVerifies,
         Sink!ExpectedPrevHash, Audit!ExpectedPrevHash, Sink!HashOf, Audit!HashOf,
         Sink!Genesis, Audit!Genesis
    <2>2. Audit!VerifiedIsComplete
      BY AuditAssumed, Audit!HeldInvImplies
    <2>3. \A e \in AuditEvents : state[e] = "acked" => Sink!OnDisk(e)
      BY <2>1, <2>2, SameSink DEF Audit!VerifiedIsComplete
    <2> QED
      BY <2>3, MediatedOnDisk, AnswersOnDisk
  <1> QED
    BY <1>1, CallInvariant, PTL
-----------------------------------------------------------------------------
(* The order of the two lines of a call.  A failure is only written once   *)
(* its decision is on the disk, and what is on the disk is never behind    *)
(* what is appended later.                                                 *)

Follows(lines) ==
    \A r \in Requests, i \in 1..Len(lines) :
        lines[i].event = FailureEvent(r) =>
            \E j \in 1..i : lines[j].event = DecisionEvent(r)

LEMMA FollowsAppend ==
    ASSUME NEW lines \in Seq(Audit!Lines), NEW l \in Audit!Lines, Follows(lines),
           \A r \in Requests : l.event = FailureEvent(r) =>
               \E j \in 1..Len(lines) : lines[j].event = DecisionEvent(r)
    PROVE  Follows(Append(lines, l))
  <1> DEFINE longer == Append(lines, l)
  <1>1. /\ Len(longer) = Len(lines) + 1
        /\ \A i \in 1..Len(lines) : longer[i] = lines[i]
        /\ longer[Len(lines) + 1] = l
    BY AuditAssumed, Audit!AppendLineProperties
  <1>2. Len(lines) \in Nat
    OBVIOUS
  <1> HIDE DEF longer
  <1> SUFFICES ASSUME NEW r \in Requests, NEW i \in 1..Len(longer),
                      longer[i].event = FailureEvent(r)
               PROVE  \E j \in 1..i : longer[j].event = DecisionEvent(r)
    BY DEF Follows, longer
  <1>3. CASE i \in 1..Len(lines)
    <2>1. PICK j \in 1..i : lines[j].event = DecisionEvent(r)
      BY <1>1, <1>3 DEF Follows
    <2>2. j \in 1..Len(lines)
      BY <1>2, <1>3
    <2> QED
      BY <1>1, <2>1, <2>2
  <1>4. CASE i = Len(lines) + 1
    <2>1. PICK j \in 1..Len(lines) : lines[j].event = DecisionEvent(r)
      BY <1>1, <1>4
    <2>2. j \in 1..i
      BY <1>2, <1>4
    <2> QED
      BY <1>1, <2>1, <2>2
  <1> QED
    BY <1>1, <1>2, <1>3, <1>4

LEMMA FollowsPrefix ==
    ASSUME NEW lines \in Seq(Audit!Lines), NEW n \in 0..Len(lines), Follows(lines)
    PROVE  Follows(SubSeq(lines, 1, n))
  <1> DEFINE shorter == SubSeq(lines, 1, n)
  <1>1. Len(shorter) = n /\ \A i \in 1..n : shorter[i] = lines[i]
    BY AuditAssumed, Audit!PrefixProperties
  <1>2. n \in Nat /\ n <= Len(lines) /\ Len(lines) \in Nat
    OBVIOUS
  <1> HIDE DEF shorter
  <1> SUFFICES ASSUME NEW r \in Requests, NEW i \in 1..n, lines[i].event = FailureEvent(r)
               PROVE  \E j \in 1..i : shorter[j].event = DecisionEvent(r)
    BY <1>1 DEF Follows, shorter
  <1>3. PICK j \in 1..i : lines[j].event = DecisionEvent(r)
    BY <1>2 DEF Follows
  <1>4. j \in 1..n
    BY <1>2
  <1> QED
    BY <1>1, <1>3, <1>4

(* What a step can do to the file while no line is cut. *)
LEMMA FileStep ==
    ASSUME Untorn, Audit!NoScar, [Next]_vars
    PROVE  \/ UNCHANGED file
           \/ \E e \in AuditEvents :
                 state[e] = "hashed" /\ file' = Append(file, Audit!WrittenLine(e, prevOf[e]))
           \/ \E n \in synced..Len(file) : file' = SubSeq(file, 1, n)
  <1>1. ASSUME NEW e \in AuditEvents, WriteProceeds(e)
        PROVE  UNCHANGED file \/
               (state[e] = "hashed" /\ file' = Append(file, Audit!WrittenLine(e, prevOf[e])))
    <2>1. ~ Sink!ShortWrite(e)
      BY DEF Untorn, Sink!ShortWrite
    <2>2. CASE Sink!AppendLine(e)
      BY <2>2 DEF Sink!AppendLine, Sink!AppendBytes, Audit!NoScar, Sink!WrittenLine,
         Audit!WrittenLine, Sink!HashOf, Audit!HashOf
    <2>3. CASE Sink!Sync(e)
      BY <2>3 DEF Sink!Sync
    <2> QED
      BY <1>1, <2>1, <2>2, <2>3 DEF WriteProceeds
  <1>2. CASE Crash
    <2>1. ASSUME NEW n \in 0..Len(file), NEW torn \in BOOLEAN, Sink!PowerLoss(n, torn)
          PROVE  n \in synced..Len(file) /\ file' = SubSeq(file, 1, n)
      BY <2>1 DEF Sink!PowerLoss, Untorn
    <2>2. ~ Sink!PowerLossInLine
      BY DEF Sink!PowerLossInLine, Audit!NoScar
    <2> QED
      BY <1>2, <2>1, <2>2 DEF Crash, Sink!Kill, Sink!ProcessEnds
  <1>3. ASSUME NEW r \in Requests, NEW result, EvaluatePolicy(r, result)
        PROVE  UNCHANGED file
    BY <1>3 DEF EvaluatePolicy, Decide, Sink!HashEvent, sinkVars
  <1>4. ASSUME NEW r \in Requests, NEW answer, StepUpSettles(r, answer)
        PROVE  UNCHANGED file
    BY <1>4 DEF StepUpSettles, Decide, Sink!HashEvent
  <1>5. ASSUME NEW r \in Requests, RejectRequest(r) \/ AcceptRequest(r) \/ TokenRejected(r)
                                   \/ UpstreamAnswers(r)
        PROVE  UNCHANGED file
    BY <1>5 DEF RejectRequest, AcceptRequest, TokenRejected, UpstreamAnswers, sinkVars
  <1>6. ASSUME NEW r \in Requests, DecisionAudited(r) \/ FailureAudited(r) \/ AuditRejects(r)
                                   \/ UpstreamFails(r)
        PROVE  UNCHANGED file
    BY <1>6 DEF DecisionAudited, FailureAudited, AuditRejects, UpstreamFails,
       Sink!CloseHandle, Sink!RejectWrite, Sink!HashEvent
  <1>7. CASE Signal \/ Exit \/ Restart \/ UNCHANGED vars
    BY <1>7 DEF Signal, Exit, Restart, Sink!ProcessEnds, Sink!InitSink, vars, moving, sinkVars
  <1> QED
    BY <1>1, <1>2, <1>3, <1>4, <1>5, <1>6, <1>7 DEF Next, HandlerStep

LEMMA FollowsNext ==
    ASSUME Untorn, CallInv, Audit!TypeInv, Audit!HeldInv, Audit!NoScar,
           Follows(file), [Next]_vars
    PROVE  Follows(file)'
  <1>0. /\ file \in Seq(Audit!Lines) /\ Len(file) \in Nat /\ synced \in 0..Len(file)
        /\ prevOf \in [AuditEvents -> Audit!Hashes]
    BY DEF Audit!TypeInv, Audit!TypeOK
  <1>1. CASE UNCHANGED file
    BY <1>1 DEF Follows, FailureEvent, DecisionEvent
  <1>2. ASSUME NEW e \in AuditEvents, state[e] = "hashed",
               file' = Append(file, Audit!WrittenLine(e, prevOf[e]))
        PROVE  Follows(file)'
    <2> DEFINE l == Audit!WrittenLine(e, prevOf[e])
    <2>1. l \in Audit!Lines
      BY <1>0, AuditAssumed, Audit!WrittenLineType
    <2>2. ASSUME NEW r \in Requests, l.event = FailureEvent(r)
          PROVE  \E j \in 1..Len(file) : file[j].event = DecisionEvent(r)
      <3>1. e = FailureEvent(r)
        BY <2>2 DEF Audit!WrittenLine
      <3>2. state[DecisionEvent(r)] = "acked"
        BY <1>2, <3>1 DEF CallInv, Linked
      <3>3. Sink!OnDisk(DecisionEvent(r))
        BY <3>2, AckedOnDisk, EventsDistinct
      <3>4. PICK j \in 1..synced : file[j] = Sink!WrittenLine(DecisionEvent(r), prevOf[DecisionEvent(r)])
        BY <3>3 DEF Sink!OnDisk
      <3>5. file[j].event = DecisionEvent(r) /\ j \in 1..Len(file)
        BY <1>0, <3>4 DEF Sink!WrittenLine
      <3> QED
        BY <3>5
    <2>3. Follows(Append(file, l))
      <3> HIDE DEF l
      <3> QED
        BY <1>0, <2>1, <2>2, FollowsAppend
    <2> QED
      BY <1>2, <2>3 DEF Follows, FailureEvent, DecisionEvent
  <1>3. ASSUME NEW n \in synced..Len(file), file' = SubSeq(file, 1, n)
        PROVE  Follows(file)'
    <2>1. n \in 0..Len(file)
      BY <1>0
    <2>2. Follows(SubSeq(file, 1, n))
      BY <1>0, <2>1, FollowsPrefix
    <2> QED
      BY <1>3, <2>2 DEF Follows, FailureEvent, DecisionEvent
  <1> QED
    BY <1>1, <1>2, <1>3, FileStep

(* In the file the failure of a call follows its decision, however other   *)
(* calls' writes and crashes come in between.                              *)
THEOREM FailuresFollow ==
    ASSUME Untorn
    PROVE  Spec => []FailureFollowsDecision
  <1>1. Init => Follows(file)
    BY DEF Init, Sink!Init, Follows
  <1>2. CallInv /\ Audit!TypeInv /\ Audit!HeldInv /\ Audit!NoScar /\ Follows(file) /\ [Next]_vars
            => Follows(file)'
    BY FollowsNext
  <1>3. Follows(file) => FailureFollowsDecision
    BY DEF Follows, FailureFollowsDecision
  <1> QED
    BY <1>1, <1>2, <1>3, CallInvariant, SinkUntorn, PTL DEF Spec
-----------------------------------------------------------------------------
(* The gateway implements AuthorizationContract. *)

Recorded == [r \in Requests |-> IF DecisionOnDisk(r) THEN decision[r] ELSE "none"]

(* A decision, once taken, is never revised. *)
LEMMA DecisionKept ==
    ASSUME CallInv, [Next]_vars, NEW q \in Requests, decision[q] # "none"
    PROVE  decision'[q] = decision[q]
  <1>1. decision \in [Requests -> {"none", "allow", "deny", "unrecognised"}]
        /\ pc[q] \notin Undecided
    BY DEF CallInv, TypeOK, Linked
  <1>2. ASSUME NEW r \in Requests, NEW result, EvaluatePolicy(r, result)
        PROVE  decision'[q] = decision[q]
    BY <1>1, <1>2 DEF EvaluatePolicy, Decide, Undecided
  <1>3. ASSUME NEW r \in Requests, NEW answer, StepUpSettles(r, answer)
        PROVE  decision'[q] = decision[q]
    BY <1>1, <1>3 DEF StepUpSettles, Decide, Undecided
  <1>4. ASSUME NEW r \in Requests, RejectRequest(r) \/ AcceptRequest(r) \/ TokenRejected(r)
                                   \/ UpstreamAnswers(r)
        PROVE  decision'[q] = decision[q]
    BY <1>4 DEF RejectRequest, AcceptRequest, TokenRejected, UpstreamAnswers
  <1>5. ASSUME NEW r \in Requests, DecisionAudited(r) \/ FailureAudited(r) \/ AuditRejects(r)
                                   \/ UpstreamFails(r)
        PROVE  decision'[q] = decision[q]
    BY <1>5 DEF DecisionAudited, FailureAudited, AuditRejects, UpstreamFails
  <1>6. ASSUME NEW e \in AuditEvents, WriteProceeds(e)
        PROVE  decision'[q] = decision[q]
    BY <1>6 DEF WriteProceeds, callVars
  <1>7. CASE Crash \/ Signal \/ Exit \/ Restart \/ UNCHANGED vars
    BY <1>7 DEF Crash, Signal, Exit, Restart, callVars, vars, moving
  <1> QED
    BY <1>2, <1>3, <1>4, <1>5, <1>6, <1>7 DEF Next, HandlerStep

LEMMA RecordedKept ==
    ASSUME Untorn, CallInv, Audit!TypeInv, Audit!NoScar, [Next]_vars,
           NEW q \in Requests, Recorded[q] # "none"
    PROVE  Recorded'[q] = Recorded[q]
  <1>1. DecisionOnDisk(q) /\ decision[q] # "none" /\ Recorded[q] = decision[q]
    BY DEF Recorded
  <1>2. DecisionEvent(q) \in AuditEvents /\ state[DecisionEvent(q)] # "new"
    BY <1>1, EventsDistinct DEF CallInv, Linked
  <1>3. [Audit!Next]_(Audit!sinkVars) /\ Audit!NoTearing
    BY SinkStep DEF Untorn, Audit!NoTearing
  <1>4. Audit!OnDisk(DecisionEvent(q))
    BY <1>1, <1>2, SameSink DEF DecisionOnDisk
  <1>5. Audit!OnDisk(DecisionEvent(q))'
    BY <1>2, <1>3, <1>4, AuditAssumed, Audit!OnDiskKept
  <1>6. DecisionOnDisk(q)'
    BY <1>5 DEF DecisionOnDisk, DecisionEvent, Audit!OnDisk, Sink!OnDisk, Audit!WrittenLine,
       Sink!WrittenLine, Audit!HashOf, Sink!HashOf
  <1>7. decision'[q] = decision[q]
    BY <1>1, DecisionKept
  <1> QED
    BY <1>1, <1>6, <1>7 DEF Recorded

(* The only step that lets a call through. *)
LEMMA ExecutedStep ==
    ASSUME CallInv, [Next]_vars
    PROVE  UNCHANGED executed \/ \E r \in Requests :
               DecisionAudited(r) /\ LetsThrough(decision[r]) /\ executed' = executed \cup {r}
  <1>1. ASSUME NEW r \in Requests, DecisionAudited(r)
        PROVE  UNCHANGED executed \/
               (LetsThrough(decision[r]) /\ executed' = executed \cup {r})
    BY <1>1 DEF DecisionAudited
  <1>2. ASSUME NEW r \in Requests, NEW result, EvaluatePolicy(r, result)
        PROVE  UNCHANGED executed
    BY <1>2 DEF EvaluatePolicy
  <1>3. ASSUME NEW r \in Requests, NEW answer, StepUpSettles(r, answer)
        PROVE  UNCHANGED executed
    BY <1>3 DEF StepUpSettles
  <1>4. ASSUME NEW r \in Requests, RejectRequest(r) \/ AcceptRequest(r) \/ TokenRejected(r)
                                   \/ UpstreamAnswers(r) \/ UpstreamFails(r)
                                   \/ FailureAudited(r) \/ AuditRejects(r)
        PROVE  UNCHANGED executed
    BY <1>4 DEF RejectRequest, AcceptRequest, TokenRejected, UpstreamAnswers, UpstreamFails,
       FailureAudited, AuditRejects
  <1>5. CASE (\E e \in AuditEvents : WriteProceeds(e)) \/ Crash \/ Signal \/ Exit \/ Restart
             \/ UNCHANGED vars
    BY <1>5 DEF WriteProceeds, Crash, Signal, Exit, Restart, callVars, vars, moving
  <1> QED
    BY <1>1, <1>2, <1>3, <1>4, <1>5 DEF Next, HandlerStep

LEMMA ContractStep ==
    ASSUME Untorn, Recognised, CallInv, CallInv', Audit!TypeInv, Audit!HeldInv, Audit!NoScar,
           [Next]_vars
    PROVE  [Contract!Next]_(Contract!contractVars)
  <1>0. /\ Recorded' \in [Requests -> Contract!Verdicts \cup {"none"}]
        /\ \A q \in Requests : Recorded[q] # "none" => Recorded'[q] = Recorded[q]
    BY RecordedKept DEF Recorded, CallInv, TypeOK, Contract!Verdicts
  <1>1. CASE UNCHANGED executed
    <2>1. Contract!Record
      BY <1>0, <1>1 DEF Contract!Record, Recorded
    <2> QED
      BY <2>1 DEF Contract!Next
  <1>2. ASSUME NEW r \in Requests, DecisionAudited(r), LetsThrough(decision[r]),
               executed' = executed \cup {r}
        PROVE  Contract!Execute(r)
    <2>1. state[DecisionEvent(r)] = "synced"
      BY <1>2 DEF DecisionAudited, Sink!CloseHandle
    <2>2. decision[r] = "allow"
      BY <1>2, <2>1, LetsThroughAllowed
    <2>3. DecisionOnDisk(r)
      <3>1. PICK i \in 1..synced :
               \/ file[i] = Audit!WrittenLine(DecisionEvent(r), prevOf[DecisionEvent(r)])
               \/ ~file[i].whole
        BY <2>1, EventsDistinct DEF Audit!HeldInv, Audit!HeldWithin
      <3>2. i \in 1..Len(file)
        BY DEF Audit!TypeInv, Audit!TypeOK
      <3>3. Audit!OnDisk(DecisionEvent(r))
        BY <3>1, <3>2 DEF Audit!NoScar, Audit!OnDisk
      <3> QED
        BY <3>3, SameSink, EventsDistinct DEF DecisionOnDisk
    <2>4. Recorded[r] = "allow"
      BY <2>2, <2>3 DEF Recorded
    <2>5. UNCHANGED Recorded
      BY <1>2 DEF DecisionAudited, Sink!CloseHandle, Recorded, DecisionOnDisk, DecisionEvent,
         Sink!OnDisk, Sink!WrittenLine, Sink!HashOf
    <2> QED
      BY <1>2, <2>4, <2>5 DEF Contract!Execute, Recorded
  <1> QED
    BY <1>1, <1>2, ExecutedStep DEF Contract!Next

(* The gateway implements the contract, at every entry point: verdicts are *)
(* on the disk before they are acted on, they are never revised, and only  *)
(* an "allow" is acted on.                                                 *)
THEOREM ContractImplemented ==
    ASSUME Untorn, Recognised
    PROVE  Spec => ContractHonoured
  <1>1. Init => Contract!Init
    BY DEF Init, Contract!Init
  <1>2. CallInv /\ CallInv' /\ Audit!TypeInv /\ Audit!HeldInv /\ Audit!NoScar /\ [Next]_vars
            => [Contract!Next]_(Contract!contractVars)
    BY ContractStep
  <1> QED
    BY <1>1, <1>2, CallInvariant, SinkUntorn, PTL DEF Spec, ContractHonoured, Contract!Spec
-----------------------------------------------------------------------------
(* The gateway implements DecisionContract. *)

Place == [r \in Requests |->
            IF pc[r] \in {"idle", "validating", "approving"} THEN pc[r] ELSE "over"]

Silence == IF StepUp = "allow" THEN "allow" ELSE "deny"

(* The contract is about the calls alone, so that steps of the audit and   *)
(* of the upstream are no steps of it.                                     *)
LEMMA PlaceMoves ==
    ASSUME TypeOK, NEW r \in Requests, NEW p, Goto(r, p)
    PROVE  Place' = [Place EXCEPT ![r] =
                        IF p \in {"idle", "validating", "approving"} THEN p ELSE "over"]
  BY DEF Place, Goto, TypeOK

LEMMA DecideIsVerdict ==
    ASSUME TypeOK, NEW r \in Requests, NEW d, Decide(r, d)
    PROVE  Verdicts!Verdict(r, d)
  <1>1. Place' = [Place EXCEPT ![r] = "over"]
    BY PlaceMoves DEF Decide
  <1> QED
    BY <1>1 DEF Decide, Verdicts!Verdict, Place

(* A call that ends without a verdict. *)
LEMMA AnsweredIsOver ==
    ASSUME TypeOK, NEW r \in Requests, NEW what, Answer(r, what),
           UNCHANGED << policy, approval, decision >>
    PROVE  Verdicts!Abandon
  <1>1. Place' = [Place EXCEPT ![r] = "over"]
    BY PlaceMoves DEF Answer
  <1>2. Place' = [q \in Requests |-> IF q \in {r} THEN "over" ELSE Place[q]]
    BY <1>1 DEF Place
  <1> QED
    BY <1>2 DEF Verdicts!Abandon, Place

LEMMA VerdictStep ==
    ASSUME TypeOK, [Next]_vars
    PROVE  Verdicts!Next \/ UNCHANGED << Silence, Place, policy, approval, decision >>
  <1>0. deployment \in Deployment /\ UNCHANGED Silence
    BY ToolCallGatewayAssumption DEF TypeOK, Next, vars, Silence, StepUp
  <1>1. ASSUME NEW r \in Requests, RejectRequest(r) \/ TokenRejected(r)
        PROVE  Verdicts!Abandon
    BY <1>1, AnsweredIsOver DEF RejectRequest, TokenRejected
  <1>2. ASSUME NEW r \in Requests, AcceptRequest(r)
        PROVE  Verdicts!Accept(r)
    <2>1. Place' = [Place EXCEPT ![r] = "validating"]
      BY <1>2, PlaceMoves DEF AcceptRequest
    <2>2. Place[r] = "idle"
      BY <1>2 DEF AcceptRequest, Arrives, Place
    <2> QED
      BY <1>2, <2>1, <2>2 DEF AcceptRequest, Verdicts!Accept, Place
  <1>3. ASSUME NEW r \in Requests, NEW result \in PolicyResults, EvaluatePolicy(r, result)
        PROVE  Verdicts!Evaluate(r, result)
    <2>1. Place[r] = "validating"
      BY <1>3 DEF EvaluatePolicy, Place
    <2>2. CASE result = "throws" /\ Uncaught(r) /\ UNCHANGED decision
      <3>1. Place' = [Place EXCEPT ![r] = "over"]
        BY <2>2, PlaceMoves DEF Uncaught, Answer
      <3> QED
        BY <1>3, <2>1, <2>2, <3>1 DEF EvaluatePolicy, Verdicts!Evaluate, Place
    <2>3. CASE result = "step_up" /\ Goto(r, "approving") /\ UNCHANGED decision
      <3>1. Place' = [Place EXCEPT ![r] = "approving"]
        BY <2>3, PlaceMoves
      <3> QED
        BY <1>3, <2>1, <2>3, <3>1 DEF EvaluatePolicy, Verdicts!Evaluate, Place
    <2>4. CASE result = "step_up" /\ Decide(r, "deny")
      <3>1. Verdicts!Verdict(r, "deny")
        BY <2>4, DecideIsVerdict
      <3> QED
        BY <1>3, <2>1, <2>4, <3>1 DEF EvaluatePolicy, Verdicts!Evaluate, Place
    <2>5. CASE result \in {"allow", "deny", "unrecognised"} /\ Decide(r, result)
      <3>1. Verdicts!Verdict(r, result)
        BY <2>5, DecideIsVerdict
      <3> QED
        BY <1>3, <2>1, <2>5, <3>1 DEF EvaluatePolicy, Verdicts!Evaluate, Place
    <2> QED
      BY <1>3, <2>2, <2>3, <2>4, <2>5 DEF EvaluatePolicy
  <1>4. ASSUME NEW r \in Requests, NEW answer \in {"approve", "refuse", "noAnswer"},
               StepUpSettles(r, answer)
        PROVE  Verdicts!Hear(r, answer)
    <2>1. Place[r] = "approving"
      BY <1>4 DEF StepUpSettles, Place
    <2>2. PICK d \in {"allow", "deny"} :
             /\ Decide(r, d)
             /\ d = CASE answer = "approve"  -> "allow"
                      [] answer = "refuse"   -> "deny"
                      [] answer = "noAnswer" -> Silence
      BY <1>4 DEF StepUpSettles, Silence
    <2>3. Verdicts!Verdict(r, d)
      BY <2>2, DecideIsVerdict
    <2>4. approval' = [approval EXCEPT ![r] = answer] /\ UNCHANGED policy
      BY <1>4 DEF StepUpSettles
    <2>5. CASE answer = "approve"
      BY <2>1, <2>2, <2>3, <2>4, <2>5 DEF Verdicts!Hear, Verdicts!Verdict, Place
    <2>6. CASE answer = "refuse"
      BY <2>1, <2>2, <2>3, <2>4, <2>6 DEF Verdicts!Hear, Verdicts!Verdict, Place
    <2>7. CASE answer = "noAnswer"
      <3>1. d = IF StepUp = "allow" THEN "allow" ELSE "deny"
        BY <2>2, <2>7 DEF Silence
      <3> QED
        BY <2>1, <2>3, <2>4, <2>7, <3>1 DEF Verdicts!Hear, Verdicts!Verdict, Place
    <2> QED
      BY <2>5, <2>6, <2>7
  <1>5. ASSUME NEW r \in Requests, UpstreamAnswers(r) \/ FailureAudited(r) \/ AuditRejects(r)
        PROVE  Verdicts!Abandon
    BY <1>5, AnsweredIsOver DEF UpstreamAnswers, FailureAudited, AuditRejects, Uncaught
  <1>6. ASSUME NEW r \in Requests, DecisionAudited(r) \/ UpstreamFails(r)
        PROVE  UNCHANGED << Place, policy, approval, decision >>
    BY <1>6 DEF DecisionAudited, UpstreamFails, Answer, Goto, Place, TypeOK
  <1>7. CASE Crash \/ Exit
    <2>1. Place' = [r \in Requests |-> IF r \in Unfinished THEN "over" ELSE Place[r]]
      BY <1>7 DEF Crash, Exit, LeaveUnfinished, Unfinished, Place
    <2>2. Unfinished \in SUBSET Requests /\ UNCHANGED << policy, approval, decision >>
      BY <1>7 DEF Crash, Exit, Unfinished
    <2>3. Verdicts!Abandon
      BY <2>1, <2>2 DEF Verdicts!Abandon, Place
    <2> QED
      BY <1>0, <2>3 DEF Verdicts!Next, Silence
  <1>8. CASE (\E e \in AuditEvents : WriteProceeds(e)) \/ Signal \/ Restart \/ UNCHANGED vars
    <2>1. UNCHANGED << pc, policy, approval, decision >>
      BY <1>8 DEF WriteProceeds, Signal, Restart, callVars, vars, moving
    <2> QED
      BY <1>0, <2>1 DEF Place
  <1>9. PolicyResults \subseteq {"allow", "deny", "step_up", "unrecognised", "throws"}
    BY <1>0 DEF Deployment, PolicyResults, Results
  <1>10. ASSUME NEW r \in Requests, RejectRequest(r) \/ AcceptRequest(r) \/ HandlerStep(r)
         PROVE  Verdicts!Next \/ UNCHANGED << Silence, Place, policy, approval, decision >>
    BY <1>0, <1>1, <1>2, <1>3, <1>4, <1>5, <1>6, <1>9, <1>10
    DEF HandlerStep, Verdicts!Next, Silence
  <1> QED
    BY <1>7, <1>8, <1>10 DEF Next

(* Of every call, however they interleave, the verdict comes about as      *)
(* DecisionContract says.                                                  *)
THEOREM DecisionsImplemented == Spec => DecisionsHonoured
  <1>1. Init => Verdicts!Init
    BY DEF Init, Verdicts!Init
  <1>2. TypeOK /\ [Next]_vars => [Verdicts!Next]_<< Silence, Verdicts!decisionVars >>
    BY VerdictStep DEF Verdicts!decisionVars, Place
  <1> QED
    BY <1>1, <1>2, TypeCorrect, PTL
    DEF Spec, DecisionsHonoured, Verdicts!Spec, Silence
=============================================================================
