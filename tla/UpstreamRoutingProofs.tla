------------------------ MODULE UpstreamRoutingProofs ------------------------
(* Theorems about the calls that go through the UpstreamManagers: what     *)
(* waits is pending, what is answered got its own answer, and send() keeps *)
(* its contract.  The routing theorems assume that the upstream's own      *)
(* requests use no id a manager gives out, as UpstreamManagerServerRequest *)
(* shows they must.                                                        *)
EXTENDS UpstreamManagerProofs

ForeignIds == \A id \in ServerRequestIds : id = 0

(* WaitingIsPending in the form the proofs use. *)
Calling ==
    /\ \A c \in Calls : status[c] = "waiting" =>
          \E m \in Managers : \E e \in pending[m] : e.call = c
    /\ \A m \in Managers : \A e \in pending[m] :
          e.call \in Calls => status[e.call] = "waiting"
    /\ \A m, n \in Managers : \A d \in pending[m], e \in pending[n] :
          d.call \in Calls /\ d.call = e.call => m = n /\ d = e

(* Entries es leave the map of m, and their calls stop waiting. *)
Leaves(m, es) ==
    /\ es \subseteq pending[m]
    /\ pending' = [pending EXCEPT ![m] = @ \ es]
    /\ status' \in [Calls -> {"idle", "waiting", "answered", "failed"}]
    /\ \A c \in Calls :
          IF \E e \in es : e.call = c THEN status'[c] # "waiting"
                                      ELSE status'[c] = status[c]

LEMMA CallingInit == Init => Calling
  BY DEF Init, Calling

LEMMA CallingLeaves ==
    ASSUME TypeOK, Calling, NEW m \in Managers, NEW es, Leaves(m, es)
    PROVE  Calling'
  <1>1. /\ pending'[m] = pending[m] \ es
        /\ \A n \in Managers : n # m => pending'[n] = pending[n]
        /\ \A n \in Managers : pending'[n] \subseteq pending[n]
    BY DEF Leaves, TypeOK
  <1>2. ASSUME NEW c \in Calls, status'[c] = "waiting"
        PROVE  \E n \in Managers : \E e \in pending'[n] : e.call = c
    <2>1. status[c] = "waiting" /\ ~ \E e \in es : e.call = c
      BY <1>2 DEF Leaves
    <2>2. PICK n \in Managers : \E e \in pending[n] : e.call = c
      BY <2>1 DEF Calling
    <2>3. PICK e \in pending[n] : e.call = c
      BY <2>2
    <2>4. e \in pending'[n]
      BY <1>1, <2>1, <2>3
    <2> QED
      BY <2>3, <2>4
  <1>3. ASSUME NEW n \in Managers, NEW e \in pending'[n], e.call \in Calls
        PROVE  status'[e.call] = "waiting"
    <2>1. e \in pending[n] /\ status[e.call] = "waiting"
      BY <1>1, <1>3 DEF Calling
    <2>2. ~ \E d \in es : d.call = e.call
      <3> SUFFICES ASSUME NEW d \in es, d.call = e.call
                   PROVE  FALSE
        OBVIOUS
      <3>1. m = n /\ d = e
        BY <1>3, <2>1 DEF Calling, Leaves
      <3> QED
        BY <1>1, <3>1
    <2> QED
      BY <1>3, <2>1, <2>2 DEF Leaves
  <1>4. \A k, n \in Managers : \A d \in pending'[k], e \in pending'[n] :
           d.call \in Calls /\ d.call = e.call => k = n /\ d = e
    BY <1>1 DEF Calling
  <1> QED
    BY <1>2, <1>3, <1>4 DEF Calling

LEMMA CallingRegister ==
    ASSUME TypeOK, Calling, NEW m \in Managers, NEW call \in Requests,
           Register(m, call),
           \/ call = Handshake /\ UNCHANGED status
           \/ /\ call \in Calls /\ status[call] = "idle"
              /\ status' = [status EXCEPT ![call] = "waiting"]
    PROVE  Calling'
  <1> DEFINE entry == [id |-> counter[m] + 1, call |-> call]
  <1>1. /\ pending'[m] = pending[m] \cup {entry}
        /\ \A n \in Managers : n # m => pending'[n] = pending[n]
        /\ entry.call = call
    BY DEF Register, TypeOK
  <1> HIDE DEF entry
  <1>2. \A n \in Managers : \A e : e \in pending'[n] => e \in pending[n] \/ (n = m /\ e = entry)
    BY <1>1
  <1>3. Handshake \notin Calls
    BY UpstreamManagerAssumption
  <1>4. CASE call = Handshake /\ UNCHANGED status
    <2>1. \A c \in Calls : status'[c] = "waiting" =>
             \E n \in Managers : \E e \in pending'[n] : e.call = c
      BY <1>1, <1>4 DEF Calling
    <2>2. \A n \in Managers : \A e \in pending'[n] : e.call \in Calls => e \in pending[n]
      BY <1>1, <1>2, <1>3, <1>4
    <2> QED
      BY <1>4, <2>1, <2>2 DEF Calling
  <1>5. CASE /\ call \in Calls /\ status[call] = "idle"
             /\ status' = [status EXCEPT ![call] = "waiting"]
    <2>1. \A n \in Managers : \A e \in pending[n] : e.call # call
      BY <1>5 DEF Calling
    <2>2. status'[call] = "waiting" /\ \A c \in Calls : c # call => status'[c] = status[c]
      BY <1>5 DEF TypeOK
    <2>3. ASSUME NEW c \in Calls, status'[c] = "waiting"
          PROVE  \E n \in Managers : \E e \in pending'[n] : e.call = c
      <3>1. CASE c = call
        BY <1>1, <3>1
      <3>2. CASE c # call
        BY <1>1, <2>2, <2>3, <3>2 DEF Calling
      <3> QED
        BY <3>1, <3>2
    <2>4. \A n \in Managers : \A e \in pending'[n] :
             e.call \in Calls => status'[e.call] = "waiting"
      BY <1>1, <1>2, <2>2 DEF Calling
    <2>5. ASSUME NEW k \in Managers, NEW n \in Managers, NEW d \in pending'[k],
                 NEW e \in pending'[n], d.call \in Calls, d.call = e.call
          PROVE  k = n /\ d = e
      BY <1>1, <1>2, <2>1, <2>5 DEF Calling
    <2> QED
      BY <2>3, <2>4, <2>5 DEF Calling
  <1> QED
    BY <1>4, <1>5

LEMMA RejectLeaves ==
    ASSUME TypeOK, NEW m \in Managers, NEW es, es \subseteq pending[m], Reject(m, es)
    PROVE  Leaves(m, es)
  BY DEF TypeOK, Reject, Remove, Leaves

LEMMA DeliverLeaves ==
    ASSUME TypeOK, Calling, NEW m \in Managers, NEW id, NEW about, DeliverLine(m, id, about)
    PROVE  \/ \E e \in pending[m] : e.id = id /\ Leaves(m, {e})
           \/ UNCHANGED << pending, status >>
  <1>1. ASSUME NEW e \in pending[m], Resolve(m, e, about)
        PROVE  Leaves(m, {e})
    <2>1. {e} \subseteq pending[m] /\ pending' = [pending EXCEPT ![m] = @ \ {e}]
      BY <1>1 DEF Resolve, Remove
    <2>2. CASE e.call = Handshake
      <3>1. UNCHANGED status /\ \A c \in Calls : e.call # c
        BY <1>1, <2>2, UpstreamManagerAssumption DEF Resolve
      <3> QED
        BY <2>1, <3>1 DEF Leaves, TypeOK
    <2>3. CASE e.call # Handshake
      <3>1. status' = [status EXCEPT ![e.call] = "answered"]
        BY <1>1, <2>3 DEF Resolve
      <3> QED
        BY <2>1, <3>1 DEF Leaves, TypeOK
    <2> QED
      BY <2>2, <2>3
  <1> QED
    BY <1>1 DEF DeliverLine

LEMMA CallingNext == TypeOK /\ Calling /\ [Next]_managerVars => Calling'
  <1> SUFFICES ASSUME TypeOK, Calling, [Next]_managerVars
               PROVE  Calling'
    OBVIOUS
  <1>1. ASSUME UNCHANGED << pending, status >>
        PROVE  Calling'
    BY <1>1 DEF Calling
  <1>2. ASSUME NEW m \in Managers, NEW id, NEW about, DeliverLine(m, id, about)
        PROVE  Calling'
    BY <1>1, <1>2, DeliverLeaves, CallingLeaves
  <1>3. ASSUME NEW m \in Managers, Start(m)
        PROVE  Calling'
    BY <1>3, CallingRegister DEF Start, Requests
  <1>4. ASSUME NEW m \in Managers, NEW c \in Calls, Send(m, c)
        PROVE  Calling'
    <2>1. CASE Register(m, c) /\ status' = [status EXCEPT ![c] = "waiting"]
      BY <1>4, <2>1, CallingRegister DEF Send, Requests
    <2>2. CASE UNCHANGED pending /\ status' = [status EXCEPT ![c] = "failed"]
      <3>1. \A n \in Managers : \A e \in pending[n] : e.call # c
        BY <1>4 DEF Calling, Send
      <3>2. \A d \in Calls : d # c => status'[d] = status[d]
        BY <2>2 DEF TypeOK
      <3>3. status'[c] = "failed"
        BY <2>2 DEF TypeOK
      <3> QED
        BY <2>2, <3>1, <3>2, <3>3 DEF Calling
    <2> QED
      BY <1>4, <2>1, <2>2 DEF Send
  <1>5. ASSUME NEW m \in Managers, NEW req \in atServer[m], ServerAnswers(m, req)
        PROVE  Calling'
    BY <1>2, <1>5 DEF ServerAnswers
  <1>6. ASSUME NEW m \in Managers, NEW id \in ServerRequestIds, ServerRequests(m, id)
        PROVE  Calling'
    BY <1>2, <1>6 DEF ServerRequests
  <1>7. ASSUME NEW m \in Managers, NEW id \in timers[m], Timeout(m, id)
        PROVE  Calling'
    BY <1>7, RejectLeaves, CallingLeaves DEF Timeout
  <1>8. ASSUME NEW m \in Managers, ProcessDies(m)
        PROVE  Calling'
    BY <1>1, <1>8 DEF ProcessDies
  <1>9. ASSUME NEW m \in Managers, ExitEvent(m)
        PROVE  Calling'
    BY <1>9, RejectLeaves, CallingLeaves DEF ExitEvent
  <1>10. CASE UNCHANGED managerVars
    BY <1>1, <1>10 DEF managerVars
  <1> QED
    BY <1>3, <1>4, <1>5, <1>6, <1>7, <1>8, <1>9, <1>10 DEF Next

LEMMA CallingIsWaitingIsPending == Calling => WaitingIsPending
  BY DEF Calling, WaitingIsPending

(* A call waits exactly as long as one map holds it, for every upstream.   *)
THEOREM WaitingPending == Spec => []WaitingIsPending
  BY TypeOKInit, TypeOKNext, CallingInit, CallingNext, CallingIsWaitingIsPending, PTL DEF Spec

-----------------------------------------------------------------------------
(* What comes with the exit event. *)

LEMMA DrainedNext == TypeOK /\ DrainedOnExit /\ [Next]_managerVars => DrainedOnExit'
  <1> SUFFICES ASSUME TypeOK, DrainedOnExit, [Next]_managerVars,
                      NEW n \in Managers, proc'[n] = "reaped"
               PROVE  pending'[n] = {}
    BY DEF DrainedOnExit
  <1> USE DEF TypeOK
  <1>1. ASSUME proc'[n] = proc[n], pending'[n] \subseteq pending[n]
        PROVE  pending'[n] = {}
    BY <1>1 DEF DrainedOnExit
  <1>2. ASSUME NEW m \in Managers, NEW id, NEW about, DeliverLine(m, id, about)
        PROVE  pending'[n] \subseteq pending[n]
    BY <1>2 DEF DeliverLine, Resolve, Remove
  <1>3. ASSUME NEW m \in Managers, NEW es, Reject(m, es)
        PROVE  /\ pending'[n] \subseteq pending[n]
               /\ n = m => pending'[n] = pending[n] \ es
    BY <1>3 DEF Reject, Remove
  <1>4. ASSUME NEW m \in Managers, Start(m)
        PROVE  pending'[n] = {}
    BY <1>1, <1>4 DEF Start, Register
  <1>5. ASSUME NEW m \in Managers, NEW c \in Calls, Send(m, c)
        PROVE  pending'[n] = {}
    BY <1>1, <1>5 DEF Send, Register
  <1>6. ASSUME NEW m \in Managers, NEW req \in atServer[m], ServerAnswers(m, req)
        PROVE  pending'[n] = {}
    BY <1>1, <1>2, <1>6 DEF ServerAnswers
  <1>7. ASSUME NEW m \in Managers, NEW id \in ServerRequestIds, ServerRequests(m, id)
        PROVE  pending'[n] = {}
    BY <1>1, <1>2, <1>7 DEF ServerRequests
  <1>8. ASSUME NEW m \in Managers, NEW id \in timers[m], Timeout(m, id)
        PROVE  pending'[n] = {}
    BY <1>1, <1>3, <1>8 DEF Timeout
  <1>9. ASSUME NEW m \in Managers, ProcessDies(m)
        PROVE  pending'[n] = {}
    BY <1>1, <1>9 DEF ProcessDies
  <1>10. ASSUME NEW m \in Managers, ExitEvent(m)
         PROVE  pending'[n] = {}
    <2>1. CASE n = m
      BY <1>3, <1>10, <2>1 DEF ExitEvent
    <2>2. CASE n # m
      BY <1>1, <1>3, <1>10, <2>2 DEF ExitEvent
    <2> QED
      BY <2>1, <2>2
  <1>11. CASE UNCHANGED managerVars
    BY <1>1, <1>11 DEF managerVars
  <1> QED
    BY <1>4, <1>5, <1>6, <1>7, <1>8, <1>9, <1>10, <1>11 DEF Next

(* A manager that saw its process exit has nothing pending, ever again.    *)
THEOREM Drained == Spec => []DrainedOnExit
  <1>1. Init => DrainedOnExit
    BY DEF Init, DrainedOnExit
  <1> QED
    BY TypeOKInit, TypeOKNext, <1>1, DrainedNext, PTL DEF Spec

-----------------------------------------------------------------------------
(* The handshake of start(): it waits exactly as long as its entry, of     *)
(* which there is one, is pending.                                         *)
HandshakeInv ==
    \A m \in Managers :
        /\ handshake[m] = "none" <=> proc[m] = "none"
        /\ proc[m] = "none" => pending[m] = {}
        /\ handshake[m] = "waiting" <=> \E e \in pending[m] : e.call = Handshake
        /\ \A d, e \in pending[m] : d.call = Handshake /\ e.call = Handshake => d = e

LEMMA HandshakeReject ==
    ASSUME TypeOK, HandshakeInv, NEW m \in Managers, NEW es, es \subseteq pending[m],
           Reject(m, es),
           \A n \in Managers : proc'[n] = "none" <=> proc[n] = "none"
    PROVE  HandshakeInv'
  <1>1. \A n \in Managers : n # m =>
           pending'[n] = pending[n] /\ handshake'[n] = handshake[n]
    BY DEF TypeOK, Reject, Remove
  <1>2. pending'[m] = pending[m] \ es
    BY DEF TypeOK, Reject, Remove
  <1>3. CASE \E e \in es : e.call = Handshake
    <2>1. handshake'[m] = "failed"
      BY <1>3 DEF TypeOK, Reject
    <2>2. ~ \E e \in pending'[m] : e.call = Handshake
      BY <1>2, <1>3 DEF HandshakeInv
    <2> QED
      BY <1>1, <1>2, <1>3, <2>1, <2>2 DEF HandshakeInv
  <1>4. CASE \A e \in es : e.call # Handshake
    <2>1. handshake'[m] = handshake[m]
      BY <1>4 DEF Reject
    <2> QED
      BY <1>1, <1>2, <1>4, <2>1 DEF HandshakeInv
  <1> QED
    BY <1>3, <1>4

LEMMA HandshakeDeliver ==
    ASSUME TypeOK, HandshakeInv, NEW m \in Managers, NEW id, NEW about,
           DeliverLine(m, id, about), UNCHANGED proc
    PROVE  HandshakeInv'
  <1>1. ASSUME NEW e \in pending[m], Resolve(m, e, about)
        PROVE  HandshakeInv'
    <2>1. /\ pending'[m] = pending[m] \ {e}
          /\ \A n \in Managers : n # m => pending'[n] = pending[n]
      BY <1>1 DEF TypeOK, Resolve, Remove
    <2>2. CASE e.call = Handshake
      <3>1. /\ handshake'[m] = "ready"
            /\ \A n \in Managers : n # m => handshake'[n] = handshake[n]
        BY <1>1, <2>2 DEF TypeOK, Resolve
      <3> QED
        BY <2>1, <2>2, <3>1 DEF HandshakeInv
    <2>3. CASE e.call # Handshake
      <3>1. UNCHANGED handshake
        BY <1>1, <2>3 DEF Resolve
      <3> QED
        BY <2>1, <2>3, <3>1 DEF HandshakeInv
    <2> QED
      BY <2>2, <2>3
  <1>2. CASE UNCHANGED << pending, handshake >>
    BY <1>2 DEF HandshakeInv
  <1> QED
    BY <1>1, <1>2 DEF DeliverLine

LEMMA HandshakeNext == TypeOK /\ HandshakeInv /\ [Next]_managerVars => HandshakeInv'
  <1> SUFFICES ASSUME TypeOK, HandshakeInv, [Next]_managerVars
               PROVE  HandshakeInv'
    OBVIOUS
  <1>1. ASSUME NEW m \in Managers, Start(m)
        PROVE  HandshakeInv'
    <2>1. PICK entry : entry.call = Handshake /\ pending' = [pending EXCEPT ![m] = @ \cup {entry}]
      BY <1>1 DEF Start, Register
    <2>2. /\ pending[m] = {} /\ pending'[m] = {entry}
          /\ proc'[m] = "running" /\ handshake'[m] = "waiting"
          /\ \A n \in Managers : n # m =>
                /\ pending'[n] = pending[n] /\ proc'[n] = proc[n]
                /\ handshake'[n] = handshake[n]
      BY <1>1, <2>1 DEF TypeOK, HandshakeInv, Start
    <2> QED
      BY <2>1, <2>2 DEF HandshakeInv
  <1>2. ASSUME NEW m \in Managers, NEW c \in Calls, Send(m, c)
        PROVE  HandshakeInv'
    <2>1. CASE UNCHANGED pending
      BY <1>2, <2>1 DEF Send, HandshakeInv
    <2>2. CASE proc[m] # "none" /\ Register(m, c)
      <3>1. PICK entry : entry.call = c /\ pending' = [pending EXCEPT ![m] = @ \cup {entry}]
        BY <2>2 DEF Register
      <3>2. /\ pending'[m] = pending[m] \cup {entry} /\ entry.call # Handshake
            /\ \A n \in Managers : n # m => pending'[n] = pending[n]
        BY <3>1, UpstreamManagerAssumption DEF TypeOK
      <3>3. UNCHANGED << proc, handshake >>
        BY <1>2 DEF Send
      <3> QED
        BY <2>2, <3>2, <3>3 DEF HandshakeInv
    <2> QED
      BY <1>2, <2>1, <2>2 DEF Send
  <1>3. ASSUME NEW m \in Managers, NEW req \in atServer[m], ServerAnswers(m, req)
        PROVE  HandshakeInv'
    BY <1>3, HandshakeDeliver DEF ServerAnswers
  <1>4. ASSUME NEW m \in Managers, NEW id \in ServerRequestIds, ServerRequests(m, id)
        PROVE  HandshakeInv'
    BY <1>4, HandshakeDeliver DEF ServerRequests
  <1>5. ASSUME NEW m \in Managers, NEW id \in timers[m], Timeout(m, id)
        PROVE  HandshakeInv'
    BY <1>5, HandshakeReject DEF Timeout
  <1>6. ASSUME NEW m \in Managers, ProcessDies(m)
        PROVE  HandshakeInv'
    BY <1>6 DEF TypeOK, ProcessDies, HandshakeInv
  <1>7. ASSUME NEW m \in Managers, ExitEvent(m)
        PROVE  HandshakeInv'
    <2>1. \A n \in Managers : proc'[n] = "none" <=> proc[n] = "none"
      BY <1>7 DEF TypeOK, ExitEvent
    <2> QED
      BY <1>7, <2>1, HandshakeReject DEF ExitEvent
  <1>8. CASE UNCHANGED managerVars
    BY <1>8 DEF managerVars, HandshakeInv
  <1> QED
    BY <1>1, <1>2, <1>3, <1>4, <1>5, <1>6, <1>7, <1>8 DEF Next

LEMMA HandshakeTracked == Spec => []HandshakeInv
  <1>1. Init => HandshakeInv
    BY DEF Init, HandshakeInv
  <1> QED
    BY TypeOKInit, TypeOKNext, <1>1, HandshakeNext, PTL DEF Spec

-----------------------------------------------------------------------------
(* The contract of send(): each step of a manager is one step of it, or    *)
(* one it does not see.                                                    *)

LEMMA RejectFails ==
    ASSUME TypeOK, Calling, NEW m \in Managers, NEW es, es \subseteq pending[m],
           Reject(m, es)
    PROVE  Contract!Next
  <1> DEFINE cs == {c \in Calls : \E e \in es : e.call = c}
  <1>1. cs \in SUBSET Calls /\ \A c \in cs : status[c] = "waiting"
    BY DEF Calling
  <1>2. status' = [c \in Calls |-> IF c \in cs THEN "failed" ELSE status[c]]
    BY DEF Reject
  <1>3. UNCHANGED answer
    BY DEF Reject
  <1>4. Contract!Fail(cs)
    BY <1>1, <1>2, <1>3 DEF Contract!Fail
  <1> QED
    BY <1>1, <1>4 DEF Contract!Next

LEMMA DeliverResponds ==
    ASSUME TypeOK, Calling, NEW m \in Managers, NEW id, NEW about,
           DeliverLine(m, id, about),
           \A e \in pending[m] : e.id = id => e.call = about
    PROVE  [Contract!Next]_Contract!contractVars
  <1>1. ASSUME NEW e \in pending[m], e.id = id, Resolve(m, e, about)
        PROVE  [Contract!Next]_Contract!contractVars
    <2>1. CASE e.call = Handshake
      BY <1>1, <2>1 DEF Resolve, Contract!contractVars
    <2>2. CASE e.call # Handshake
      <3>1. e.call \in Calls /\ e.call = about
        BY <1>1, <2>2 DEF TypeOK, Entries, Requests
      <3>2. Contract!Respond(e.call)
        BY <1>1, <2>2, <3>1 DEF Resolve, Calling, Contract!Respond
      <3> QED
        BY <3>1, <3>2 DEF Contract!Next
    <2> QED
      BY <2>1, <2>2
  <1> QED
    BY <1>1 DEF DeliverLine, Contract!contractVars

LEMMA ContractNext ==
    ASSUME ForeignIds, TypeOK, IdInv, Calling, [Next]_managerVars
    PROVE  [Contract!Next]_Contract!contractVars
  <1>1. ASSUME UNCHANGED << status, answer >>
        PROVE  [Contract!Next]_Contract!contractVars
    BY <1>1 DEF Contract!contractVars
  <1>2. ASSUME NEW m \in Managers, Start(m)
        PROVE  [Contract!Next]_Contract!contractVars
    BY <1>1, <1>2 DEF Start
  <1>3. ASSUME NEW m \in Managers, NEW c \in Calls, Send(m, c)
        PROVE  [Contract!Next]_Contract!contractVars
    <2>1. Contract!Request(c) \/ Contract!Refuse(c)
      BY <1>3 DEF Send, Contract!Request, Contract!Refuse
    <2> QED
      BY <2>1 DEF Contract!Next
  <1>4. ASSUME NEW m \in Managers, NEW req \in atServer[m], ServerAnswers(m, req)
        PROVE  [Contract!Next]_Contract!contractVars
    <2>1. \A e \in pending[m] : e.id = req.id => e.call = req.call
      BY DEF IdInv, Held, TypeOK
    <2> QED
      BY <1>4, <2>1, DeliverResponds DEF ServerAnswers
  <1>5. ASSUME NEW m \in Managers, NEW id \in ServerRequestIds, ServerRequests(m, id)
        PROVE  [Contract!Next]_Contract!contractVars
    <2>1. \A e \in pending[m] : e.id # id
      BY DEF ForeignIds, IdInv, Held, TypeOK
    <2> QED
      BY <1>1, <1>5, <2>1 DEF ServerRequests, DeliverLine
  <1>6. ASSUME NEW m \in Managers, NEW id \in timers[m], Timeout(m, id)
        PROVE  [Contract!Next]_Contract!contractVars
    BY <1>6, RejectFails DEF Timeout
  <1>7. ASSUME NEW m \in Managers, ProcessDies(m)
        PROVE  [Contract!Next]_Contract!contractVars
    BY <1>1, <1>7 DEF ProcessDies
  <1>8. ASSUME NEW m \in Managers, ExitEvent(m)
        PROVE  [Contract!Next]_Contract!contractVars
    BY <1>8, RejectFails DEF ExitEvent
  <1>9. CASE UNCHANGED managerVars
    BY <1>1, <1>9 DEF managerVars
  <1> QED
    BY <1>2, <1>3, <1>4, <1>5, <1>6, <1>7, <1>8, <1>9 DEF Next

LEMMA ContractInit == Init => Contract!Init
  BY DEF Init, Contract!Init

(* As long as the upstream's own requests stay clear of the manager's ids, *)
(* every caller of send() gets one outcome, final, and if it is an answer, *)
(* the answer to its own call: the managers implement SendContract.        *)
THEOREM Honoured ==
    ASSUME ForeignIds
    PROVE  Spec => ContractHonoured
  <1>1. TypeOK /\ IdInv /\ Calling /\ [Next]_managerVars
           => [Contract!Next]_Contract!contractVars
    BY ContractNext
  <1> QED
    BY <1>1, TypeOKInit, TypeOKNext, IdInvInit, IdInvNext, CallingInit, CallingNext,
       ContractInit, PTL DEF Spec, ContractHonoured, Contract!Spec

LEMMA AnswersMatchNext ==
    ASSUME TypeOK, AnswersMatch, [Contract!Next]_Contract!contractVars
    PROVE  AnswersMatch'
  <1> USE DEF TypeOK, AnswersMatch
  <1>1. ASSUME NEW c \in Calls, Contract!Request(c) \/ Contract!Refuse(c) \/ Contract!Respond(c)
        PROVE  AnswersMatch'
    BY <1>1 DEF Contract!Request, Contract!Refuse, Contract!Respond
  <1>2. ASSUME NEW cs \in SUBSET Calls, Contract!Fail(cs)
        PROVE  AnswersMatch'
    BY <1>2 DEF Contract!Fail
  <1>3. CASE UNCHANGED Contract!contractVars
    BY <1>3 DEF Contract!contractVars
  <1> QED
    BY <1>1, <1>2, <1>3 DEF Contract!Next

(* A call is answered with the response to that call, whatever timed out,  *)
(* died or was replaced meanwhile.                                         *)
THEOREM RoutedRight ==
    ASSUME ForeignIds
    PROVE  Spec => []AnswersMatch
  <1>1. Init => AnswersMatch
    BY DEF Init, AnswersMatch
  <1>2. TypeOK /\ IdInv /\ Calling /\ AnswersMatch /\ [Next]_managerVars => AnswersMatch'
    BY ContractNext, AnswersMatchNext
  <1> QED
    BY <1>1, <1>2, TypeOKInit, TypeOKNext, IdInvInit, IdInvNext, CallingInit, CallingNext,
       PTL DEF Spec
=============================================================================
