------------------------ MODULE UpstreamManagerProofs ------------------------
(* Theorems about UpstreamManager, for every set of managers and calls.    *)
EXTENDS UpstreamManager, TLAPS

LEMMA TypeOKInit == Init => TypeOK
  BY DEF Init, TypeOK, Requests

LEMMA TypeOKNext == TypeOK /\ [Next]_managerVars => TypeOK'
  <1> SUFFICES ASSUME TypeOK, [Next]_managerVars
               PROVE  TypeOK'
    OBVIOUS
  <1> USE DEF TypeOK
  <1>1. ASSUME NEW m \in Managers, NEW call \in Requests, Register(m, call)
        PROVE  /\ counter' \in [Managers -> Nat]
               /\ pending' \in [Managers -> SUBSET Entries]
               /\ timers' \in [Managers -> SUBSET Nat]
               /\ atServer' \in [Managers -> SUBSET Entries]
    <2>1. [id |-> counter[m] + 1, call |-> call] \in Entries
      BY DEF Entries
    <2> QED
      BY <1>1, <2>1 DEF Register
  <1>2. ASSUME NEW m \in Managers, NEW es \in SUBSET pending[m], Remove(m, es)
        PROVE  /\ pending' \in [Managers -> SUBSET Entries]
               /\ timers' \in [Managers -> SUBSET Nat]
    BY <1>2 DEF Remove
  <1>3. ASSUME NEW m \in Managers, NEW es \in SUBSET pending[m], Reject(m, es)
        PROVE  /\ pending' \in [Managers -> SUBSET Entries]
               /\ timers' \in [Managers -> SUBSET Nat]
               /\ handshake' \in [Managers -> {"none", "waiting", "ready", "failed"}]
               /\ status' \in [Calls -> {"idle", "waiting", "answered", "failed"}]
               /\ UNCHANGED << answer, initResult >>
    BY <1>2, <1>3 DEF Reject
  <1>4. ASSUME NEW m \in Managers, NEW id, NEW about \in Requests \cup {"serverRequest"},
               DeliverLine(m, id, about)
        PROVE  /\ pending' \in [Managers -> SUBSET Entries]
               /\ timers' \in [Managers -> SUBSET Nat]
               /\ handshake' \in [Managers -> {"none", "waiting", "ready", "failed"}]
               /\ initResult' \in [Managers -> {"null", "result", "undefined"}]
               /\ status' \in [Calls -> {"idle", "waiting", "answered", "failed"}]
               /\ answer' \in [Calls -> Requests \cup {"none", "serverRequest"}]
    <2>1. ASSUME NEW e \in pending[m], Resolve(m, e, about)
          PROVE  /\ handshake' \in [Managers -> {"none", "waiting", "ready", "failed"}]
                 /\ initResult' \in [Managers -> {"null", "result", "undefined"}]
                 /\ status' \in [Calls -> {"idle", "waiting", "answered", "failed"}]
                 /\ answer' \in [Calls -> Requests \cup {"none", "serverRequest"}]
      BY <2>1 DEF Resolve
    <2>2. ASSUME NEW e \in pending[m], Resolve(m, e, about)
          PROVE  /\ pending' \in [Managers -> SUBSET Entries]
                 /\ timers' \in [Managers -> SUBSET Nat]
      <3>1. Remove(m, {e}) /\ {e} \in SUBSET pending[m]
        BY <2>2 DEF Resolve
      <3> QED
        BY <1>2, <3>1
    <2> QED
      BY <1>4, <2>1, <2>2 DEF DeliverLine
  <1>5. ASSUME NEW m \in Managers, Start(m)
        PROVE  TypeOK'
    BY <1>1, <1>5 DEF Start, Requests
  <1>6. ASSUME NEW m \in Managers, NEW c \in Calls, Send(m, c)
        PROVE  TypeOK'
    BY <1>1, <1>6 DEF Send, Requests
  <1>7. ASSUME NEW m \in Managers, NEW req \in atServer[m], ServerAnswers(m, req)
        PROVE  TypeOK'
    <2>1. req.call \in Requests /\ DeliverLine(m, req.id, req.call)
      BY <1>7 DEF ServerAnswers, Entries
    <2> QED
      BY <1>4, <1>7, <2>1 DEF ServerAnswers
  <1>8. ASSUME NEW m \in Managers, NEW id \in ServerRequestIds, ServerRequests(m, id)
        PROVE  TypeOK'
    <2>1. DeliverLine(m, id, "serverRequest")
      BY <1>8 DEF ServerRequests
    <2> QED
      BY <1>4, <1>8, <2>1 DEF ServerRequests
  <1>9. ASSUME NEW m \in Managers, NEW id \in timers[m], Timeout(m, id)
        PROVE  TypeOK'
    <2>1. {e \in pending[m] : e.id = id} \in SUBSET pending[m]
      OBVIOUS
    <2> QED
      BY <1>3, <1>9, <2>1 DEF Timeout
  <1>10. ASSUME NEW m \in Managers, ProcessDies(m)
         PROVE  TypeOK'
    BY <1>10 DEF ProcessDies
  <1>11. ASSUME NEW m \in Managers, ExitEvent(m)
         PROVE  TypeOK'
    BY <1>3, <1>11 DEF ExitEvent
  <1>12. CASE UNCHANGED managerVars
    BY <1>12 DEF managerVars
  <1> QED
    BY <1>5, <1>6, <1>7, <1>8, <1>9, <1>10, <1>11, <1>12 DEF Next

(* Every variable keeps its type.                                          *)
THEOREM TypeCorrect == Spec => []TypeOK
  BY TypeOKInit, TypeOKNext, PTL DEF Spec

-----------------------------------------------------------------------------
(* Ids.  What is pending or with the process was registered under an id of *)
(* its own, and the armed timers are those of the pending entries.         *)
Held(m) == pending[m] \cup atServer[m]

IdInv ==
    /\ \A m \in Managers, e \in Entries : e \in Held(m) => e.id \in 1..counter[m]
    /\ \A m \in Managers, d, e \in Entries :
          d \in Held(m) /\ e \in Held(m) /\ d.id = e.id => d = e
    /\ TimersGuardEntries

(* The two ways a step touches the map: one entry more, under a fresh id,  *)
(* or some fewer.                                                          *)
Grows(m, call) ==
    LET entry == [id |-> counter[m] + 1, call |-> call] IN
    /\ counter' = [counter EXCEPT ![m] = counter[m] + 1]
    /\ pending' = [pending EXCEPT ![m] = @ \cup {entry}]
    /\ timers' = [timers EXCEPT ![m] = @ \cup {counter[m] + 1}]
    /\ \A n \in Managers : atServer'[n] \subseteq atServer[n] \cup (IF n = m THEN {entry} ELSE {})

Shrinks(m, es) ==
    /\ es \subseteq pending[m]
    /\ Remove(m, es)
    /\ counter' = counter
    /\ \A n \in Managers : atServer'[n] \subseteq atServer[n]

Quiet ==
    /\ UNCHANGED << counter, pending, timers >>
    /\ \A n \in Managers : atServer'[n] \subseteq atServer[n]

LEMMA RegisterGrows ==
    ASSUME TypeOK, NEW m \in Managers, NEW call \in Requests, Register(m, call)
    PROVE  Grows(m, call)
  BY DEF TypeOK, Register, Grows

LEMMA IdInvGrows ==
    ASSUME TypeOK, IdInv, NEW m \in Managers, NEW call \in Requests, Grows(m, call)
    PROVE  IdInv'
  <1> DEFINE entry == [id |-> counter[m] + 1, call |-> call]
  <1>1. entry \in Entries /\ entry.id = counter[m] + 1 /\ counter[m] \in Nat
    BY DEF Entries, TypeOK
  <1>2. /\ counter'[m] = counter[m] + 1
        /\ \A n \in Managers : n # m => counter'[n] = counter[n]
        /\ Held(m)' \subseteq Held(m) \cup {entry}
        /\ \A n \in Managers : n # m => Held(n)' \subseteq Held(n)
    BY DEF Grows, Held, TypeOK
  <1> HIDE DEF entry
  <1>3. \A e \in Entries : e.id \in Nat
    BY DEF Entries
  <1>4. \A n \in Managers, e \in Entries : e \in Held(n)' => e.id \in 1..counter'[n]
    BY <1>1, <1>2, <1>3 DEF IdInv, TypeOK
  <1>5. ASSUME NEW n \in Managers, NEW d \in Entries, NEW e \in Entries,
               d \in Held(n)', e \in Held(n)', d.id = e.id
        PROVE  d = e
    <2>1. \A f \in Entries : f \in Held(m) => f.id # entry.id
      BY <1>1, <1>3 DEF IdInv
    <2>2. d \in Held(n) \/ (n = m /\ d = entry)
      BY <1>2, <1>5
    <2>3. e \in Held(n) \/ (n = m /\ e = entry)
      BY <1>2, <1>5
    <2> QED
      BY <1>5, <2>1, <2>2, <2>3 DEF IdInv
  <1>6. TimersGuardEntries'
    <2> SUFFICES ASSUME NEW n \in Managers
                 PROVE  timers'[n] = {e.id : e \in pending'[n]}
      BY DEF TimersGuardEntries
    <2>1. CASE n # m
      BY <2>1 DEF Grows, IdInv, TimersGuardEntries, TypeOK
    <2>2. CASE n = m
      <3>1. pending'[m] = pending[m] \cup {entry} /\ timers'[m] = timers[m] \cup {entry.id}
        BY <1>1 DEF Grows, TypeOK, entry
      <3>2. timers[m] = {e.id : e \in pending[m]}
        BY DEF IdInv, TimersGuardEntries
      <3>3. {e.id : e \in pending[m] \cup {entry}} = {e.id : e \in pending[m]} \cup {entry.id}
        OBVIOUS
      <3> QED
        BY <2>2, <3>1, <3>2, <3>3
    <2> QED
      BY <2>1, <2>2
  <1> QED
    BY <1>4, <1>5, <1>6 DEF IdInv

LEMMA IdInvShrinks ==
    ASSUME TypeOK, IdInv, NEW m \in Managers, NEW es, Shrinks(m, es)
    PROVE  IdInv'
  <1>1. /\ counter' = counter
        /\ pending'[m] = pending[m] \ es
        /\ timers'[m] = timers[m] \ {e.id : e \in es}
        /\ \A n \in Managers : n # m => pending'[n] = pending[n] /\ timers'[n] = timers[n]
        /\ \A n \in Managers : Held(n)' \subseteq Held(n)
    BY DEF Shrinks, Remove, Held, TypeOK
  <1>2. /\ \A n \in Managers, e \in Entries : e \in Held(n)' => e.id \in 1..counter'[n]
        /\ \A n \in Managers, d, e \in Entries :
              d \in Held(n)' /\ e \in Held(n)' /\ d.id = e.id => d = e
    BY <1>1 DEF IdInv
  <1>3. TimersGuardEntries'
    <2>1. timers[m] = {e.id : e \in pending[m]}
      BY DEF IdInv, TimersGuardEntries
    <2>2. \A d, e \in pending[m] : d.id = e.id => d = e
      BY DEF IdInv, Held, TypeOK
    <2>3. es \subseteq pending[m]
      BY DEF Shrinks
    <2>4. {e.id : e \in pending[m]} \ {e.id : e \in es} = {e.id : e \in pending[m] \ es}
      BY <2>2, <2>3
    <2> QED
      BY <1>1, <2>1, <2>4 DEF IdInv, TimersGuardEntries
  <1> QED
    BY <1>2, <1>3 DEF IdInv

(* Every step grows or shrinks one map, or leaves all maps alone.          *)
LEMMA StepShapes ==
    ASSUME TypeOK, [Next]_managerVars
    PROVE  \/ \E m \in Managers, call \in Requests : Grows(m, call)
           \/ \E m \in Managers, es \in SUBSET Entries : Shrinks(m, es)
           \/ Quiet
  <1> USE DEF TypeOK
  <1>1. ASSUME NEW m \in Managers, NEW id, NEW about, DeliverLine(m, id, about),
               counter' = counter, \A n \in Managers : atServer'[n] \subseteq atServer[n]
        PROVE  (\E es \in SUBSET Entries : Shrinks(m, es)) \/ Quiet
    <2>1. ASSUME NEW e \in pending[m], Resolve(m, e, about)
          PROVE  {e} \in SUBSET Entries /\ Shrinks(m, {e})
      BY <1>1, <2>1 DEF Resolve, Shrinks
    <2> QED
      BY <1>1, <2>1 DEF DeliverLine, Quiet
  <1>2. ASSUME NEW m \in Managers, Start(m)
        PROVE  \E call \in Requests : Grows(m, call)
    BY <1>2, RegisterGrows DEF Start, Requests
  <1>3. ASSUME NEW m \in Managers, NEW c \in Calls, Send(m, c)
        PROVE  (\E call \in Requests : Grows(m, call)) \/ Quiet
    BY <1>3, RegisterGrows DEF Send, Requests, Quiet
  <1>4. ASSUME NEW m \in Managers, NEW req \in atServer[m], ServerAnswers(m, req)
        PROVE  (\E es \in SUBSET Entries : Shrinks(m, es)) \/ Quiet
    BY <1>1, <1>4 DEF ServerAnswers
  <1>5. ASSUME NEW m \in Managers, NEW id \in ServerRequestIds, ServerRequests(m, id)
        PROVE  (\E es \in SUBSET Entries : Shrinks(m, es)) \/ Quiet
    BY <1>1, <1>5 DEF ServerRequests
  <1>6. ASSUME NEW m \in Managers, NEW id \in timers[m], Timeout(m, id)
        PROVE  \E es \in SUBSET Entries : Shrinks(m, es)
    <2>1. Shrinks(m, {e \in pending[m] : e.id = id})
      BY <1>6 DEF Timeout, Reject, Shrinks
    <2> QED
      BY <2>1
  <1>7. ASSUME NEW m \in Managers, ExitEvent(m)
        PROVE  \E es \in SUBSET Entries : Shrinks(m, es)
    <2>1. Shrinks(m, pending[m])
      BY <1>7 DEF ExitEvent, Reject, Shrinks
    <2> QED
      BY <2>1
  <1>8. ASSUME NEW m \in Managers, ProcessDies(m)
        PROVE  Quiet
    BY <1>8 DEF ProcessDies, Quiet
  <1>9. CASE UNCHANGED managerVars
    BY <1>9 DEF managerVars, Quiet
  <1>10. CASE Next
    BY <1>2, <1>3, <1>4, <1>5, <1>6, <1>7, <1>8, <1>10 DEF Next
  <1> QED
    BY <1>9, <1>10

LEMMA IdInvNext == TypeOK /\ IdInv /\ [Next]_managerVars => IdInv'
  <1> SUFFICES ASSUME TypeOK, IdInv, [Next]_managerVars
               PROVE  IdInv'
    OBVIOUS
  <1>1. ASSUME Quiet
        PROVE  IdInv'
    BY <1>1 DEF Quiet, IdInv, Held, TimersGuardEntries
  <1> QED
    BY <1>1, StepShapes, IdInvGrows, IdInvShrinks

LEMMA IdInvInit == Init => IdInv
  <1> SUFFICES ASSUME Init
               PROVE  IdInv
    OBVIOUS
  <1>1. \A m \in Managers : Held(m) = {} /\ timers[m] = {} /\ pending[m] = {}
    BY DEF Init, Held
  <1>2. TimersGuardEntries
    BY <1>1 DEF TimersGuardEntries
  <1> QED
    BY <1>1, <1>2 DEF IdInv

(* No request can wait for ever and no timer outlives its request.         *)
THEOREM TimersGuard == Spec => []TimersGuardEntries
  <1>1. IdInv => TimersGuardEntries
    BY DEF IdInv
  <1> QED
    BY TypeOKInit, TypeOKNext, IdInvInit, IdInvNext, <1>1, PTL DEF Spec
=============================================================================
