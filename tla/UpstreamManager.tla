--------------------------- MODULE UpstreamManager ---------------------------
(* UpstreamManager (src/src/proxy/upstream.ts) with its RequestIdMap       *)
(* (idmap.ts).  A manager owns one upstream process: it forwards requests  *)
(* under ids of its own, and each ends by a line from the process, by its  *)
(* timer, or by the exit of the process, whichever event comes first.      *)
(*                                                                         *)
(* The state is a function of the manager, because mcp.ts makes a new one  *)
(* at every reconnect and the old one lives on.                            *)
EXTENDS Naturals, FiniteSets

CONSTANTS
    Managers,            \* the UpstreamManager objects
    Calls,               \* the requests clients have forwarded
    Handshake,           \* the initialize request of start()
    ServerRequestIds     \* ids the upstream gives to requests of its own

ASSUME UpstreamManagerAssumption ==
    /\ Handshake \notin Calls
    /\ ServerRequestIds \subseteq Nat

VARIABLES
    proc,         \* the child process and what this.crashed knows of it
    counter,      \* RequestIdMap.counter
    pending,      \* RequestIdMap.pending
    timers,       \* the ids whose request timer is armed
    atServer,     \* the requests the process has read and not answered
    handshake,    \* the promise of start()
    initResult,   \* this.initializeResult
    status,       \* the promise of each call's send()
    answer        \* which request the answer to a call was meant for

managerVars ==
    << proc, counter, pending, timers, atServer, handshake, initResult, status, answer >>

Requests == Calls \cup {Handshake}
Entries  == [id : Nat, call : Requests]

(* running: alive.  exited: dead, the exit event still to come.  reaped:   *)
(* the event has come, this.crashed is set.                                *)
TypeOK ==
    /\ proc \in [Managers -> {"none", "running", "exited", "reaped"}]
    /\ counter \in [Managers -> Nat]
    /\ pending \in [Managers -> SUBSET Entries]
    /\ timers \in [Managers -> SUBSET Nat]
    /\ atServer \in [Managers -> SUBSET Entries]
    /\ handshake \in [Managers -> {"none", "waiting", "ready", "failed"}]
    /\ initResult \in [Managers -> {"null", "result", "undefined"}]
    /\ status \in [Calls -> {"idle", "waiting", "answered", "failed"}]
    /\ answer \in [Calls -> Requests \cup {"none", "serverRequest"}]

Init ==
    /\ proc = [m \in Managers |-> "none"]
    /\ counter = [m \in Managers |-> 0]
    /\ pending = [m \in Managers |-> {}]
    /\ timers = [m \in Managers |-> {}]
    /\ atServer = [m \in Managers |-> {}]
    /\ handshake = [m \in Managers |-> "none"]
    /\ initResult = [m \in Managers |-> "null"]
    /\ status = [c \in Calls |-> "idle"]
    /\ answer = [c \in Calls |-> "none"]

-----------------------------------------------------------------------------
(* RequestIdMap and sendInternal *)

(* Mutation of Register: the id is the number of pending requests. *)
RegisterReusingIds(m, call) ==
    LET entry == [id |-> Cardinality(pending[m]) + 1, call |-> call] IN
    /\ pending' = [pending EXCEPT ![m] = @ \cup {entry}]
    /\ timers' = [timers EXCEPT ![m] = @ \cup {entry.id}]
    /\ atServer' = [atServer EXCEPT ![m] = @ \cup {entry}]
    /\ UNCHANGED counter

(* Mutation of Register: no timer is armed. *)
RegisterUntimed(m, call) ==
    LET entry == [id |-> counter[m] + 1, call |-> call] IN
    /\ counter' = [counter EXCEPT ![m] = entry.id]
    /\ pending' = [pending EXCEPT ![m] = @ \cup {entry}]
    /\ atServer' = [atServer EXCEPT ![m] = @ \cup {entry}]
    /\ UNCHANGED timers

(* sendInternal past its check of crashed: register, arm the timer, write. *)
(* What is written to a process that has died is lost.                     *)
Register(m, call) ==
    LET entry == [id |-> counter[m] + 1, call |-> call] IN
    /\ counter' = [counter EXCEPT ![m] = entry.id]
    /\ pending' = [pending EXCEPT ![m] = @ \cup {entry}]
    /\ timers' = [timers EXCEPT ![m] = @ \cup {entry.id}]
    /\ atServer' = IF proc[m] = "exited" THEN atServer
                   ELSE [atServer EXCEPT ![m] = @ \cup {entry}]

(* Mutation of Remove: the timers stay armed. *)
RemoveLeavingTimers(m, entries) ==
    /\ pending' = [pending EXCEPT ![m] = @ \ entries]
    /\ UNCHANGED timers

(* Mutation of Remove: the timers are cleared, the entries stay. *)
RemoveLeavingEntries(m, entries) ==
    /\ timers' = [timers EXCEPT ![m] = @ \ {e.id : e \in entries}]
    /\ UNCHANGED pending

(* The entries leave the map, and wrappedResolve or wrappedReject disarms  *)
(* their timers.                                                           *)
Remove(m, entries) ==
    /\ pending' = [pending EXCEPT ![m] = @ \ entries]
    /\ timers' = [timers EXCEPT ![m] = @ \ {e.id : e \in entries}]

(* Mutation of Reject: the entries go, their promises are forgotten. *)
RejectSilently(m, entries) ==
    /\ Remove(m, entries)
    /\ UNCHANGED << status, handshake, answer, initResult >>

(* Mutation of Reject: the handshake is rejected as if it were a call. *)
RejectHandshakeToo(m, entries) ==
    /\ Remove(m, entries)
    /\ status' = [c \in Calls \cup {e.call : e \in entries} |->
                    IF \E e \in entries : e.call = c THEN "failed" ELSE status[c]]
    /\ UNCHANGED << answer, initResult, handshake >>

(* Their promises are rejected. *)
Reject(m, entries) ==
    /\ Remove(m, entries)
    /\ status' = [c \in Calls |->
                    IF \E e \in entries : e.call = c THEN "failed" ELSE status[c]]
    /\ handshake' = IF \E e \in entries : e.call = Handshake
                      THEN [handshake EXCEPT ![m] = "failed"] ELSE handshake
    /\ UNCHANGED << answer, initResult >>

(* A promise is resolved with a message that was meant for `about'.  The   *)
(* handshake takes any message with its id, an error response included.    *)
Resolve(m, entry, about) ==
    /\ Remove(m, {entry})
    /\ \/ /\ entry.call = Handshake
          /\ handshake' = [handshake EXCEPT ![m] = "ready"]
          /\ \E res \in {"result", "undefined"} :
                initResult' = [initResult EXCEPT ![m] = res]
          /\ UNCHANGED << status, answer >>
       \/ /\ entry.call # Handshake
          /\ status' = [status EXCEPT ![entry.call] = "answered"]
          /\ answer' = [answer EXCEPT ![entry.call] = about]
          /\ UNCHANGED << handshake, initResult >>

(* A line from the process that carries an id. *)
DeliverLine(m, id, about) ==
    \/ \E e \in pending[m] : e.id = id /\ Resolve(m, e, about)
    \/ /\ \A e \in pending[m] : e.id # id
       /\ UNCHANGED << pending, timers, handshake, initResult, status, answer >>

-----------------------------------------------------------------------------
(* Operations and events *)

(* start(), up to the await of the handshake. *)
Start(m) ==
    /\ proc[m] = "none"
    /\ proc' = [proc EXCEPT ![m] = "running"]
    /\ handshake' = [handshake EXCEPT ![m] = "waiting"]
    /\ Register(m, Handshake)
    /\ UNCHANGED << initResult, status, answer >>

(* Mutation of Send: this.crashed is not checked. *)
SendUnchecked(m, c) ==
    /\ status[c] = "idle"
    /\ proc[m] # "none"
    /\ status' = [status EXCEPT ![c] = "waiting"]
    /\ Register(m, c)
    /\ UNCHANGED << proc, handshake, initResult, answer >>

(* send() of a request. *)
Send(m, c) ==
    /\ status[c] = "idle"
    /\ \/ /\ proc[m] \in {"none", "reaped"}
          /\ status' = [status EXCEPT ![c] = "failed"]
          /\ UNCHANGED << counter, pending, timers, atServer >>
       \/ /\ proc[m] \in {"running", "exited"}
          /\ status' = [status EXCEPT ![c] = "waiting"]
          /\ Register(m, c)
    /\ UNCHANGED << proc, handshake, initResult, answer >>

(* The process answers a request it has read.  Its last lines may arrive   *)
(* after the exit event.                                                   *)
ServerAnswers(m, req) ==
    /\ req \in atServer[m]
    /\ atServer' = [atServer EXCEPT ![m] = @ \ {req}]
    /\ DeliverLine(m, req.id, req.call)
    /\ UNCHANGED << proc, counter >>

(* The process sends a request of its own (MCP: ping, roots/list,          *)
(* sampling/createMessage), with an id from its own numbering.             *)
ServerRequests(m, id) ==
    /\ proc[m] # "none"
    /\ DeliverLine(m, id, "serverRequest")
    /\ UNCHANGED << proc, counter, atServer >>

Timeout(m, id) ==
    /\ id \in timers[m]
    /\ Reject(m, {e \in pending[m] : e.id = id})
    /\ UNCHANGED << proc, counter, atServer >>

ProcessDies(m) ==
    /\ proc[m] = "running"
    /\ proc' = [proc EXCEPT ![m] = "exited"]
    /\ UNCHANGED << counter, pending, timers, atServer, handshake, initResult, status, answer >>

(* The "exit" handler: rejectAll. *)
ExitEvent(m) ==
    /\ proc[m] = "exited"
    /\ proc' = [proc EXCEPT ![m] = "reaped"]
    /\ Reject(m, pending[m])
    /\ UNCHANGED << counter, atServer >>

-----------------------------------------------------------------------------
Next ==
    \E m \in Managers :
        \/ Start(m)
        \/ \E c \in Calls : Send(m, c)
        \/ \E req \in atServer[m] : ServerAnswers(m, req)
        \/ \E id \in ServerRequestIds : ServerRequests(m, id)
        \/ \E id \in timers[m] : Timeout(m, id)
        \/ ProcessDies(m)
        \/ ExitEvent(m)

Spec == Init /\ [][Next]_managerVars

(* Timers fire, and Node delivers the exit of a process that died. *)
Fairness ==
    \A m \in Managers :
        /\ WF_managerVars(\E id \in timers[m] : Timeout(m, id))
        /\ WF_managerVars(ExitEvent(m))

FairSpec == Spec /\ Fairness

-----------------------------------------------------------------------------
(* Properties *)

(* A call is answered with the response to that call, whatever timed out,  *)
(* died or was replaced meanwhile: ids are never reused, and a late        *)
(* response finds no entry.                                                *)
AnswersMatch ==
    \A c \in Calls : status[c] = "answered" => answer[c] = c

(* A pending entry has an armed timer and an armed timer an entry, so no   *)
(* request can wait for ever and no timer outlives its request.            *)
TimersGuardEntries ==
    \A m \in Managers : timers[m] = {e.id : e \in pending[m]}

(* A call waits exactly as long as one map holds it.                       *)
WaitingIsPending ==
    \A c \in Calls :
        /\ status[c] = "waiting" <=> \E m \in Managers : \E e \in pending[m] : e.call = c
        /\ \A m, n \in Managers : \A d \in pending[m], e \in pending[n] :
              d.call = c /\ e.call = c => m = n /\ d = e

(* A manager that saw its process exit has nothing pending.                *)
DrainedOnExit ==
    \A m \in Managers : proc[m] = "reaped" => pending[m] = {}

(* "Complete the MCP initialize handshake before signalling ready"         *)
(* (upstream.ts:13): a manager is ready once it holds a result.            *)
HandshakeChecked ==
    \A m \in Managers : handshake[m] = "ready" => initResult[m] = "result"

(* Every call that was sent comes to an end.                               *)
CallsSettle ==
    \A c \in Calls : status[c] = "waiting" ~> status[c] \in {"answered", "failed"}

(* The manager as its callers see it. *)
Contract == INSTANCE SendContract
ContractHonoured == Contract!Spec
=============================================================================
