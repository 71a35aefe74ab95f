------------------------------ MODULE AuditSink ------------------------------
(* FileAuditSink (src/src/audit/logger.ts): init, write and close.         *)
(*                                                                         *)
(* write() hashes synchronously and then awaits open, write, sync and      *)
(* close in turn.  Calls in flight at the same time interleave at those    *)
(* awaits, and the thread pool may complete their appends in any order.    *)
EXTENDS AuditChain

CONSTANTS
    Serialized,    \* TRUE: callers await each write before the next one
    Faults         \* which of FaultKinds may happen

(* kill        the process ends, what it handed to the kernel stays        *)
(* powerLoss   unsynced lines at the end of the file are gone as well      *)
(* tornTail    a power loss may also cut the first lost line in the middle *)
(* failedCall  open, write, fsync or close rejects                         *)
(* shortWrite  the kernel takes fewer bytes than it was given              *)
FaultKinds == {"kill", "powerLoss", "tornTail", "failedCall", "shortWrite"}

ASSUME AuditSinkAssumption ==
    /\ Serialized \in BOOLEAN
    /\ Faults \subseteq FaultKinds

VARIABLES
    up,          \* the process is running, with an initialised sink
    lastHash,    \* this.lastHash
    state,       \* how far the write() of each event has come
    prevOf,      \* event.prev_hash, once computed
    file,        \* the lines of the audit file
    openTail,    \* the last line lacks its newline
    synced,      \* how many lines have reached the disk
    diskTail     \* while bytes appended to the last of these have not: what the
                 \* disk has of it, else nothing

sinkVars == << up, lastHash, state, prevOf, file, openTail, synced, diskTail >>

WriteStates ==
    {"new", "hashed", "appended", "synced", "acked", "failed", "lost"}

TypeOK ==
    /\ up \in BOOLEAN
    /\ lastHash \in Hashes
    /\ state \in [Events -> WriteStates]
    /\ prevOf \in [Events -> Hashes]
    /\ file \in Seq(Lines)
    /\ openTail \in BOOLEAN
    /\ synced \in 0..Len(file)
    /\ diskTail \in SUBSET Lines

Init ==
    /\ up = TRUE
    /\ lastHash = Genesis
    /\ state = [e \in Events |-> "new"]
    /\ prevOf = [e \in Events |-> Genesis]
    /\ file = << >>
    /\ openTail = FALSE
    /\ synced = 0
    /\ diskTail = {}

InFlight == {e \in Events : state[e] \in {"hashed", "appended", "synced"}}

-----------------------------------------------------------------------------
(* write() *)

(* Mutation of HashEvent: lastHash is left for later stages to advance. *)
HashEventLate(e) ==
    /\ up /\ state[e] = "new"
    /\ Serialized => InFlight = {}
    /\ state' = [state EXCEPT ![e] = "hashed"]
    /\ prevOf' = [prevOf EXCEPT ![e] = lastHash]
    /\ UNCHANGED << up, lastHash, file, openTail, synced, diskTail >>

(* Mutation of HashEvent: prevHash is read after lastHash has advanced. *)
HashEventSwapped(e) ==
    /\ up /\ state[e] = "new"
    /\ Serialized => InFlight = {}
    /\ state' = [state EXCEPT ![e] = "hashed"]
    /\ lastHash' = HashOf(lastHash, e)
    /\ prevOf' = [prevOf EXCEPT ![e] = lastHash']
    /\ UNCHANGED << up, file, openTail, synced, diskTail >>

(* The synchronous head of write(): the event takes its place in the       *)
(* chain, before anything is known about the file.                         *)
HashEvent(e) ==
    /\ up
    /\ state[e] = "new"
    /\ Serialized => InFlight = {}
    /\ state' = [state EXCEPT ![e] = "hashed"]
    /\ prevOf' = [prevOf EXCEPT ![e] = lastHash]
    /\ lastHash' = HashOf(lastHash, e)
    /\ UNCHANGED << up, file, openTail, synced, diskTail >>

(* The bytes of one append.  They go to the end of the file, which is the  *)
(* middle of a line when the last one has no newline.                      *)
AppendBytes(line) ==
    \/ /\ openTail
       /\ file' = Garbled(file, Len(file))
       /\ diskTail' = IF synced = Len(file) /\ diskTail = {}
                        THEN {file[Len(file)]} ELSE diskTail
    \/ /\ ~openTail
       /\ file' = Append(file, line)
       /\ UNCHANGED diskTail

(* open and write have resolved. *)
AppendLine(e) ==
    /\ up
    /\ state[e] = "hashed"
    /\ AppendBytes(WrittenLine(e, prevOf[e]))
    /\ openTail' = FALSE
    /\ state' = [state EXCEPT ![e] = "appended"]
    /\ UNCHANGED << up, lastHash, prevOf, synced >>

(* handle.write resolves with a bytesWritten nobody reads. *)
ShortWrite(e) ==
    /\ "shortWrite" \in Faults
    /\ up
    /\ state[e] = "hashed"
    /\ AppendBytes(TornLine(e, prevOf[e]))
    /\ openTail' = TRUE
    /\ state' = [state EXCEPT ![e] = "appended"]
    /\ UNCHANGED << up, lastHash, prevOf, synced >>

(* Mutation of Sync: there is no fsync. *)
SyncSkipped(e) ==
    /\ up /\ state[e] = "appended"
    /\ state' = [state EXCEPT ![e] = "synced"]
    /\ UNCHANGED << up, lastHash, prevOf, file, openTail, synced, diskTail >>

(* sync has resolved: all that is in the file is on the disk. *)
Sync(e) ==
    /\ up
    /\ state[e] = "appended"
    /\ synced' = Len(file)
    /\ diskTail' = {}
    /\ state' = [state EXCEPT ![e] = "synced"]
    /\ UNCHANGED << up, lastHash, prevOf, file, openTail >>

(* close has resolved, and with it the caller's promise. *)
CloseHandle(e) ==
    /\ up
    /\ state[e] = "synced"
    /\ state' = [state EXCEPT ![e] = "acked"]
    /\ UNCHANGED << up, lastHash, prevOf, file, openTail, synced, diskTail >>

(* One of the calls rejects: the caller learns of it, lastHash does not.   *)
(* A line already appended stays.                                          *)
RejectWrite(e) ==
    /\ "failedCall" \in Faults
    /\ up
    /\ e \in InFlight
    /\ state' = [state EXCEPT ![e] = "failed"]
    /\ UNCHANGED << up, lastHash, prevOf, file, openTail, synced, diskTail >>

-----------------------------------------------------------------------------
(* The end of the process and the next start. *)

LoseInFlight ==
    state' = [e \in Events |-> IF e \in InFlight THEN "lost" ELSE state[e]]

(* The process ends: process.exit, a signal, an uncaught error.  close()   *)
(* is empty, so nothing waits for the writes in flight.                    *)
ProcessEnds ==
    /\ up
    /\ up' = FALSE
    /\ LoseInFlight
    /\ UNCHANGED << lastHash, prevOf, file, openTail, synced, diskTail >>

Kill == "kill" \in Faults /\ ProcessEnds

(* n lines of the file are on the disk when the machine comes back; with   *)
(* torn, the last of them is incomplete or lacks only its newline.         *)
PowerLoss(n, torn) ==
    /\ "powerLoss" \in Faults
    /\ up
    /\ n \in synced..Len(file)
    /\ torn => "tornTail" \in Faults /\ n > synced
    /\ up' = FALSE
    /\ LoseInFlight
    /\ openTail' = (torn \/ (openTail /\ n = Len(file)))
    /\ \/ file' = SubSeq(file, 1, n)
       \/ torn /\ file' = Garbled(SubSeq(file, 1, n), n)
    /\ synced' = n
    /\ diskTail' = {}
    /\ UNCHANGED << lastHash, prevOf >>

(* The bytes that ran into a line of the disk are gone, or part of them.   *)
PowerLossInLine ==
    /\ "powerLoss" \in Faults
    /\ up
    /\ up' = FALSE
    /\ LoseInFlight
    /\ openTail' = TRUE
    /\ \E line \in diskTail :
          \/ file' = Append(SubSeq(file, 1, synced - 1), line)
          \/ "tornTail" \in Faults /\ file' = SubSeq(file, 1, synced)
    /\ diskTail' = {}
    /\ UNCHANGED << lastHash, prevOf, synced >>

(* Mutation of InitSink: every process starts a chain of its own. *)
InitSinkFresh ==
    /\ ~up /\ up' = TRUE
    /\ lastHash' = Genesis
    /\ UNCHANGED << state, prevOf, file, openTail, synced, diskTail >>

(* Mutation of InitSink: a file that does not parse is started over. *)
InitSinkTruncates ==
    /\ ~up /\ up' = TRUE
    /\ lastHash' = RecoveredHash(file)
    /\ file' = IF VerifyAuditChain(file) THEN file ELSE << >>
    /\ UNCHANGED << state, prevOf, openTail, synced, diskTail >>

(* A new process: init() recovers lastHash from the file. *)
InitSink ==
    /\ ~up
    /\ up' = TRUE
    /\ lastHash' = RecoveredHash(file)
    /\ UNCHANGED << state, prevOf, file, openTail, synced, diskTail >>

-----------------------------------------------------------------------------
Write(e) ==
    \/ HashEvent(e) \/ AppendLine(e) \/ ShortWrite(e)
    \/ Sync(e) \/ CloseHandle(e) \/ RejectWrite(e)

Next ==
    \/ \E e \in Events : Write(e)
    \/ Kill
    \/ \E n \in 0..Len(file), torn \in BOOLEAN : PowerLoss(n, torn)
    \/ PowerLossInLine
    \/ InitSink

Spec == Init /\ [][Next]_sinkVars

-----------------------------------------------------------------------------
(* Properties *)

OnDisk(e) ==
    \E i \in 1..synced : file[i] = WrittenLine(e, prevOf[e])

(* A write() that resolved has its line, readable and complete, in the     *)
(* part of the file that a crash cannot take away ("guaranteed fsync       *)
(* durability", logger.ts:9).                                              *)
AckedDurable == \A e \in Events : state[e] = "acked" => OnDisk(e)

(* The file passes verifyAuditChain, running or stopped: nothing the sink  *)
(* itself does may look like tampering (logger.ts:81-84).                  *)
ChainVerifies == VerifyAuditChain(file)

(* A file that verifies is complete: whatever went wrong meanwhile, it     *)
(* holds the line of every write() that resolved.  An acknowledged event   *)
(* is either in the chain or leaves a scar that the verifier sees.         *)
VerifiedIsComplete ==
    VerifyAuditChain(file) => \A e \in Events : state[e] = "acked" => OnDisk(e)

(* No two lines continue the same predecessor, whatever order their        *)
(* appends completed in: lastHash moves in the same synchronous stretch of *)
(* write() that reads it.                                                  *)
NoFork ==
    \A i, j \in 1..Len(file) : file[i].prev = file[j].prev => i = j

(* Once every write in flight has settled, the file holds one unbroken     *)
(* chain, though perhaps not in chain order: each line's predecessor is    *)
(* somewhere in the file.                                                  *)
NothingDangles ==
    InFlight = {} =>
        \A i \in 1..Len(file) :
            \/ file[i].prev = Genesis
            \/ \E j \in 1..Len(file) : file[j].hash = file[i].prev
=============================================================================
