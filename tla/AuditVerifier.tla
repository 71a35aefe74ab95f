---------------------------- MODULE AuditVerifier ----------------------------
(* verifyAuditChain (src/src/audit/logger.ts) against a file that others   *)
(* change while the sink writes to it.  The hash has no key: whoever can   *)
(* change a line can compute its hash as well.                             *)
(*                                                                         *)
(* Unlike AuditSink, an event here has two parts: what identifies it and   *)
(* its step_up object.  The hash is taken over JSON.stringify(content,     *)
(* keys), and an array of keys selects properties at every depth: step_up  *)
(* contributes that it is null or an object, and nothing of the object.    *)
EXTENDS Naturals, Sequences

CONSTANTS
    Events,         \* the audit events
    ForeignLines,   \* lines that others may put into the file
    MaxEvents,      \* bound: events in the file and written, together
    MaxDamage       \* bound: how many times the file is changed

(* core stands for the top-level fields of an event. *)
StepUps == {"null", "approved", "denied"}

(* What JSON.stringify(contentToHash, keys) keeps of an event. *)
ContentToHash(ev) ==
    [core |-> ev.core, stepUp |-> IF ev.stepUp = "null" THEN "null" ELSE "object"]

Hashed == {ContentToHash(ev) : ev \in Events}

Chain == INSTANCE AuditChain WITH Events <- Hashed

(* prev and hash are the fields of the line, whatever they should be. *)
FileLines ==
    [event : Events, prev : Chain!Hashes, hash : Chain!Hashes, whole : BOOLEAN]

ASSUME AuditVerifierAssumption ==
    /\ \A ev \in Events : ev = [core |-> ev.core, stepUp |-> ev.stepUp]
    /\ \A ev \in Events : ev.stepUp \in StepUps
    /\ ForeignLines \subseteq FileLines
    /\ MaxEvents \in Nat /\ MaxDamage \in Nat

VARIABLES
    lines,      \* the file
    found,      \* the file as the running process found it in init()
    written,    \* the lines that it has hashed since, in that order
    inFlight,   \* those not appended yet, by their places in written
    lastHash,   \* its this.lastHash
    damage      \* how many changes the file has suffered

vars == << lines, found, written, inFlight, lastHash, damage >>

(* The verifier recomputes the hash from the event that it reads. *)
Verify(ls) ==
    Chain!VerifyAuditChain(
        [i \in 1..Len(ls) |-> [ls[i] EXCEPT !.event = ContentToHash(@)]])

Init ==
    /\ lines = << >> /\ found = << >> /\ written = << >>
    /\ inFlight = {}
    /\ lastHash = Chain!Genesis
    /\ damage = 0

-----------------------------------------------------------------------------
(* The sink *)

HashedLine(ev, prev) ==
    [event |-> ev, prev |-> prev, whole |-> TRUE,
     hash |-> Chain!HashOf(prev, ContentToHash(ev))]

(* Mutation of HashEvent: the hash to continue is read from the file. *)
HashEventFromFile(ev) ==
    /\ Len(found) + Len(written) < MaxEvents
    /\ written' = Append(written, HashedLine(ev, Chain!RecoveredHash(lines)))
    /\ inFlight' = inFlight \cup {Len(written) + 1}
    /\ lastHash' = written'[Len(written) + 1].hash
    /\ UNCHANGED << lines, found, damage >>

(* The synchronous head of write(). *)
HashEvent(ev) ==
    /\ Len(found) + Len(written) < MaxEvents
    /\ written' = Append(written, HashedLine(ev, lastHash))
    /\ inFlight' = inFlight \cup {Len(written) + 1}
    /\ lastHash' = Chain!HashOf(lastHash, ContentToHash(ev))
    /\ UNCHANGED << lines, found, damage >>

(* A line is appended; writes in flight together may be in any order. *)
AppendLine(k) ==
    /\ k \in inFlight
    /\ lines' = Append(lines, written[k])
    /\ inFlight' = inFlight \ {k}
    /\ UNCHANGED << found, written, lastHash, damage >>

(* The process ends, and the next one takes the hash of the last line for  *)
(* what the chain has come to.                                             *)
Restart ==
    /\ found' = lines /\ written' = << >>
    /\ inFlight' = {}
    /\ lastHash' = Chain!RecoveredHash(lines)
    /\ UNCHANGED << lines, damage >>

-----------------------------------------------------------------------------
(* Others who can write to the file *)

Damage(ls) ==
    /\ damage < MaxDamage
    /\ damage' = damage + 1
    /\ lines' = ls
    /\ UNCHANGED << found, written, inFlight, lastHash >>

Without(i) == SubSeq(lines, 1, i-1) \o SubSeq(lines, i+1, Len(lines))

EditEvent(i, ev) == Damage([lines EXCEPT ![i].event = ev])
SpoilLine(i)     == Damage([lines EXCEPT ![i].whole = FALSE])
RemoveLine(i)    == Damage(Without(i))
SwapLines(i, j)  == Damage([lines EXCEPT ![i] = lines[j], ![j] = lines[i]])
InsertLine(i, l) == Damage(SubSeq(lines, 1, i) \o << l >> \o SubSeq(lines, i+1, Len(lines)))

(* Line i is given the hashes that the verifier expects of it. *)
Rehash(i) ==
    Damage([lines EXCEPT ![i] =
              HashedLine(lines[i].event, Chain!ExpectedPrevHash(lines, i))])

(* The i-th line is put in once more, in front of the j-th. *)
RepeatLine(i, j) == InsertLine(j - 1, lines[i])

Tamper ==
    \/ \E i \in 1..Len(lines) :
          \/ \E ev \in Events : EditEvent(i, ev)
          \/ Rehash(i) \/ SpoilLine(i) \/ RemoveLine(i)
          \/ \E j \in 1..Len(lines) : SwapLines(i, j) \/ RepeatLine(i, j)
    \/ \E i \in 0..Len(lines), l \in ForeignLines : InsertLine(i, l)

Next ==
    \/ \E ev \in Events : HashEvent(ev)
    \/ \E k \in inFlight : AppendLine(k)
    \/ Restart
    \/ Tamper

Spec == Init /\ [][Next]_vars

-----------------------------------------------------------------------------
(* Properties *)

(* What the file should hold up to the k-th line of the running process.   *)
Record(k) == SubSeq(found \o written, 1, Len(found) + k)

SaysTheSame(Same(_, _), s, t) ==
    /\ Len(s) = Len(t)
    /\ \A i \in 1..Len(s) : Same(s[i].event, t[i].event)

(* The file ends in a line with the hash of the k-th line written. *)
EndsWith(k) == lines # << >> /\ lines[Len(lines)].hash = written[k].hash

(* Each line that a running gateway appends seals all lines before it: a   *)
(* change of the file, its hashes recomputed or not, is noticed from the   *)
(* next write on.  Once the file ends in a line of the process and         *)
(* verifies, it says, in the fields that are hashed, what the process      *)
(* found at its start and wrote since, and nothing else.                   *)
SealedIsAuthentic ==
    \A k \in DOMAIN written :
        Verify(lines) /\ Verify(found) /\ EndsWith(k) =>
            SaysTheSame(LAMBDA a, b : ContentToHash(a) = ContentToHash(b),
                        lines, Record(k))

(* The same of the whole event: that the chain "is intact and untampered"  *)
(* (logger.ts:82), step_up included.                                       *)
SealedStepUpIsAuthentic ==
    \A k \in DOMAIN written :
        Verify(lines) /\ Verify(found) /\ EndsWith(k) =>
            SaysTheSame(LAMBDA a, b : a = b, lines, Record(k))

(* "Returns true if valid, false if tampering is detected" (logger.ts:83): *)
(* what verifies is what was written, or the beginning of it.              *)
TamperingDetected ==
    Verify(lines) /\ Verify(found) =>
        \E k \in 0..(Len(found) + Len(written)) :
            SaysTheSame(LAMBDA a, b : ContentToHash(a) = ContentToHash(b),
                        lines, SubSeq(found \o written, 1, k))
=============================================================================
