----------------------------- MODULE AuditChain -----------------------------
(* The lines of the audit file and the hash chain over them.               *)
(*                                                                         *)
(* SHA-256 is taken to be injective, so a hash is represented by what it   *)
(* commits to: HashOf(prev, e) is prev with e appended, and the literal    *)
(* "0" a fresh sink starts from is the empty sequence.  An event stands    *)
(* for the fields that the hash covers; request_id makes it unique.        *)
EXTENDS Naturals, Sequences

CONSTANT Events      \* the audit events of one history

Genesis == << >>
Hashes  == Seq(Events)

HashOf(prev, e) == Append(prev, e)

(* One line of the file.  whole = FALSE stands for bytes JSON.parse        *)
(* rejects: a line cut short, or two lines run together.                   *)
Lines == [whole : BOOLEAN, event : Events, prev : Hashes, hash : Hashes]

WrittenLine(e, prev) ==
    [whole |-> TRUE, event |-> e, prev |-> prev, hash |-> HashOf(prev, e)]

TornLine(e, prev) ==
    [whole |-> FALSE, event |-> e, prev |-> prev, hash |-> HashOf(prev, e)]

(* Line i of the file, spoilt. *)
Garbled(lines, i) == [lines EXCEPT ![i] = [@ EXCEPT !.whole = FALSE]]

(* The hash the verifier expects line i of the file to name as prev_hash.  *)
ExpectedPrevHash(lines, i) == IF i = 1 THEN Genesis ELSE lines[i-1].hash

(* Mutation of LineVerifies: a line that does not parse is skipped. *)
LineVerifiesOrTorn(lines, i) ==
    lines[i].whole =>
        /\ lines[i].prev = ExpectedPrevHash(lines, i)
        /\ lines[i].hash = HashOf(lines[i].prev, lines[i].event)

(* Mutation of LineVerifies: prev_hash is not compared. *)
LineVerifiesAlone(lines, i) ==
    /\ lines[i].whole
    /\ lines[i].hash = HashOf(lines[i].prev, lines[i].event)

LineVerifies(lines, i) ==
    /\ lines[i].whole
    /\ lines[i].prev = ExpectedPrevHash(lines, i)
    /\ lines[i].hash = HashOf(lines[i].prev, lines[i].event)

VerifyAuditChain(lines) == \A i \in 1..Len(lines) : LineVerifies(lines, i)

(* What init() takes as lastHash: the hash of the last line of the file,   *)
(* "0" for an empty file and for a last line that does not parse.          *)
RecoveredHash(lines) ==
    IF lines = << >> \/ ~lines[Len(lines)].whole
      THEN Genesis
      ELSE lines[Len(lines)].hash
=============================================================================
