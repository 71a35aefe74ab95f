--------------------------- MODULE AuditSinkProofs ---------------------------
(* Theorems about AuditSink, for every set of events.                      *)
EXTENDS AuditSink, SequenceTheorems, TLAPS

(* A hash is a sequence of events again.                                   *)
LEMMA HashOfType ==
    ASSUME NEW h \in Hashes, NEW e \in Events
    PROVE  /\ HashOf(h, e) \in Hashes
           /\ Len(HashOf(h, e)) = Len(h) + 1
           /\ HashOf(h, e) # Genesis
  <1>1. h \in Seq(Events)
    BY DEF Hashes
  <1>2. Append(h, e) \in Seq(Events) /\ Len(Append(h, e)) = Len(h) + 1
    BY <1>1, AppendProperties
  <1>3. Append(h, e) # << >>
    BY <1>1, AppendProperties
  <1> QED
    BY <1>2, <1>3 DEF HashOf, Hashes, Genesis

(* What write() hands to the kernel is a line.                             *)
LEMMA WrittenLineType ==
    ASSUME NEW h \in Hashes, NEW e \in Events
    PROVE  /\ WrittenLine(e, h) \in Lines
           /\ TornLine(e, h) \in Lines
  BY HashOfType DEF WrittenLine, TornLine, Lines

(* Spoiling line i changes no other line and no other field.               *)
LEMMA GarbledProperties ==
    ASSUME NEW lines \in Seq(Lines), NEW i \in 1..Len(lines)
    PROVE  /\ Garbled(lines, i) \in Seq(Lines)
           /\ Len(Garbled(lines, i)) = Len(lines)
           /\ \A j \in 1..Len(lines) : j # i => Garbled(lines, i)[j] = lines[j]
           /\ ~Garbled(lines, i)[i].whole
           /\ Garbled(lines, i)[i].prev = lines[i].prev
           /\ Garbled(lines, i)[i].event = lines[i].event
  <1> DEFINE l == [lines[i] EXCEPT !.whole = FALSE]
  <1>1. lines[i] \in Lines
    BY ElementOfSeq
  <1>2. l \in Lines /\ ~l.whole /\ l.prev = lines[i].prev /\ l.event = lines[i].event
    BY <1>1 DEF Lines
  <1>3. Garbled(lines, i) = [lines EXCEPT ![i] = l]
    BY DEF Garbled
  <1> HIDE DEF l
  <1>4. /\ [lines EXCEPT ![i] = l] \in Seq(Lines)
        /\ Len([lines EXCEPT ![i] = l]) = Len(lines)
        /\ \A j \in 1..Len(lines) :
              [lines EXCEPT ![i] = l][j] = IF j = i THEN l ELSE lines[j]
    BY <1>2, ExceptSeq
  <1> QED
    BY <1>2, <1>3, <1>4

(* The first n lines of a file.                                            *)
LEMMA PrefixProperties ==
    ASSUME NEW lines \in Seq(Lines), NEW n \in 0..Len(lines)
    PROVE  /\ SubSeq(lines, 1, n) \in Seq(Lines)
           /\ Len(SubSeq(lines, 1, n)) = n
           /\ \A i \in 1..n : SubSeq(lines, 1, n)[i] = lines[i]
  <1>1. Len(lines) \in Nat
    BY LenProperties
  <1>2. \A i \in 1..n : lines[i] \in Lines
    BY <1>1, ElementOfSeq
  <1>3. n \in Int /\ 1 \in Int
    BY <1>1
  <1>4. /\ SubSeq(lines, 1, n) \in Seq(Lines)
        /\ Len(SubSeq(lines, 1, n)) = IF 1 <= n THEN n-1+1 ELSE 0
        /\ \A i \in 1..n-1+1 : SubSeq(lines, 1, n)[i] = lines[1+i-1]
    BY <1>2, <1>3, SubSeqProperties
  <1> QED
    BY <1>1, <1>4

(* Appending a line.                                                       *)
LEMMA AppendLineProperties ==
    ASSUME NEW lines \in Seq(Lines), NEW l \in Lines
    PROVE  /\ Append(lines, l) \in Seq(Lines)
           /\ Len(Append(lines, l)) = Len(lines) + 1
           /\ \A i \in 1..Len(lines) : Append(lines, l)[i] = lines[i]
           /\ Append(lines, l)[Len(lines)+1] = l
  BY AppendProperties

(* The hash a new process recovers is a hash.                              *)
LEMMA RecoveredHashType ==
    ASSUME NEW lines \in Seq(Lines)
    PROVE  RecoveredHash(lines) \in Hashes
  <1>1. CASE lines = << >> \/ ~lines[Len(lines)].whole
    BY <1>1, EmptySeq DEF RecoveredHash, Genesis, Hashes
  <1>2. CASE ~(lines = << >> \/ ~lines[Len(lines)].whole)
    <2>1. Len(lines) \in 1..Len(lines)
      BY <1>2, EmptySeq
    <2>2. lines[Len(lines)] \in Lines
      BY <2>1, ElementOfSeq
    <2> QED
      BY <1>2, <2>2 DEF RecoveredHash, Lines
  <1> QED
    BY <1>1, <1>2

-----------------------------------------------------------------------------
(* Type correctness.  A line without its newline is the last line of a     *)
(* file that has one, and a line that bytes ran into was on the disk.      *)
TypeInv ==
    /\ TypeOK
    /\ openTail => Len(file) > 0
    /\ diskTail # {} => synced > 0

(* What one append does to the file: it leaves every line but an           *)
(* unterminated last one alone, and that one it spoils.                    *)
Appended(l) ==
    /\ file' \in Seq(Lines)
    /\ openTail =>
          /\ Len(file') = Len(file)
          /\ \A i \in 1..Len(file) : i # Len(file) => file'[i] = file[i]
          /\ ~file'[Len(file)].whole
          /\ file'[Len(file)].prev = file[Len(file)].prev
          /\ file'[Len(file)].event = file[Len(file)].event
          /\ diskTail' = IF synced = Len(file) /\ diskTail = {}
                           THEN {file[Len(file)]} ELSE diskTail
    /\ ~openTail =>
          /\ Len(file') = Len(file) + 1
          /\ \A i \in 1..Len(file) : file'[i] = file[i]
          /\ file'[Len(file)+1] = l
          /\ diskTail' = diskTail

LEMMA AppendBytesEffect ==
    ASSUME TypeInv, NEW l \in Lines, AppendBytes(l)
    PROVE  Appended(l)
  <1>1. file \in Seq(Lines) /\ Len(file) \in Nat
    BY LenProperties DEF TypeInv, TypeOK
  <1>2. CASE openTail
    <2>1. Len(file) \in 1..Len(file)
      BY <1>1, <1>2 DEF TypeInv
    <2>2. /\ file' = Garbled(file, Len(file))
          /\ diskTail' = IF synced = Len(file) /\ diskTail = {}
                           THEN {file[Len(file)]} ELSE diskTail
      BY <1>2 DEF AppendBytes
    <2> QED
      BY <1>1, <1>2, <2>1, <2>2, GarbledProperties DEF Appended
  <1>3. CASE ~openTail
    <2>1. file' = Append(file, l) /\ diskTail' = diskTail
      BY <1>3 DEF AppendBytes
    <2> QED
      BY <1>1, <1>3, <2>1, AppendLineProperties DEF Appended
  <1> QED
    BY <1>2, <1>3

(* What a power loss leaves of the file. *)
CutTo(n, torn) ==
    /\ file' \in Seq(Lines)
    /\ Len(file') = n
    /\ \A i \in 1..n : (torn /\ i = n) \/ file'[i] = file[i]
    /\ torn => file'[n] = file[n] \/ ~file'[n].whole

LEMMA PowerLossEffect ==
    ASSUME TypeInv, NEW n \in Nat, NEW torn \in BOOLEAN, PowerLoss(n, torn)
    PROVE  CutTo(n, torn)
  <1>1. /\ file \in Seq(Lines) /\ Len(file) \in Nat
        /\ synced \in 0..Len(file) /\ n \in 0..Len(file)
    BY LenProperties DEF TypeInv, TypeOK, PowerLoss
  <1> DEFINE p == SubSeq(file, 1, n)
  <1>2. /\ p \in Seq(Lines) /\ Len(p) = n
        /\ \A i \in 1..n : p[i] = file[i]
    BY <1>1, PrefixProperties
  <1> HIDE DEF p
  <1>3. CASE file' = p
    <2>1. torn => n \in 1..n
      BY <1>1 DEF PowerLoss
    <2> QED
      BY <1>2, <1>3, <2>1 DEF CutTo
  <1>4. CASE torn /\ file' = Garbled(p, n)
    <2>1. n \in 1..Len(p)
      BY <1>1, <1>2, <1>4 DEF PowerLoss
    <2> QED
      BY <1>2, <1>4, <2>1, GarbledProperties DEF CutTo
  <1> QED
    BY <1>3, <1>4 DEF PowerLoss, p

(* What a power loss in a line of the disk leaves: that line as it was, or *)
(* with part of what ran into it.                                          *)
CutInLine ==
    /\ file' \in Seq(Lines)
    /\ synced > 0 /\ Len(file') = synced
    /\ \A i \in 1..synced-1 : file'[i] = file[i]
    /\ file'[synced] = file[synced] \/ file'[synced] \in diskTail

LEMMA PowerLossInLineEffect ==
    ASSUME TypeInv, PowerLossInLine
    PROVE  CutInLine
  <1>1. /\ file \in Seq(Lines) /\ Len(file) \in Nat
        /\ synced \in 0..Len(file) /\ diskTail \in SUBSET Lines
    BY LenProperties DEF TypeInv, TypeOK
  <1>2. PICK l \in diskTail :
           \/ file' = Append(SubSeq(file, 1, synced - 1), l)
           \/ file' = SubSeq(file, 1, synced)
    BY DEF PowerLossInLine
  <1>3. synced > 0 /\ synced - 1 \in 0..Len(file) /\ l \in Lines
    BY <1>1, <1>2 DEF TypeInv
  <1>4. CASE file' = SubSeq(file, 1, synced)
    BY <1>1, <1>3, <1>4, PrefixProperties DEF CutInLine
  <1>5. CASE file' = Append(SubSeq(file, 1, synced - 1), l)
    <2> DEFINE p == SubSeq(file, 1, synced - 1)
    <2>1. /\ p \in Seq(Lines) /\ Len(p) = synced - 1
          /\ \A i \in 1..synced-1 : p[i] = file[i]
      BY <1>1, <1>3, PrefixProperties
    <2>2. file' = Append(p, l)
      BY <1>5
    <2> HIDE DEF p
    <2>3. /\ file' \in Seq(Lines) /\ Len(file') = Len(p) + 1
          /\ \A i \in 1..Len(p) : file'[i] = p[i]
          /\ file'[Len(p) + 1] = l
      BY <1>3, <2>1, <2>2, AppendLineProperties
    <2>4. Len(p) + 1 = synced
      BY <1>1, <2>1
    <2> QED
      BY <1>2, <1>3, <2>1, <2>3, <2>4 DEF CutInLine
  <1> QED
    BY <1>2, <1>4, <1>5

LEMMA TypeInvInit == Init => TypeInv
  <1>1. Genesis \in Hashes
    BY EmptySeq DEF Genesis, Hashes
  <1>2. << >> \in Seq(Lines) /\ Len(<< >>) = 0
    BY EmptySeq
  <1>3. ASSUME Init
        PROVE  up \in BOOLEAN /\ openTail \in BOOLEAN /\ ~openTail
    BY <1>3 DEF Init
  <1>4. ASSUME Init
        PROVE  lastHash \in Hashes /\ file \in Seq(Lines) /\ prevOf \in [Events -> Hashes]
    BY <1>1, <1>2, <1>4 DEF Init
  <1>5. ASSUME Init
        PROVE  synced \in 0..Len(file) /\ state \in [Events -> WriteStates]
    <2>1. synced = 0 /\ Len(file) = 0
      BY <1>2, <1>5 DEF Init
    <2> QED
      BY <1>5, <2>1 DEF Init, WriteStates
  <1>6. ASSUME Init
        PROVE  diskTail = {}
    BY <1>6 DEF Init
  <1> QED
    BY <1>3, <1>4, <1>5, <1>6 DEF TypeInv, TypeOK

LEMMA TypeInvNext == TypeInv /\ [Next]_sinkVars => TypeInv'
  <1> SUFFICES ASSUME TypeInv, [Next]_sinkVars
               PROVE  TypeInv'
    OBVIOUS
  <1> USE DEF TypeInv, TypeOK, WriteStates
  <1>0. Len(file) \in Nat
    BY LenProperties
  <1>1. ASSUME NEW e \in Events, HashEvent(e)
        PROVE  TypeInv'
    BY <1>1, HashOfType DEF HashEvent
  <1>2. ASSUME NEW e \in Events, AppendLine(e) \/ ShortWrite(e)
        PROVE  TypeInv'
    <2>1. prevOf[e] \in Hashes
      OBVIOUS
    <2>2. PICK l \in Lines : AppendBytes(l)
      BY <1>2, <2>1, WrittenLineType DEF AppendLine, ShortWrite
    <2>3. Appended(l)
      BY <2>2, AppendBytesEffect
    <2>4. Len(file') > 0 /\ synced \in 0..Len(file')
      BY <1>0, <2>3 DEF Appended
    <2>5. /\ state' \in [Events -> WriteStates] /\ openTail' \in BOOLEAN
          /\ UNCHANGED << up, lastHash, prevOf, synced >>
      BY <1>2 DEF AppendLine, ShortWrite
    <2>6. diskTail' \in SUBSET Lines /\ (diskTail' # {} => synced > 0)
      <3>1. openTail => file[Len(file)] \in Lines
        BY <1>0, ElementOfSeq
      <3> QED
        BY <1>0, <2>3, <3>1 DEF Appended
    <2>7. file' \in Seq(Lines)
      BY <2>3 DEF Appended
    <2> QED
      BY <2>4, <2>5, <2>6, <2>7
  <1>3. ASSUME NEW e \in Events, Sync(e) \/ CloseHandle(e) \/ RejectWrite(e)
        PROVE  TypeInv'
    BY <1>0, <1>3 DEF Sync, CloseHandle, RejectWrite, InFlight
  <1>4. CASE Kill
    BY <1>4 DEF Kill, ProcessEnds, LoseInFlight
  <1>5. ASSUME NEW n \in 0..Len(file), NEW torn \in BOOLEAN, PowerLoss(n, torn)
        PROVE  TypeInv'
    <2>1. n \in Nat
      BY <1>0
    <2>2. CutTo(n, torn)
      BY <1>5, <2>1, PowerLossEffect
    <2>3. openTail' => n > 0
      BY <1>0, <1>5 DEF PowerLoss
    <2>4. openTail' \in BOOLEAN
      <3>1. openTail' = (torn \/ (openTail /\ n = Len(file)))
        BY <1>5 DEF PowerLoss
      <3> QED
        BY <3>1, Zenon
    <2>5. state' \in [Events -> WriteStates]
      BY <1>5 DEF PowerLoss, LoseInFlight
    <2>6. up' \in BOOLEAN /\ UNCHANGED << lastHash, prevOf >> /\ synced' = n
      BY <1>5 DEF PowerLoss
    <2>7. file' \in Seq(Lines) /\ Len(file') = n /\ n \in 0..n
      BY <2>1, <2>2 DEF CutTo
    <2>8. (openTail => Len(file) > 0)'
      BY <2>3, <2>7
    <2>9. diskTail' = {}
      BY <1>5 DEF PowerLoss
    <2> QED
      BY <2>4, <2>5, <2>6, <2>7, <2>8, <2>9
  <1>8. CASE PowerLossInLine
    <2>1. CutInLine
      BY <1>8, PowerLossInLineEffect
    <2>2. /\ up' \in BOOLEAN /\ state' \in [Events -> WriteStates]
          /\ UNCHANGED << lastHash, prevOf, synced >>
          /\ openTail' \in BOOLEAN /\ diskTail' = {}
      BY <1>8 DEF PowerLossInLine, LoseInFlight
    <2>3. file' \in Seq(Lines) /\ Len(file') > 0 /\ synced \in 0..Len(file')
      BY <1>0, <2>1 DEF CutInLine
    <2> QED
      BY <2>2, <2>3
  <1>6. CASE InitSink
    BY <1>6, RecoveredHashType DEF InitSink
  <1>7. CASE UNCHANGED sinkVars
    BY <1>7 DEF sinkVars
  <1> QED
    BY <1>1, <1>2, <1>3, <1>4, <1>5, <1>6, <1>7, <1>8 DEF Next, Write

(* Every variable keeps its type.                                          *)
THEOREM TypeCorrect == Spec => []TypeOK
  <1>1. TypeInv => TypeOK
    BY DEF TypeInv
  <1> QED
    BY TypeInvInit, TypeInvNext, <1>1, PTL DEF Spec

-----------------------------------------------------------------------------
(* Completeness of a file that verifies, under every fault.  The invariant *)
(* says of each event past its append that its line, or a line that does   *)
(* not parse, is within the reach the write has been assured of.           *)
HeldWithin(e, n) ==
    \E i \in 1..n : file[i] = WrittenLine(e, prevOf[e]) \/ ~file[i].whole

(* The same of the disk, where bytes may have run into its last line since.*)
HeldOnDisk(e) ==
    \A l \in diskTail :
        \/ l = WrittenLine(e, prevOf[e]) \/ ~l.whole
        \/ HeldWithin(e, synced - 1)

HeldInv ==
    \A e \in Events :
        /\ state[e] = "appended" => HeldWithin(e, Len(file))
        /\ state[e] \in {"synced", "acked"} => HeldWithin(e, synced) /\ HeldOnDisk(e)

(* A line stays, or is spoilt, when bytes are appended behind it.          *)
LEMMA AppendKeepsHeld ==
    ASSUME TypeInv, NEW l \in Lines, Appended(l), UNCHANGED << prevOf >>,
           NEW e \in Events, NEW n \in 0..Len(file), HeldWithin(e, n)
    PROVE  HeldWithin(e, n)' /\ Len(file) <= Len(file')
  <1>1. Len(file) \in Nat
    BY LenProperties DEF TypeInv, TypeOK
  <1>2. PICK i \in 1..n : file[i] = WrittenLine(e, prevOf[e]) \/ ~file[i].whole
    BY DEF HeldWithin
  <1>3. i \in 1..Len(file)
    BY <1>1
  <1>4. file'[i] = file[i] \/ ~file'[i].whole
    BY <1>1, <1>3 DEF Appended
  <1>5. Len(file) <= Len(file')
    BY <1>1 DEF Appended
  <1> QED
    BY <1>2, <1>4, <1>5 DEF HeldWithin

(* What the disk has of a line is set aside when bytes run into it.        *)
LEMMA AppendKeepsOnDisk ==
    ASSUME TypeInv, NEW l \in Lines, Appended(l), UNCHANGED << prevOf, synced >>,
           NEW e \in Events, HeldWithin(e, synced), HeldOnDisk(e)
    PROVE  HeldOnDisk(e)'
  <1>0. Len(file) \in Nat /\ synced \in 0..Len(file)
    BY LenProperties DEF TypeInv, TypeOK
  <1>1. \A i \in 1..synced-1 : file'[i] = file[i]
    BY <1>0 DEF Appended
  <1>2. HeldWithin(e, synced - 1) => HeldWithin(e, synced - 1)'
    BY <1>1 DEF HeldWithin
  <1>3. CASE diskTail' = diskTail
    BY <1>2, <1>3 DEF HeldOnDisk
  <1>4. CASE openTail /\ synced = Len(file) /\ diskTail' = {file[synced]}
    <2>1. PICK i \in 1..synced : file[i] = WrittenLine(e, prevOf[e]) \/ ~file[i].whole
      BY DEF HeldWithin
    <2>2. CASE i = synced
      BY <1>4, <2>1, <2>2 DEF HeldOnDisk
    <2>3. CASE i # synced
      <3>1. i \in 1..synced-1
        BY <1>0, <2>3
      <3>2. HeldWithin(e, synced - 1)
        BY <2>1, <3>1 DEF HeldWithin
      <3> QED
        BY <1>2, <3>2 DEF HeldOnDisk
    <2> QED
      BY <2>2, <2>3
  <1> QED
    BY <1>3, <1>4 DEF Appended

LEMMA HeldInvNext == TypeInv /\ HeldInv /\ [Next]_sinkVars => HeldInv'
  <1> SUFFICES ASSUME TypeInv, HeldInv, [Next]_sinkVars
               PROVE  HeldInv'
    OBVIOUS
  <1> USE DEF TypeInv, TypeOK, WriteStates
  <1>0. Len(file) \in Nat /\ synced \in 0..Len(file)
    BY LenProperties
  <1>1. ASSUME NEW e \in Events, HashEvent(e)
        PROVE  HeldInv'
    <2>1. /\ state[e] = "new" /\ state' = [state EXCEPT ![e] = "hashed"]
          /\ prevOf' = [prevOf EXCEPT ![e] = lastHash]
          /\ UNCHANGED << file, synced, diskTail >>
      BY <1>1 DEF HashEvent
    <2>2. \A d \in Events : state'[d] \in {"appended", "synced", "acked"} =>
             state[d] = state'[d] /\ prevOf'[d] = prevOf[d]
      BY <2>1
    <2>3. ASSUME NEW d \in Events, state'[d] = "appended"
          PROVE  HeldWithin(d, Len(file))'
      BY <2>1, <2>2, <2>3 DEF HeldInv, HeldWithin
    <2>4. ASSUME NEW d \in Events, state'[d] \in {"synced", "acked"}
          PROVE  HeldWithin(d, synced)' /\ HeldOnDisk(d)'
      <3>1. HeldWithin(d, synced) /\ HeldOnDisk(d) /\ prevOf'[d] = prevOf[d]
        BY <2>2, <2>4 DEF HeldInv
      <3> QED
        BY <2>1, <3>1 DEF HeldOnDisk, HeldWithin
    <2> QED
      BY <2>3, <2>4 DEF HeldInv
  <1>2. ASSUME NEW e \in Events, AppendLine(e) \/ ShortWrite(e)
        PROVE  HeldInv'
    <2>1. PICK l \in Lines :
             /\ AppendBytes(l)
             /\ l = WrittenLine(e, prevOf[e]) \/ ~l.whole
      <3>1. prevOf[e] \in Hashes
        OBVIOUS
      <3>2. ~TornLine(e, prevOf[e]).whole
        BY DEF TornLine
      <3> QED
        BY <1>2, <3>1, <3>2, WrittenLineType DEF AppendLine, ShortWrite
    <2>2. Appended(l)
      BY <2>1, AppendBytesEffect
    <2>3. /\ state' = [state EXCEPT ![e] = "appended"]
          /\ UNCHANGED << prevOf, synced >>
      BY <1>2 DEF AppendLine, ShortWrite
    <2>4. HeldWithin(e, Len(file))'
      <3>1. CASE openTail
        <4>1. Len(file') = Len(file) /\ Len(file) > 0 /\ ~file'[Len(file)].whole
          BY <2>2, <3>1 DEF Appended
        <4> QED
          BY <1>0, <4>1 DEF HeldWithin
      <3>2. CASE ~openTail
        <4>1. Len(file') = Len(file) + 1 /\ file'[Len(file)+1] = l
          BY <2>2, <3>2 DEF Appended
        <4>2. Len(file)+1 \in 1..Len(file')
          BY <1>0, <4>1
        <4>3. file'[Len(file)+1] = WrittenLine(e, prevOf'[e]) \/ ~file'[Len(file)+1].whole
          BY <2>1, <2>3, <4>1
        <4> QED
          BY <4>2, <4>3 DEF HeldWithin
      <3> QED
        BY <3>1, <3>2
    <2>5. ASSUME NEW d \in Events, d # e, state[d] = "appended"
          PROVE  HeldWithin(d, Len(file))'
      <3>1. HeldWithin(d, Len(file))
        BY <2>5 DEF HeldInv
      <3>2. Len(file) \in 0..Len(file)
        BY <1>0
      <3>3. \E i \in 1..Len(file) :
               file'[i] = WrittenLine(d, prevOf'[d]) \/ ~file'[i].whole
        BY <2>2, <2>3, <3>1, <3>2, AppendKeepsHeld DEF HeldWithin
      <3>4. Len(file) <= Len(file') /\ Len(file') \in Nat
        BY <1>0, <2>2 DEF Appended
      <3> QED
        BY <1>0, <3>3, <3>4 DEF HeldWithin
    <2>6. ASSUME NEW d \in Events, state[d] \in {"synced", "acked"}
          PROVE  HeldWithin(d, synced)' /\ HeldOnDisk(d)'
      <3>1. HeldWithin(d, synced) /\ HeldOnDisk(d)
        BY <2>6 DEF HeldInv
      <3>2. \E i \in 1..synced :
               file'[i] = WrittenLine(d, prevOf'[d]) \/ ~file'[i].whole
        BY <1>0, <2>2, <2>3, <3>1, AppendKeepsHeld DEF HeldWithin
      <3>3. HeldOnDisk(d)'
        BY <2>2, <2>3, <3>1, AppendKeepsOnDisk
      <3> QED
        BY <2>3, <3>2, <3>3 DEF HeldWithin
    <2> QED
      BY <2>3, <2>4, <2>5, <2>6 DEF HeldInv
  <1>3. ASSUME NEW e \in Events, Sync(e)
        PROVE  HeldInv'
    <2>1. /\ UNCHANGED << prevOf, file >> /\ synced' = Len(file)
          /\ state[e] = "appended" /\ state' = [state EXCEPT ![e] = "synced"]
      BY <1>3 DEF Sync
    <2>2. \A d \in Events : HeldWithin(d, synced) => HeldWithin(d, synced)'
      BY <1>0, <2>1 DEF HeldWithin
    <2>3. \A d \in Events : HeldWithin(d, Len(file)) => HeldWithin(d, Len(file))'
      BY <2>1 DEF HeldWithin
    <2>4. HeldWithin(e, Len(file)) => HeldWithin(e, synced)'
      BY <2>1 DEF HeldWithin
    <2>5. \A d \in Events : HeldOnDisk(d)'
      BY <1>3 DEF Sync, HeldOnDisk
    <2> QED
      BY <2>1, <2>2, <2>3, <2>4, <2>5 DEF HeldInv
  <1>4. ASSUME NEW e \in Events, CloseHandle(e) \/ RejectWrite(e)
        PROVE  HeldInv'
    <2>1. /\ UNCHANGED << prevOf, file, synced, diskTail >>
          /\ \A d \in Events : state'[d] = "appended" => state[d] = "appended"
          /\ \A d \in Events : state'[d] \in {"synced", "acked"} => state[d] \in {"synced", "acked"}
      BY <1>4 DEF CloseHandle, RejectWrite
    <2>2. \A d \in Events : /\ HeldWithin(d, Len(file)) => HeldWithin(d, Len(file))'
                            /\ HeldWithin(d, synced) => HeldWithin(d, synced)'
                            /\ HeldOnDisk(d) => HeldOnDisk(d)'
      BY <2>1 DEF HeldWithin, HeldOnDisk
    <2> QED
      BY <2>1, <2>2 DEF HeldInv
  <1>5. CASE Kill
    BY <1>5 DEF Kill, ProcessEnds, LoseInFlight, InFlight, HeldInv, HeldWithin, HeldOnDisk
  <1>6. ASSUME NEW n \in 0..Len(file), NEW torn \in BOOLEAN, PowerLoss(n, torn)
        PROVE  HeldInv'
    <2>1. CutTo(n, torn)
      BY <1>0, <1>6, PowerLossEffect
    <2>2. /\ synced <= n /\ n \in Nat /\ synced' = n /\ UNCHANGED prevOf
          /\ \A d \in Events : state'[d] # "appended"
          /\ \A d \in Events : state'[d] \in {"synced", "acked"} => state[d] = "acked"
      BY <1>0, <1>6 DEF PowerLoss, LoseInFlight, InFlight
    <2>3. \A d \in Events : HeldWithin(d, synced) => HeldWithin(d, synced)'
      BY <1>0, <2>1, <2>2 DEF HeldWithin, CutTo
    <2>4. \A d \in Events : HeldOnDisk(d)'
      BY <1>6 DEF PowerLoss, HeldOnDisk
    <2> QED
      BY <2>2, <2>3, <2>4 DEF HeldInv
  <1>7. CASE InitSink \/ UNCHANGED sinkVars
    BY <1>7 DEF InitSink, sinkVars, HeldInv, HeldWithin, HeldOnDisk
  <1>8. CASE PowerLossInLine
    <2>1. CutInLine
      BY <1>8, PowerLossInLineEffect
    <2>2. /\ UNCHANGED << prevOf, synced >> /\ diskTail' = {}
          /\ \A d \in Events : state'[d] # "appended"
          /\ \A d \in Events : state'[d] \in {"synced", "acked"} => state[d] = "acked"
      BY <1>8 DEF PowerLossInLine, LoseInFlight, InFlight
    <2>3. ASSUME NEW d \in Events, state[d] = "acked"
          PROVE  HeldWithin(d, synced)'
      <3>1. HeldWithin(d, synced) /\ HeldOnDisk(d)
        BY <2>3 DEF HeldInv
      <3>2. CASE HeldWithin(d, synced - 1)
        <4>1. PICK i \in 1..synced-1 : file[i] = WrittenLine(d, prevOf[d]) \/ ~file[i].whole
          BY <3>2 DEF HeldWithin
        <4>2. file'[i] = file[i] /\ i \in 1..synced
          BY <1>0, <2>1 DEF CutInLine
        <4> QED
          BY <2>2, <4>1, <4>2 DEF HeldWithin
      <3>3. CASE file'[synced] = file[synced] /\ ~HeldWithin(d, synced - 1)
        <4>1. PICK i \in 1..synced : file[i] = WrittenLine(d, prevOf[d]) \/ ~file[i].whole
          BY <3>1 DEF HeldWithin
        <4>2. i = synced
          <5>1. i \notin 1..synced-1
            BY <3>3, <4>1 DEF HeldWithin
          <5> QED
            BY <1>0, <5>1
        <4> QED
          BY <2>2, <3>3, <4>1, <4>2 DEF HeldWithin
      <3>4. CASE file'[synced] \in diskTail /\ ~HeldWithin(d, synced - 1)
        <4>1. file'[synced] = WrittenLine(d, prevOf[d]) \/ ~file'[synced].whole
          BY <3>1, <3>4 DEF HeldOnDisk
        <4>2. synced \in 1..synced
          BY <1>0, <2>1 DEF CutInLine
        <4> QED
          BY <2>2, <4>1, <4>2 DEF HeldWithin
      <3> QED
        BY <2>1, <3>2, <3>3, <3>4 DEF CutInLine
    <2>4. \A d \in Events : HeldOnDisk(d)'
      BY <2>2 DEF HeldOnDisk
    <2> QED
      BY <2>2, <2>3, <2>4 DEF HeldInv
  <1> QED
    BY <1>1, <1>2, <1>3, <1>4, <1>5, <1>6, <1>7, <1>8 DEF Next, Write

LEMMA HeldInvImplies == TypeInv /\ HeldInv => VerifiedIsComplete
  <1> SUFFICES ASSUME TypeInv, HeldInv, VerifyAuditChain(file),
                      NEW e \in Events, state[e] = "acked"
               PROVE  OnDisk(e)
    BY DEF VerifiedIsComplete
  <1>1. PICK i \in 1..synced : file[i] = WrittenLine(e, prevOf[e]) \/ ~file[i].whole
    BY DEF HeldInv, HeldWithin
  <1>2. i \in 1..Len(file)
    BY LenProperties DEF TypeInv, TypeOK
  <1>3. file[i].whole
    BY <1>2 DEF VerifyAuditChain, LineVerifies
  <1> QED
    BY <1>1, <1>3 DEF OnDisk

(* Whatever faults happen, a file that verifies holds the line of every    *)
(* write() that resolved: logger.ts loses no acknowledged event silently.  *)
THEOREM VerifiedCompleteness == Spec => []VerifiedIsComplete
  <1>1. Init => HeldInv
    BY DEF Init, HeldInv
  <1> QED
    BY <1>1, TypeInvInit, TypeInvNext, HeldInvNext, HeldInvImplies, PTL DEF Spec

-----------------------------------------------------------------------------
(* Durability, when no line is ever cut in the middle.                     *)
NoTearing == Faults \cap {"tornTail", "shortWrite"} = {}

NoScar ==
    /\ ~openTail /\ diskTail = {}
    /\ \A i \in 1..Len(file) : file[i].whole

LEMMA NoScarNext ==
    ASSUME NoTearing
    PROVE  TypeInv /\ NoScar /\ [Next]_sinkVars => NoScar'
  <1> SUFFICES ASSUME TypeInv, NoScar, [Next]_sinkVars
               PROVE  NoScar'
    OBVIOUS
  <1>0. Len(file) \in Nat
    BY LenProperties DEF TypeInv, TypeOK
  <1>1. ASSUME NEW e \in Events, AppendLine(e)
        PROVE  NoScar'
    <2> DEFINE l == WrittenLine(e, prevOf[e])
    <2>1. l \in Lines
      BY WrittenLineType DEF TypeInv, TypeOK
    <2>2. Appended(l) /\ openTail' = FALSE
      BY <1>1, <2>1, AppendBytesEffect DEF AppendLine
    <2>3. l.whole
      BY DEF WrittenLine
    <2>4. /\ Len(file') = Len(file) + 1 /\ file'[Len(file)+1].whole
          /\ \A i \in 1..Len(file) : file'[i] = file[i]
      BY <2>2, <2>3 DEF Appended, NoScar
    <2>5. \A i \in 1..Len(file') : file'[i].whole
      BY <1>0, <2>4 DEF NoScar
    <2> QED
      BY <2>2, <2>5 DEF Appended, NoScar
  <1>2. ASSUME NEW e \in Events, ShortWrite(e)
        PROVE  FALSE
    BY <1>2 DEF ShortWrite, NoTearing
  <1>3. ASSUME NEW n \in 0..Len(file), NEW torn \in BOOLEAN, PowerLoss(n, torn)
        PROVE  NoScar'
    <2>1. ~torn
      BY <1>3 DEF PowerLoss, NoTearing
    <2>2. CutTo(n, torn) /\ n \in Nat
      BY <1>0, <1>3, PowerLossEffect
    <2>3. \A i \in 1..Len(file') : file'[i].whole
      BY <1>0, <2>1, <2>2 DEF CutTo, NoScar
    <2>4. ~openTail'
      BY <1>3, <2>1 DEF PowerLoss, NoScar
    <2>5. diskTail' = {}
      BY <1>3 DEF PowerLoss
    <2> QED
      BY <2>3, <2>4, <2>5 DEF NoScar
  <1>4. ASSUME UNCHANGED << file, openTail >>, diskTail' = diskTail \/ diskTail' = {}
        PROVE  NoScar'
    BY <1>4 DEF NoScar
  <1>5. CASE PowerLossInLine
    BY <1>5 DEF PowerLossInLine, NoScar
  <1> QED
    BY <1>1, <1>2, <1>3, <1>4, <1>5
    DEF Next, Write, HashEvent, Sync, CloseHandle, RejectWrite,
        Kill, ProcessEnds, InitSink, sinkVars

LEMMA NoScarImplies == TypeInv /\ NoScar /\ HeldInv => AckedDurable
  <1> SUFFICES ASSUME TypeInv, NoScar, HeldInv, NEW e \in Events, state[e] = "acked"
               PROVE  OnDisk(e)
    BY DEF AckedDurable
  <1>1. PICK i \in 1..synced : file[i] = WrittenLine(e, prevOf[e]) \/ ~file[i].whole
    BY DEF HeldInv, HeldWithin
  <1>2. i \in 1..Len(file)
    BY LenProperties DEF TypeInv, TypeOK
  <1> QED
    BY <1>1, <1>2 DEF NoScar, OnDisk

LEMMA UntornInvariant ==
    ASSUME NoTearing
    PROVE  Spec => [](TypeInv /\ NoScar /\ HeldInv)
  <1>1. Init => HeldInv
    BY DEF Init, HeldInv
  <1>2. Init => NoScar
    BY DEF Init, NoScar
  <1>3. TypeInv /\ NoScar /\ [Next]_sinkVars => NoScar'
    BY NoScarNext
  <1> QED
    BY <1>1, <1>2, <1>3, TypeInvInit, TypeInvNext, HeldInvNext, PTL DEF Spec

(* Kills, power losses at a line's end and rejected calls take no          *)
(* acknowledged event from the disk, with any number of writes in flight.  *)
THEOREM Durability ==
    ASSUME NoTearing
    PROVE  Spec => []AckedDurable
  <1>1. Spec => [](TypeInv /\ NoScar /\ HeldInv)
    BY UntornInvariant
  <1> QED
    BY <1>1, NoScarImplies, PTL

(* The line of a write that was synced, by this write or another, is there *)
(* to stay, acknowledged or not.                                           *)
LEMMA OnDiskKept ==
    ASSUME NoTearing, TypeInv, NoScar, [Next]_sinkVars,
           NEW e \in Events, state[e] # "new", OnDisk(e)
    PROVE  OnDisk(e)'
  <1>0. Len(file) \in Nat /\ synced \in 0..Len(file) /\ prevOf \in [Events -> Hashes]
    BY LenProperties DEF TypeInv, TypeOK
  <1>1. PICK i \in 1..synced : file[i] = WrittenLine(e, prevOf[e])
    BY DEF OnDisk
  <1>2. ASSUME file'[i] = file[i], i <= synced', synced' \in Nat, prevOf'[e] = prevOf[e]
        PROVE  OnDisk(e)'
    <2>1. i \in 1..synced'
      BY <1>0, <1>2
    <2>2. file'[i] = WrittenLine(e, prevOf'[e])
      BY <1>1, <1>2
    <2> QED
      BY <2>1, <2>2 DEF OnDisk, WrittenLine, HashOf
  <1>3. ASSUME NEW d \in Events, HashEvent(d)
        PROVE  OnDisk(e)'
    <2>1. prevOf'[e] = prevOf[e] /\ UNCHANGED << file, synced >>
      BY <1>0, <1>3 DEF HashEvent
    <2> QED
      BY <1>0, <1>2, <2>1
  <1>4. ASSUME NEW d \in Events, AppendLine(d)
        PROVE  OnDisk(e)'
    <2>1. WrittenLine(d, prevOf[d]) \in Lines
      BY <1>0, WrittenLineType
    <2>2. file' = Append(file, WrittenLine(d, prevOf[d])) /\ UNCHANGED << prevOf, synced >>
      BY <1>4 DEF AppendLine, AppendBytes, NoScar
    <2>3. file \in Seq(Lines) /\ i \in 1..Len(file)
      BY <1>0 DEF TypeInv, TypeOK
    <2>4. file'[i] = file[i]
      BY <2>1, <2>2, <2>3, AppendLineProperties
    <2> QED
      BY <1>0, <1>2, <2>2, <2>4
  <1>5. ASSUME NEW d \in Events, ShortWrite(d)
        PROVE  FALSE
    BY <1>5 DEF ShortWrite, NoTearing
  <1>6. ASSUME NEW n \in 0..Len(file), NEW torn \in BOOLEAN, PowerLoss(n, torn)
        PROVE  OnDisk(e)'
    <2>1. ~torn /\ n \in Nat /\ i \in 1..n
      BY <1>0, <1>6 DEF PowerLoss, NoTearing
    <2>2. CutTo(n, torn)
      BY <1>6, <2>1, PowerLossEffect
    <2>3. file'[i] = file[i] /\ synced' = n /\ UNCHANGED prevOf
      BY <1>6, <2>1, <2>2 DEF CutTo, PowerLoss
    <2> QED
      BY <1>2, <2>1, <2>3
  <1>7. ASSUME NEW d \in Events, Sync(d)
        PROVE  OnDisk(e)'
    BY <1>0, <1>2, <1>7 DEF Sync
  <1>8. ASSUME UNCHANGED << prevOf, file, synced >>
        PROVE  OnDisk(e)'
    BY <1>0, <1>2, <1>8
  <1>9. CASE PowerLossInLine
    BY <1>9 DEF PowerLossInLine, NoScar
  <1> QED
    BY <1>3, <1>4, <1>5, <1>6, <1>7, <1>8, <1>9
    DEF Next, Write, CloseHandle, RejectWrite, Kill, ProcessEnds, InitSink, sinkVars

-----------------------------------------------------------------------------
(* The chain verifies when writes come one at a time and fail only with    *)
(* the process.  The tip of the chain is either what a new process would   *)
(* recover, or one event ahead of it.                                      *)
OneAtATime == Serialized /\ Faults \subseteq {"kill", "powerLoss"}

TipInv ==
    /\ \A e, d \in InFlight : e = d
    /\ ~up => InFlight = {}
    /\ up => \A e \in Events : state[e] = "hashed" =>
          prevOf[e] = RecoveredHash(file) /\ lastHash = HashOf(prevOf[e], e)
    /\ up /\ (\A e \in Events : state[e] # "hashed") =>
          lastHash = RecoveredHash(file)

ChainInv == NoScar /\ ChainVerifies /\ TipInv

(* In a file without scars the recovered hash is the one the next line     *)
(* must name.                                                              *)
LEMMA RecoveredIsExpected ==
    ASSUME NEW lines \in Seq(Lines), \A i \in 1..Len(lines) : lines[i].whole
    PROVE  RecoveredHash(lines) = ExpectedPrevHash(lines, Len(lines) + 1)
  <1>1. Len(lines) \in Nat
    BY LenProperties
  <1>2. CASE lines = << >>
    BY <1>2, EmptySeq DEF RecoveredHash, ExpectedPrevHash
  <1>3. CASE lines # << >>
    <2>1. Len(lines) # 0
      BY <1>1, <1>3, EmptySeq
    <2>2. lines[Len(lines)].whole
      BY <1>1, <2>1
    <2> QED
      BY <1>1, <1>3, <2>1, <2>2 DEF RecoveredHash, ExpectedPrevHash
  <1> QED
    BY <1>2, <1>3

(* Adding the line that continues the tip keeps the file verified.         *)
LEMMA VerifiedGrows ==
    ASSUME NEW old \in Seq(Lines), NEW new \in Seq(Lines),
           VerifyAuditChain(old), Len(new) = Len(old) + 1,
           \A i \in 1..Len(old) : new[i] = old[i],
           NEW e \in Events,
           new[Len(old)+1] = WrittenLine(e, ExpectedPrevHash(old, Len(old) + 1))
    PROVE  VerifyAuditChain(new) /\ RecoveredHash(new) = new[Len(old)+1].hash
  <1>1. Len(old) \in Nat
    BY LenProperties
  <1>2. ASSUME NEW i \in 1..Len(new)
        PROVE  LineVerifies(new, i)
    <2>1. ExpectedPrevHash(new, i) = ExpectedPrevHash(old, i)
      BY <1>1, <1>2 DEF ExpectedPrevHash
    <2>2. CASE i \in 1..Len(old)
      BY <2>1, <2>2 DEF VerifyAuditChain, LineVerifies
    <2>3. CASE i = Len(old) + 1
      BY <2>1, <2>3 DEF LineVerifies, WrittenLine
    <2> QED
      BY <1>1, <2>2, <2>3
  <1>3. new # << >> /\ new[Len(new)].whole
    BY <1>1, EmptySeq DEF WrittenLine
  <1> QED
    BY <1>2, <1>3 DEF VerifyAuditChain, RecoveredHash

(* A prefix of a verified file verifies.                                   *)
LEMMA VerifiedShrinks ==
    ASSUME NEW old \in Seq(Lines), NEW n \in 0..Len(old), NEW new \in Seq(Lines),
           VerifyAuditChain(old), Len(new) = n, \A i \in 1..n : new[i] = old[i]
    PROVE  VerifyAuditChain(new)
  <1>1. Len(old) \in Nat
    BY LenProperties
  <1> SUFFICES ASSUME NEW i \in 1..n
               PROVE  LineVerifies(new, i)
    BY DEF VerifyAuditChain
  <1>2. ExpectedPrevHash(new, i) = ExpectedPrevHash(old, i)
    BY <1>1 DEF ExpectedPrevHash
  <1> QED
    BY <1>1, <1>2 DEF VerifyAuditChain, LineVerifies

LEMMA ChainInvNext ==
    ASSUME OneAtATime
    PROVE  TypeInv /\ ChainInv /\ [Next]_sinkVars => ChainInv'
  <1> SUFFICES ASSUME TypeInv, ChainInv, [Next]_sinkVars
               PROVE  ChainInv'
    OBVIOUS
  <1> USE DEF TypeInv, TypeOK, WriteStates
  <1>0. Len(file) \in Nat
    BY LenProperties
  <1>n. NoScar'
    BY NoScarNext DEF OneAtATime, NoTearing, ChainInv
  <1>1. ASSUME NEW e \in Events, HashEvent(e)
        PROVE  ChainInv'
    <2>1. InFlight = {} /\ InFlight' = {e}
      BY <1>1 DEF HashEvent, OneAtATime, InFlight
    <2>2. ChainVerifies'
      BY <1>1 DEF HashEvent, ChainInv, ChainVerifies
    <2>3. lastHash = RecoveredHash(file)
      BY <1>1, <2>1 DEF HashEvent, ChainInv, TipInv, InFlight
    <2>4. prevOf'[e] = RecoveredHash(file') /\ lastHash' = HashOf(prevOf'[e], e)
      BY <1>1, <2>3 DEF HashEvent
    <2>5. \A d \in Events : state'[d] = "hashed" => d = e
      BY <2>1 DEF InFlight
    <2>6. state'[e] = "hashed" /\ up'
      BY <1>1 DEF HashEvent
    <2>7. TipInv'
      BY <2>1, <2>4, <2>5, <2>6 DEF TipInv
    <2> QED
      BY <1>n, <2>2, <2>7 DEF ChainInv
  <1>2. ASSUME NEW e \in Events, AppendLine(e)
        PROVE  ChainInv'
    <2> DEFINE l == WrittenLine(e, prevOf[e])
    <2>1. l \in Lines /\ l.hash = HashOf(prevOf[e], e)
      BY WrittenLineType DEF WrittenLine
    <2>2. Appended(l)
      BY <1>2, <2>1, AppendBytesEffect DEF AppendLine
    <2>3. /\ up /\ up' = up /\ state[e] = "hashed" /\ state' = [state EXCEPT ![e] = "appended"]
          /\ lastHash' = lastHash
      BY <1>2 DEF AppendLine
    <2>4. /\ prevOf[e] = ExpectedPrevHash(file, Len(file)+1)
          /\ lastHash = HashOf(prevOf[e], e)
      BY <2>3, RecoveredIsExpected DEF ChainInv, NoScar, TipInv
    <2>5. /\ file' \in Seq(Lines) /\ Len(file') = Len(file) + 1
          /\ \A i \in 1..Len(file) : file'[i] = file[i]
          /\ file'[Len(file)+1] = l
      BY <2>2 DEF Appended, ChainInv, NoScar
    <2>6. VerifyAuditChain(file') /\ RecoveredHash(file') = file'[Len(file)+1].hash
      BY <2>4, <2>5, VerifiedGrows DEF ChainInv, ChainVerifies
    <2>7. InFlight' \subseteq InFlight
      BY <2>3 DEF InFlight
    <2>8. \A d \in Events : state'[d] # "hashed"
      BY <2>3 DEF ChainInv, TipInv, InFlight
    <2>9. TipInv'
      BY <2>1, <2>3, <2>4, <2>5, <2>6, <2>7, <2>8 DEF ChainInv, TipInv
    <2> QED
      BY <1>n, <2>6, <2>9 DEF ChainInv, ChainVerifies
  <1>3. ASSUME NEW e \in Events, Sync(e) \/ CloseHandle(e)
        PROVE  ChainInv'
    <2>1. /\ state' = [state EXCEPT ![e] = state'[e]]
          /\ state[e] \in {"appended", "synced"} /\ state'[e] # "hashed"
          /\ UNCHANGED << up, lastHash, prevOf, file >>
      BY <1>3 DEF Sync, CloseHandle
    <2>2. /\ InFlight' \subseteq InFlight
          /\ \A d \in Events : state'[d] = "hashed" <=> state[d] = "hashed"
      BY <2>1 DEF InFlight
    <2> QED
      BY <1>n, <2>1, <2>2 DEF ChainInv, ChainVerifies, TipInv
  <1>4. ASSUME NEW e \in Events,
               ShortWrite(e) \/ RejectWrite(e)
        PROVE  FALSE
    BY <1>4 DEF ShortWrite, RejectWrite, OneAtATime
  <1>5. CASE Kill
    BY <1>n, <1>5 DEF Kill, ProcessEnds, LoseInFlight, InFlight, ChainInv, ChainVerifies, TipInv
  <1>6. ASSUME NEW n \in 0..Len(file), NEW torn \in BOOLEAN, PowerLoss(n, torn)
        PROVE  ChainInv'
    <2>1. ~torn
      BY <1>6 DEF PowerLoss, OneAtATime
    <2>2. CutTo(n, torn)
      BY <1>0, <1>6, PowerLossEffect
    <2>3. VerifyAuditChain(file')
      BY <2>1, <2>2, VerifiedShrinks DEF CutTo, ChainInv, ChainVerifies
    <2>4. TipInv'
      BY <1>6 DEF PowerLoss, LoseInFlight, InFlight, TipInv
    <2> QED
      BY <1>n, <2>3, <2>4 DEF ChainInv, ChainVerifies
  <1>7. CASE InitSink
    <2>1. lastHash' = RecoveredHash(file') /\ UNCHANGED << state, prevOf, file >> /\ ~up
      BY <1>7 DEF InitSink
    <2> QED
      BY <1>n, <2>1 DEF ChainInv, ChainVerifies, TipInv, InFlight
  <1>8. CASE UNCHANGED sinkVars
    BY <1>n, <1>8 DEF sinkVars, ChainInv, ChainVerifies, TipInv, InFlight
  <1>9. CASE PowerLossInLine
    BY <1>9 DEF PowerLossInLine, ChainInv, NoScar
  <1> QED
    BY <1>1, <1>2, <1>3, <1>4, <1>5, <1>6, <1>7, <1>8, <1>9 DEF Next, Write

(* With one write at a time, across kills, power losses and restarts, the  *)
(* file always passes verifyAuditChain.                                    *)
THEOREM ChainVerified ==
    ASSUME OneAtATime
    PROVE  Spec => []ChainVerifies
  <1>1. Init => ChainInv
    BY EmptySeq DEF Init, ChainInv, NoScar, ChainVerifies, VerifyAuditChain, TipInv,
                    InFlight, RecoveredHash
  <1>2. TypeInv /\ ChainInv /\ [Next]_sinkVars => ChainInv'
    BY ChainInvNext
  <1>3. ChainInv => ChainVerifies
    BY DEF ChainInv
  <1> QED
    BY <1>1, <1>2, <1>3, TypeInvInit, TypeInvNext, PTL DEF Spec

-----------------------------------------------------------------------------
(* No fork within one life of the process.  Each hashed event took a       *)
(* shorter chain than the tip has now, and no two took the same one.       *)
OneLife == Faults \subseteq {"failedCall", "shortWrite"}

Hashed(e) == state[e] # "new"

ForkInv ==
    /\ up
    /\ \A e \in Events : Hashed(e) => Len(prevOf[e]) < Len(lastHash)
    /\ \A e, d \in Events : Hashed(e) /\ Hashed(d) /\ prevOf[e] = prevOf[d] => e = d
    /\ \A i \in 1..Len(file) :
          /\ state[file[i].event] \notin {"new", "hashed"}
          /\ file[i].prev = prevOf[file[i].event]
    /\ \A i, j \in 1..Len(file) : file[i].event = file[j].event => i = j

LEMMA ForkInvNext ==
    ASSUME OneLife
    PROVE  TypeInv /\ ForkInv /\ [Next]_sinkVars => ForkInv'
  <1> SUFFICES ASSUME TypeInv, ForkInv, [Next]_sinkVars
               PROVE  ForkInv'
    OBVIOUS
  <1> USE DEF TypeInv, TypeOK, WriteStates
  <1>0. /\ Len(file) \in Nat /\ Len(lastHash) \in Nat
        /\ \A e \in Events : Len(prevOf[e]) \in Nat
        /\ \A i \in 1..Len(file) : file[i].event \in Events
    <2>1. \A h \in Hashes : Len(h) \in Nat
      BY LenProperties DEF Hashes
    <2>2. \A i \in 1..Len(file) : file[i] \in Lines
      BY ElementOfSeq
    <2> QED
      BY <2>1, <2>2, LenProperties DEF Lines
  <1>1. ASSUME NEW e \in Events, HashEvent(e)
        PROVE  ForkInv'
    <2>1. /\ state[e] = "new" /\ state' = [state EXCEPT ![e] = "hashed"]
          /\ prevOf' = [prevOf EXCEPT ![e] = lastHash]
          /\ file' = file /\ up' = up
          /\ Len(lastHash') = Len(lastHash) + 1
      BY <1>1, HashOfType DEF HashEvent
    <2>2. \A d \in Events : Hashed(d)' => d = e \/ (Hashed(d) /\ prevOf'[d] = prevOf[d])
      BY <2>1 DEF Hashed
    <2>3. prevOf'[e] = lastHash
      BY <2>1
    <2>4. \A d \in Events : Hashed(d) => Len(prevOf[d]) < Len(lastHash)
      BY DEF ForkInv
    <2>5. \A i \in 1..Len(file) : file[i].event # e
      BY <2>1 DEF ForkInv
    <2>6. (\A d \in Events : Hashed(d) => Len(prevOf[d]) < Len(lastHash))'
      BY <1>0, <2>1, <2>2, <2>3, <2>4
    <2>7. (\A c, d \in Events : Hashed(c) /\ Hashed(d) /\ prevOf[c] = prevOf[d] => c = d)'
      <3> SUFFICES ASSUME NEW c \in Events, NEW d \in Events,
                          Hashed(c)', Hashed(d)', prevOf'[c] = prevOf'[d]
                   PROVE  c = d
        OBVIOUS
      <3>1. CASE c # e /\ d # e
        BY <2>2, <3>1 DEF ForkInv
      <3>2. CASE c = e /\ d # e
        BY <1>0, <2>2, <2>3, <2>4, <3>2
      <3>3. CASE c # e /\ d = e
        BY <1>0, <2>2, <2>3, <2>4, <3>3
      <3> QED
        BY <3>1, <3>2, <3>3
    <2>8. \A i \in 1..Len(file) :
             /\ state'[file[i].event] = state[file[i].event]
             /\ prevOf'[file[i].event] = prevOf[file[i].event]
      BY <1>0, <2>1, <2>5
    <2> QED
      BY <2>1, <2>6, <2>7, <2>8 DEF ForkInv
  <1>2. ASSUME NEW e \in Events, AppendLine(e) \/ ShortWrite(e)
        PROVE  ForkInv'
    <2>1. /\ state[e] = "hashed" /\ state' = [state EXCEPT ![e] = "appended"]
          /\ UNCHANGED << up, lastHash, prevOf >>
      BY <1>2 DEF AppendLine, ShortWrite
    <2>2. PICK l \in Lines : AppendBytes(l) /\ l.event = e /\ l.prev = prevOf[e]
      BY <1>2, WrittenLineType DEF AppendLine, ShortWrite, WrittenLine, TornLine
    <2>3. Appended(l)
      BY <2>2, AppendBytesEffect
    <2>4. \A i \in 1..Len(file) : file[i].event # e
      BY <2>1 DEF ForkInv
    <2>5. \A i \in 1..Len(file) :
             file'[i].event = file[i].event /\ file'[i].prev = file[i].prev
      BY <1>0, <2>3 DEF Appended
    <2>6. \A i \in 1..Len(file') :
             i \in 1..Len(file) \/ (i = Len(file)+1 /\ file'[i] = l)
      BY <1>0, <2>3 DEF Appended
    <2>7. \A d \in Events : Hashed(d)' <=> Hashed(d)
      BY <2>1 DEF Hashed
    <2>8. \A i \in 1..Len(file') :
             /\ state'[file'[i].event] \notin {"new", "hashed"}
             /\ file'[i].prev = prevOf[file'[i].event]
      <3> SUFFICES ASSUME NEW i \in 1..Len(file')
                   PROVE  /\ state'[file'[i].event] \notin {"new", "hashed"}
                          /\ file'[i].prev = prevOf[file'[i].event]
        OBVIOUS
      <3>1. CASE i \in 1..Len(file)
        BY <1>0, <2>1, <2>4, <2>5, <3>1 DEF ForkInv
      <3>2. CASE i = Len(file)+1 /\ file'[i] = l
        BY <2>1, <2>2, <3>2
      <3> QED
        BY <2>6, <3>1, <3>2
    <2>9. \A i, j \in 1..Len(file') : file'[i].event = file'[j].event => i = j
      BY <2>2, <2>4, <2>5, <2>6 DEF ForkInv
    <2> QED
      BY <2>1, <2>7, <2>8, <2>9 DEF ForkInv
  <1>3. ASSUME NEW e \in Events, Sync(e) \/ CloseHandle(e) \/ RejectWrite(e)
        PROVE  ForkInv'
    <2>1. /\ UNCHANGED << up, lastHash, prevOf, file >>
          /\ state[e] # "new" /\ state'[e] \notin {"new", "hashed"}
          /\ state' = [state EXCEPT ![e] = state'[e]]
      BY <1>3 DEF Sync, CloseHandle, RejectWrite, InFlight
    <2>2. \A d \in Events : Hashed(d)' <=> Hashed(d)
      BY <2>1 DEF Hashed
    <2>3. \A d \in Events : state[d] \notin {"new", "hashed"} => state'[d] \notin {"new", "hashed"}
      BY <2>1
    <2> QED
      BY <1>0, <2>1, <2>2, <2>3 DEF ForkInv
  <1>4. ASSUME \/ Kill \/ PowerLossInLine
               \/ \E n \in 0..Len(file), torn \in BOOLEAN : PowerLoss(n, torn)
        PROVE  FALSE
    BY <1>4 DEF Kill, ProcessEnds, PowerLoss, PowerLossInLine, OneLife
  <1>5. CASE InitSink \/ UNCHANGED sinkVars
    <2>1. UNCHANGED sinkVars
      BY <1>5 DEF InitSink, ForkInv
    <2> QED
      BY <2>1 DEF sinkVars, ForkInv, Hashed
  <1> QED
    BY <1>1, <1>2, <1>3, <1>4, <1>5 DEF Next, Write

(* However the appends of concurrent writes are reordered or fail, no two  *)
(* lines continue the same predecessor.                                    *)
THEOREM ForkFree ==
    ASSUME OneLife
    PROVE  Spec => []NoFork
  <1>1. Init => ForkInv
    BY EmptySeq DEF Init, ForkInv, Hashed
  <1>2. TypeInv /\ ForkInv /\ [Next]_sinkVars => ForkInv'
    BY ForkInvNext
  <1>3. TypeInv /\ ForkInv => NoFork
    <2> SUFFICES ASSUME TypeInv, ForkInv, NEW i \in 1..Len(file), NEW j \in 1..Len(file),
                        file[i].prev = file[j].prev
                 PROVE  i = j
      BY DEF NoFork
    <2>1. file[i] \in Lines /\ file[j] \in Lines
      BY ElementOfSeq DEF TypeInv, TypeOK
    <2>2. file[i].event \in Events /\ file[j].event \in Events
      BY <2>1 DEF Lines
    <2> QED
      BY <2>2 DEF ForkInv, Hashed
  <1> QED
    BY <1>1, <1>2, <1>3, TypeInvInit, TypeInvNext, PTL DEF Spec
-----------------------------------------------------------------------------
(* Nothing dangles when nothing fails.  Every link of the chain is the     *)
(* hash of an event that took one, and the line of each such event is on   *)
(* its way to the file or in it.                                           *)
NothingFails == Faults = {}

Linked(h) ==
    h = Genesis \/ \E d \in Events : Hashed(d) /\ h = HashOf(prevOf[d], d)

OnFile(e) == \E i \in 1..Len(file) : file[i] = WrittenLine(e, prevOf[e])

LinkInv ==
    /\ ~openTail
    /\ Linked(lastHash)
    /\ \A e \in Events : Hashed(e) =>
          Linked(prevOf[e]) /\ (state[e] = "hashed" \/ OnFile(e))

(* A link stays one while no event that took a hash changes its own.       *)
LEMMA LinkedStays ==
    ASSUME \A d \in Events : Hashed(d) => Hashed(d)' /\ prevOf'[d] = prevOf[d],
           NEW h, Linked(h)
    PROVE  h = Genesis \/ \E d \in Events : Hashed(d)' /\ h = HashOf(prevOf'[d], d)
  BY DEF Linked

LEMMA LinkInvNext ==
    ASSUME NothingFails
    PROVE  TypeInv /\ ForkInv /\ LinkInv /\ [Next]_sinkVars => LinkInv'
  <1> SUFFICES ASSUME TypeInv, ForkInv, LinkInv, [Next]_sinkVars
               PROVE  LinkInv'
    OBVIOUS
  <1> USE DEF TypeInv, TypeOK, WriteStates
  <1>0. Len(file) \in Nat
    BY LenProperties
  <1>1. ASSUME NEW e \in Events, HashEvent(e)
        PROVE  LinkInv'
    <2>1. /\ state[e] = "new" /\ state' = [state EXCEPT ![e] = "hashed"]
          /\ prevOf' = [prevOf EXCEPT ![e] = lastHash]
          /\ lastHash' = HashOf(lastHash, e)
          /\ UNCHANGED << file, openTail >>
      BY <1>1 DEF HashEvent
    <2>2. prevOf'[e] = lastHash /\ state'[e] = "hashed"
      BY <2>1
    <2>3. \A d \in Events : d # e => state'[d] = state[d] /\ prevOf'[d] = prevOf[d]
      BY <2>1
    <2>4. \A d \in Events : Hashed(d) => Hashed(d)' /\ prevOf'[d] = prevOf[d]
      BY <2>1, <2>3 DEF Hashed
    <2>5. \A h : Linked(h) =>
             h = Genesis \/ \E d \in Events : Hashed(d)' /\ h = HashOf(prevOf'[d], d)
      BY <2>4, LinkedStays
    <2>6. Linked(lastHash)'
      BY <2>1, <2>2 DEF Linked, Hashed
    <2>7. ASSUME NEW d \in Events, Hashed(d)'
          PROVE  /\ Linked(prevOf[d])'
                 /\ state'[d] = "hashed" \/ OnFile(d)'
      <3>1. CASE d = e
        BY <2>2, <2>5, <3>1 DEF LinkInv, Linked
      <3>2. CASE d # e
        <4>1. Hashed(d) /\ prevOf'[d] = prevOf[d] /\ state'[d] = state[d]
          BY <2>3, <2>7, <3>2 DEF Hashed
        <4>2. Linked(prevOf[d]) /\ (state[d] = "hashed" \/ OnFile(d))
          BY <4>1 DEF LinkInv
        <4>3. Linked(prevOf[d])'
          BY <2>5, <4>1, <4>2 DEF Linked
        <4>4. OnFile(d) => OnFile(d)'
          BY <2>1, <4>1 DEF OnFile
        <4> QED
          BY <4>1, <4>2, <4>3, <4>4
      <3> QED
        BY <3>1, <3>2
    <2> QED
      BY <2>1, <2>6, <2>7 DEF LinkInv
  <1>2. ASSUME NEW e \in Events, AppendLine(e)
        PROVE  LinkInv'
    <2>1. /\ state[e] = "hashed" /\ state' = [state EXCEPT ![e] = "appended"]
          /\ UNCHANGED << lastHash, prevOf >> /\ ~openTail'
      BY <1>2 DEF AppendLine
    <2>2. WrittenLine(e, prevOf[e]) \in Lines
      BY WrittenLineType
    <2>3. Appended(WrittenLine(e, prevOf[e])) /\ ~openTail
      BY <1>2, <2>2, AppendBytesEffect DEF AppendLine, LinkInv
    <2>4. /\ Len(file') = Len(file) + 1
          /\ \A i \in 1..Len(file) : file'[i] = file[i]
          /\ file'[Len(file)+1] = WrittenLine(e, prevOf[e])
      BY <2>3 DEF Appended
    <2>5. OnFile(e)' /\ \A d \in Events : OnFile(d) => OnFile(d)'
      BY <1>0, <2>1, <2>4 DEF OnFile
    <2>6. \A d \in Events : Hashed(d)' <=> Hashed(d)
      BY <2>1 DEF Hashed
    <2>7. \A h : Linked(h) => h = Genesis \/ \E d \in Events : Hashed(d)' /\ h = HashOf(prevOf'[d], d)
      BY <2>1, <2>6, LinkedStays
    <2>8. Linked(lastHash)'
      BY <2>1, <2>7 DEF LinkInv, Linked
    <2>9. \A d \in Events : Hashed(d)' => Linked(prevOf[d])'
      BY <2>1, <2>6, <2>7 DEF LinkInv, Linked
    <2>10. \A d \in Events : Hashed(d)' => state'[d] = "hashed" \/ OnFile(d)'
      BY <2>1, <2>5, <2>6 DEF LinkInv
    <2> QED
      BY <2>1, <2>8, <2>9, <2>10 DEF LinkInv
  <1>3. ASSUME NEW e \in Events, Sync(e) \/ CloseHandle(e)
        PROVE  LinkInv'
    <2>1. /\ state[e] \notin {"new", "hashed"} /\ state'[e] # "new"
          /\ \A d \in Events : d # e => state'[d] = state[d]
          /\ UNCHANGED << lastHash, prevOf, file, openTail >>
      BY <1>3 DEF Sync, CloseHandle
    <2>2. \A d \in Events : Hashed(d)' <=> Hashed(d)
      BY <2>1 DEF Hashed
    <2> QED
      BY <2>1, <2>2 DEF LinkInv, Linked, OnFile
  <1>4. ASSUME NEW e \in Events, ShortWrite(e) \/ RejectWrite(e)
        PROVE  FALSE
    BY <1>4 DEF ShortWrite, RejectWrite, NothingFails
  <1>5. CASE \/ Kill \/ PowerLossInLine
             \/ \E n \in 0..Len(file), torn \in BOOLEAN : PowerLoss(n, torn)
    BY <1>5 DEF Kill, PowerLoss, PowerLossInLine, NothingFails
  <1>6. CASE InitSink \/ UNCHANGED sinkVars
    <2>1. UNCHANGED sinkVars
      BY <1>6 DEF InitSink, ForkInv
    <2> QED
      BY <2>1 DEF sinkVars, LinkInv, Linked, OnFile, Hashed
  <1> QED
    BY <1>1, <1>2, <1>3, <1>4, <1>5, <1>6 DEF Next, Write

LEMMA LinkInvImplies == TypeInv /\ ForkInv /\ LinkInv => NothingDangles
  <1> SUFFICES ASSUME TypeInv, ForkInv, LinkInv, InFlight = {},
                      NEW i \in 1..Len(file), file[i].prev # Genesis
               PROVE  \E j \in 1..Len(file) : file[j].hash = file[i].prev
    BY DEF NothingDangles
  <1>1. file[i].event \in Events
    <2>1. file[i] \in Lines
      BY ElementOfSeq DEF TypeInv, TypeOK
    <2> QED
      BY <2>1 DEF Lines
  <1>2. Hashed(file[i].event) /\ file[i].prev = prevOf[file[i].event]
    BY <1>1 DEF ForkInv, Hashed
  <1>3. PICK d \in Events : Hashed(d) /\ file[i].prev = HashOf(prevOf[d], d)
    BY <1>1, <1>2 DEF LinkInv, Linked
  <1>4. state[d] # "hashed"
    BY DEF InFlight
  <1>5. PICK j \in 1..Len(file) : file[j] = WrittenLine(d, prevOf[d])
    BY <1>3, <1>4 DEF LinkInv, OnFile
  <1> QED
    BY <1>3, <1>5 DEF WrittenLine

(* However the appends of concurrent writes are ordered, once all of them  *)
(* have settled and none has failed, the predecessor that a line names is  *)
(* in the file.                                                            *)
THEOREM ChainUnbroken ==
    ASSUME NothingFails
    PROVE  Spec => []NothingDangles
  <1>1. Init => ForkInv /\ LinkInv
    BY EmptySeq DEF Init, ForkInv, LinkInv, Linked, Hashed
  <1>2. TypeInv /\ ForkInv /\ [Next]_sinkVars => ForkInv'
    BY ForkInvNext DEF NothingFails, OneLife
  <1>3. TypeInv /\ ForkInv /\ LinkInv /\ [Next]_sinkVars => LinkInv'
    BY LinkInvNext
  <1> QED
    BY <1>1, <1>2, <1>3, LinkInvImplies, TypeInvInit, TypeInvNext, PTL DEF Spec
=============================================================================
