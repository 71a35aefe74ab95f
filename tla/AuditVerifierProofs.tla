------------------------- MODULE AuditVerifierProofs -------------------------
(* Theorems about AuditVerifier, for whatever the sink writes and whatever *)
(* others put into the file.                                               *)
EXTENDS AuditVerifier, SequenceTheorems, WellFoundedInduction, TLAPS

Files == Seq(FileLines)

(* Counting up from 1: a set of positions that holds 1 if it may, and each *)
(* position whose predecessor it holds, holds them all.                    *)
LEMMA CountUp ==
    ASSUME NEW n \in Nat, NEW T,
           \A i \in 1..n : i = 1 \/ i - 1 \in T => i \in T
    PROVE  1..n \subseteq T
  <1> DEFINE Missing == (1..n) \ T
  <1> SUFFICES ASSUME Missing # {}
               PROVE  FALSE
    OBVIOUS
  <1>1. Missing \subseteq Nat
    OBVIOUS
  <1> HIDE DEF Missing
  <1>2. PICK x \in Missing : \A y \in Missing : ~(<< y, x >> \in OpToRel(<, Nat))
    BY <1>1, NatLessThanWellFounded, WFMin
  <1>3. x \in 1..n /\ x # 1 /\ x - 1 \notin T
    BY <1>2 DEF Missing
  <1>4. x - 1 \in Missing /\ x - 1 \in Nat /\ x \in Nat /\ x - 1 < x
    BY <1>3 DEF Missing
  <1>5. << x - 1, x >> \in OpToRel(<, Nat)
    BY <1>4 DEF OpToRel
  <1> QED
    BY <1>2, <1>4, <1>5

-----------------------------------------------------------------------------
(* The chain the sink wrote *)

-----------------------------------------------------------------------------
(* What the verifier compares, line by line. *)
LineHolds(ls, i) ==
    /\ ls[i].whole
    /\ ls[i].prev = IF i = 1 THEN Chain!Genesis ELSE ls[i-1].hash
    /\ ls[i].hash = Chain!HashOf(ls[i].prev, ContentToHash(ls[i].event))

LEMMA FileType ==
    ASSUME NEW ls \in Files
    PROVE  /\ Len(ls) \in Nat
           /\ \A i \in 1..Len(ls) :
                 /\ ls[i] \in FileLines
                 /\ ls[i].event \in Events
                 /\ ContentToHash(ls[i].event) \in Hashed
                 /\ ls[i].prev \in Seq(Hashed)
                 /\ ls[i].hash \in Seq(Hashed)
                 /\ ls[i].whole \in BOOLEAN
  <1>1. Len(ls) \in Nat
    BY LenProperties DEF Files
  <1>2. ASSUME NEW i \in 1..Len(ls)
        PROVE  ls[i] \in FileLines
    BY ElementOfSeq DEF Files
  <1> QED
    BY <1>1, <1>2 DEF FileLines, Hashed, Chain!Hashes

LEMMA VerifyLineByLine ==
    ASSUME NEW ls \in Files
    PROVE  Verify(ls) <=> \A i \in 1..Len(ls) : LineHolds(ls, i)
  <1> DEFINE view == [j \in 1..Len(ls) |->
                        [ls[j] EXCEPT !.event = ContentToHash(ls[j].event)]]
             Line == [event : Hashed, prev : Seq(Hashed),
                      hash : Seq(Hashed), whole : BOOLEAN]
  <1>0. /\ Len(ls) \in Nat
        /\ \A j \in 1..Len(ls) : ls[j] \in FileLines
    BY FileType
  <1>1. ASSUME NEW j \in 1..Len(ls)
        PROVE  /\ view[j] \in Line
               /\ view[j].prev = ls[j].prev
               /\ view[j].hash = ls[j].hash
               /\ view[j].whole = ls[j].whole
               /\ view[j].event = ContentToHash(ls[j].event)
    <2>1. ls[j] \in FileLines
      BY <1>0
    <2>2. ContentToHash(ls[j].event) \in Hashed
      BY FileType
    <2> QED
      BY <2>1, <2>2 DEF FileLines, Chain!Hashes
  <1>2. Len(view) = Len(ls)
    <2>1. view \in Seq(Line)
      BY <1>0, <1>1, SeqDef
    <2>2. 1..Len(view) = 1..Len(ls) /\ Len(view) \in Nat
      BY <2>1, LenProperties
    <2> QED
      BY <1>0, <2>2
  <1>3. Verify(ls) <=> Chain!VerifyAuditChain(view)
    BY DEF Verify
  <1> HIDE DEF view
  <1>4. ASSUME NEW i \in 1..Len(ls)
        PROVE  Chain!LineVerifies(view, i) <=> LineHolds(ls, i)
    <2>1. i # 1 => i - 1 \in 1..Len(ls)
      BY <1>0
    <2>2. Chain!ExpectedPrevHash(view, i)
             = IF i = 1 THEN Chain!Genesis ELSE ls[i-1].hash
      BY <1>1, <2>1 DEF Chain!ExpectedPrevHash
    <2> QED
      BY <1>1, <2>2 DEF Chain!LineVerifies, LineHolds
  <1> QED
    BY <1>2, <1>3, <1>4 DEF Chain!VerifyAuditChain

-----------------------------------------------------------------------------
(* What a hash commits to, when the chain verifies up to it: the hashed    *)
(* fields of all events so far, in their order.                            *)
Contents(ls, i) == [k \in 1..i |-> ContentToHash(ls[k].event)]

LEMMA ContentsType ==
    ASSUME NEW ls \in Files, NEW i \in 0..Len(ls)
    PROVE  /\ Contents(ls, i) \in Seq(Hashed)
           /\ Len(Contents(ls, i)) = i
           /\ \A k \in 1..i : Contents(ls, i)[k] = ContentToHash(ls[k].event)
  <1>1. i \in Nat /\ \A k \in 1..i : k \in 1..Len(ls)
    BY FileType
  <1>2. Contents(ls, i) \in [1..i -> Hashed]
    BY <1>1, FileType DEF Contents
  <1>3. Contents(ls, i) \in Seq(Hashed)
    BY <1>1, <1>2, SeqDef
  <1>4. DOMAIN Contents(ls, i) = 1..i /\ DOMAIN Contents(ls, i) = 1..Len(Contents(ls, i))
    BY <1>3, LenProperties DEF Contents
  <1>5. Len(Contents(ls, i)) = i
    BY <1>1, <1>3, <1>4, LenProperties
  <1> QED
    BY <1>3, <1>5 DEF Contents

LEMMA ContentsGrow ==
    ASSUME NEW ls \in Files, NEW i \in 1..Len(ls)
    PROVE  Contents(ls, i) = Append(Contents(ls, i-1), ContentToHash(ls[i].event))
  <1> DEFINE c == ContentToHash(ls[i].event)
             s == Contents(ls, i-1)
             t == Append(s, c)
  <1>1. i - 1 \in 0..Len(ls) /\ i \in 0..Len(ls) /\ i \in Nat \ {0} /\ c \in Hashed
    BY FileType
  <1>2. /\ s \in Seq(Hashed) /\ Len(s) = i - 1
        /\ \A k \in 1..i-1 : s[k] = ContentToHash(ls[k].event)
    BY <1>1, ContentsType
  <1>3. /\ t \in Seq(Hashed) /\ Len(t) = (i - 1) + 1
        /\ \A k \in 1..i-1 : t[k] = s[k]
        /\ t[(i - 1) + 1] = c
    BY <1>1, <1>2, AppendProperties
  <1>4. /\ Contents(ls, i) \in Seq(Hashed) /\ Len(Contents(ls, i)) = i
        /\ \A k \in 1..i : Contents(ls, i)[k] = ContentToHash(ls[k].event)
    BY <1>1, ContentsType
  <1>5. (i - 1) + 1 = i /\ \A k \in 1..i : k \in 1..i-1 \/ k = i
    BY <1>1
  <1>6. \A k \in 1..i : Contents(ls, i)[k] = t[k]
    BY <1>2, <1>3, <1>4, <1>5
  <1> HIDE DEF t
  <1>7. Contents(ls, i) = t
    BY <1>3, <1>4, <1>5, <1>6, SeqEqual
  <1> QED
    BY <1>7 DEF t

LEMMA TipCommits ==
    ASSUME NEW ls \in Files, Verify(ls)
    PROVE  \A i \in 1..Len(ls) : ls[i].hash = Contents(ls, i)
  <1> DEFINE T == {i \in 1..Len(ls) : ls[i].hash = Contents(ls, i)}
  <1>0. Len(ls) \in Nat
    BY FileType
  <1>1. ASSUME NEW i \in 1..Len(ls), i = 1 \/ i - 1 \in T
        PROVE  i \in T
    <2>1. /\ ls[i].prev = IF i = 1 THEN Chain!Genesis ELSE ls[i-1].hash
          /\ ls[i].hash = Append(ls[i].prev, ContentToHash(ls[i].event))
      BY VerifyLineByLine DEF LineHolds, Chain!HashOf
    <2>2. ls[i].prev = Contents(ls, i-1)
      <3>1. CASE i = 1
        <4>1. 0 \in 0..Len(ls)
          BY <1>0
        <4>2. Contents(ls, 0) \in Seq(Hashed) /\ Len(Contents(ls, 0)) = 0
          BY <4>1, ContentsType
        <4>3. Contents(ls, 0) = << >>
          BY <4>2, EmptySeq
        <4> QED
          BY <2>1, <3>1, <4>3, 1 - 1 = 0 DEF Chain!Genesis
      <3>2. CASE i # 1
        BY <1>1, <2>1, <3>2
      <3> QED
        BY <3>1, <3>2
    <2> QED
      BY <2>1, <2>2, ContentsGrow
  <1> HIDE DEF T
  <1>2. 1..Len(ls) \subseteq T
    BY <1>0, <1>1, CountUp
  <1> QED
    BY <1>2 DEF T

(* Files that verify agree on all lines before a hash that they have in    *)
(* common, and have it in the same place.  So a change of a line is never  *)
(* accepted unless all hashes after it are replaced, up to the last one.   *)
THEOREM HashDetermines ==
    ASSUME NEW ls \in Files, NEW ms \in Files, Verify(ls), Verify(ms),
           NEW i \in 1..Len(ls), NEW j \in 1..Len(ms), ls[i].hash = ms[j].hash
    PROVE  /\ i = j
           /\ \A k \in 1..i : ContentToHash(ls[k].event) = ContentToHash(ms[k].event)
  <1>1. ls[i].hash = Contents(ls, i) /\ ms[j].hash = Contents(ms, j)
    BY TipCommits
  <1>2. i \in 0..Len(ls) /\ j \in 0..Len(ms)
    BY FileType
  <1>3. Len(Contents(ls, i)) = i /\ Len(Contents(ms, j)) = j
    BY <1>2, ContentsType
  <1>4. i = j
    BY <1>1, <1>3
  <1>5. \A k \in 1..i : /\ Contents(ls, i)[k] = ContentToHash(ls[k].event)
                        /\ Contents(ms, i)[k] = ContentToHash(ms[k].event)
    BY <1>2, <1>4, ContentsType
  <1>6. Contents(ls, i) = Contents(ms, i)
    BY <1>1, <1>4
  <1> QED
    BY <1>4, <1>5, <1>6

-----------------------------------------------------------------------------
(* The running process.  Its lines continue the last hash of the file as   *)
(* it was found, whatever has become of the file since.                    *)
TypeInv ==
    /\ lines \in Files /\ found \in Files /\ written \in Files
    /\ inFlight \subseteq 1..Len(written)
    /\ lastHash \in Seq(Hashed)

Continues(k) ==
    /\ written[k].whole
    /\ written[k].prev = IF k = 1 THEN Chain!RecoveredHash(found) ELSE written[k-1].hash
    /\ written[k].hash = Chain!HashOf(written[k].prev, ContentToHash(written[k].event))

ChainInv ==
    /\ lastHash = IF Len(written) = 0 THEN Chain!RecoveredHash(found)
                  ELSE written[Len(written)].hash
    /\ \A k \in 1..Len(written) : Continues(k)

SinkInv == TypeInv /\ ChainInv

LEMMA HashedLineType ==
    ASSUME NEW ev \in Events, NEW prev \in Seq(Hashed)
    PROVE  /\ HashedLine(ev, prev) \in FileLines
           /\ HashedLine(ev, prev).event = ev
           /\ HashedLine(ev, prev).prev = prev
           /\ HashedLine(ev, prev).whole
           /\ HashedLine(ev, prev).hash = Chain!HashOf(prev, ContentToHash(ev))
  <1> DEFINE h == Chain!HashOf(prev, ContentToHash(ev))
  <1>1. ContentToHash(ev) \in Hashed
    BY DEF Hashed
  <1>2. h \in Seq(Hashed)
    BY <1>1, AppendProperties DEF Chain!HashOf
  <1>3. HashedLine(ev, prev) = [event |-> ev, prev |-> prev, whole |-> TRUE, hash |-> h]
    BY DEF HashedLine
  <1> HIDE DEF h
  <1>4. /\ HashedLine(ev, prev) \in FileLines
        /\ HashedLine(ev, prev).event = ev
        /\ HashedLine(ev, prev).prev = prev
        /\ HashedLine(ev, prev).whole
        /\ HashedLine(ev, prev).hash = h
    BY <1>2, <1>3 DEF FileLines, Chain!Hashes
  <1> QED
    BY <1>4 DEF h

LEMMA HashesOfFiles ==
    ASSUME NEW ls \in Files
    PROVE  /\ Chain!RecoveredHash(ls) \in Seq(Hashed)
           /\ \A i \in 1..Len(ls) : Chain!ExpectedPrevHash(ls, i) \in Seq(Hashed)
  <1>1. Len(ls) \in Nat /\ \A i \in 1..Len(ls) : ls[i].hash \in Seq(Hashed)
    BY FileType
  <1>2. << >> \in Seq(Hashed)
    BY EmptySeq
  <1>3. ls # << >> => Len(ls) \in 1..Len(ls)
    <2>1. Len(ls) = 0 => ls = << >>
      BY EmptySeq DEF Files
    <2> QED
      BY <1>1, <2>1
  <1>4. ASSUME NEW i \in 1..Len(ls)
        PROVE  Chain!ExpectedPrevHash(ls, i) \in Seq(Hashed)
    <2>1. i # 1 => i - 1 \in 1..Len(ls)
      BY <1>1
    <2> QED
      BY <1>1, <1>2, <2>1 DEF Chain!ExpectedPrevHash, Chain!Genesis
  <1> QED
    BY <1>1, <1>2, <1>3, <1>4 DEF Chain!RecoveredHash, Chain!Genesis

LEMMA InitSinkInv == Init => SinkInv
  <1> SUFFICES ASSUME Init
               PROVE  SinkInv
    OBVIOUS
  <1>1. /\ << >> \in Files /\ << >> \in Seq(Hashed)
        /\ Len(<< >>) = 0
    BY EmptySeq DEF Files
  <1>2. TypeInv
    BY <1>1 DEF Init, TypeInv, Chain!Genesis
  <1>3. ChainInv
    <2>1. Len(written) = 0
      BY <1>1 DEF Init
    <2>2. Chain!RecoveredHash(found) = Chain!Genesis
      BY DEF Init, Chain!RecoveredHash
    <2> QED
      BY <2>1, <2>2 DEF Init, ChainInv
  <1> QED
    BY <1>2, <1>3 DEF SinkInv

(* Whatever others make of the file is a file. *)
LEMMA TamperType ==
    ASSUME TypeInv, Tamper
    PROVE  /\ lines' \in Files
           /\ UNCHANGED << found, written, inFlight, lastHash >>
  <1>0. lines \in Seq(FileLines) /\ Len(lines) \in Nat
    BY FileType DEF TypeInv, Files
  <1>e. \A i \in 1..Len(lines) : lines[i] \in FileLines
    BY <1>0, ElementOfSeq
  <1>s. \A m, n \in 0..Len(lines)+1 :
           m >= 1 /\ n <= Len(lines) => SubSeq(lines, m, n) \in Seq(FileLines)
    <2> SUFFICES ASSUME NEW m \in 0..Len(lines)+1, NEW n \in 0..Len(lines)+1,
                        m >= 1, n <= Len(lines)
                 PROVE  SubSeq(lines, m, n) \in Seq(FileLines)
      OBVIOUS
    <2>1. \A i \in m..n : lines[i] \in FileLines
      BY <1>0, <1>e
    <2> QED
      BY <1>0, <2>1, SubSeqProperties
  <1>1. ASSUME NEW i \in 1..Len(lines), NEW l \in FileLines, lines' = [lines EXCEPT ![i] = l]
        PROVE  lines' \in Seq(FileLines)
    BY <1>0, <1>1, ExceptSeq
  <1>2. ASSUME NEW i \in 1..Len(lines), NEW ev \in Events, EditEvent(i, ev)
        PROVE  lines' \in Seq(FileLines)
    <2>1. lines' = [lines EXCEPT ![i] = [lines[i] EXCEPT !.event = ev]]
      BY <1>2 DEF EditEvent, Damage
    <2>2. [lines[i] EXCEPT !.event = ev] \in FileLines
      BY <1>e DEF FileLines
    <2> QED
      BY <1>1, <2>1, <2>2
  <1>3. ASSUME NEW i \in 1..Len(lines), Rehash(i)
        PROVE  lines' \in Seq(FileLines)
    <2> DEFINE l == HashedLine(lines[i].event, Chain!ExpectedPrevHash(lines, i))
    <2>1. lines[i].event \in Events /\ Chain!ExpectedPrevHash(lines, i) \in Seq(Hashed)
      BY FileType, HashesOfFiles DEF TypeInv
    <2>2. l \in FileLines
      BY <2>1, HashedLineType
    <2>3. lines' = [lines EXCEPT ![i] = l]
      BY <1>3 DEF Rehash, Damage
    <2> HIDE DEF l
    <2> QED
      BY <1>1, <2>2, <2>3
  <1>4. ASSUME NEW i \in 1..Len(lines), SpoilLine(i)
        PROVE  lines' \in Seq(FileLines)
    <2>1. lines' = [lines EXCEPT ![i] = [lines[i] EXCEPT !.whole = FALSE]]
      BY <1>4 DEF SpoilLine, Damage
    <2>2. [lines[i] EXCEPT !.whole = FALSE] \in FileLines
      BY <1>e DEF FileLines
    <2> QED
      BY <1>1, <2>1, <2>2
  <1>5. ASSUME NEW i \in 1..Len(lines), RemoveLine(i)
        PROVE  lines' \in Seq(FileLines)
    <2>1. /\ SubSeq(lines, 1, i-1) \in Seq(FileLines)
          /\ SubSeq(lines, i+1, Len(lines)) \in Seq(FileLines)
      BY <1>0, <1>s
    <2> QED
      BY <1>5, <2>1, ConcatProperties DEF RemoveLine, Without, Damage
  <1>6. ASSUME NEW i \in 1..Len(lines), NEW j \in 1..Len(lines), SwapLines(i, j)
        PROVE  lines' \in Seq(FileLines)
    <2> DEFINE half == [lines EXCEPT ![i] = lines[j]]
    <2>1. lines[i] \in FileLines /\ lines[j] \in FileLines
      BY <1>e
    <2>2. half \in Seq(FileLines) /\ Len(half) = Len(lines)
      BY <1>0, <2>1, ExceptSeq
    <2>3. lines' = [half EXCEPT ![j] = lines[i]]
      BY <1>6 DEF SwapLines, Damage
    <2> HIDE DEF half
    <2> QED
      BY <2>1, <2>2, <2>3, ExceptSeq
  <1>7. ASSUME NEW i \in 0..Len(lines), NEW l \in FileLines, InsertLine(i, l)
        PROVE  lines' \in Seq(FileLines)
    <2> DEFINE front == SubSeq(lines, 1, i)
               back  == SubSeq(lines, i+1, Len(lines))
    <2>1. front \in Seq(FileLines) /\ back \in Seq(FileLines) /\ << l >> \in Seq(FileLines)
      BY <1>0, <1>s
    <2>2. lines' = (front \o << l >>) \o back
      BY <1>7 DEF InsertLine, Damage
    <2> HIDE DEF front, back
    <2>3. front \o << l >> \in Seq(FileLines)
      BY <2>1, ConcatProperties
    <2> QED
      BY <2>1, <2>2, <2>3, ConcatProperties
  <1>8. ASSUME NEW i \in 1..Len(lines), NEW j \in 1..Len(lines), RepeatLine(i, j)
        PROVE  lines' \in Seq(FileLines)
    <2>1. j - 1 \in 0..Len(lines) /\ lines[i] \in FileLines
      BY <1>0, <1>e
    <2> QED
      BY <1>7, <1>8, <2>1 DEF RepeatLine
  <1>9. lines' \in Seq(FileLines)
    BY <1>2, <1>3, <1>4, <1>5, <1>6, <1>7, <1>8, AuditVerifierAssumption DEF Tamper
  <1>10. UNCHANGED << found, written, inFlight, lastHash >>
    BY DEF Tamper, EditEvent, Rehash, SpoilLine, RemoveLine, SwapLines, RepeatLine,
           InsertLine, Damage
  <1> QED
    BY <1>9, <1>10 DEF Files

LEMMA HashEventKeeps ==
    ASSUME SinkInv, NEW ev \in Events, HashEvent(ev)
    PROVE  SinkInv'
  <1> DEFINE n == Len(written)
             l == HashedLine(ev, lastHash)
             w == Append(written, l)
  <1>0. /\ written \in Seq(FileLines) /\ n \in Nat
        /\ \A k \in 1..n : written[k] \in FileLines
        /\ lastHash \in Seq(Hashed)
    BY FileType DEF SinkInv, TypeInv, Files
  <1>1. /\ l \in FileLines /\ l.event = ev /\ l.prev = lastHash /\ l.whole
        /\ l.hash = Chain!HashOf(lastHash, ContentToHash(ev))
    BY <1>0, HashedLineType
  <1>2. /\ written' = w /\ lastHash' = l.hash /\ lines' = lines /\ found' = found
        /\ inFlight' = inFlight \cup {n + 1}
    BY <1>1 DEF HashEvent
  <1> HIDE DEF n, l
  <1>3. /\ w \in Seq(FileLines) /\ Len(w) = n + 1 /\ w[n + 1] = l
        /\ \A k \in 1..n : w[k] = written[k]
    BY <1>0, <1>1, AppendProperties DEF n
  <1> HIDE DEF w
  <1>4. TypeInv'
    <2>1. l.hash \in Seq(Hashed)
      BY <1>1 DEF FileLines, Chain!Hashes
    <2>2. inFlight \cup {n + 1} \subseteq 1..(n + 1)
      <3>1. inFlight \subseteq 1..n
        BY DEF SinkInv, TypeInv, n
      <3> QED
        BY <1>0, <3>1
    <2> QED
      BY <1>2, <1>3, <2>1, <2>2 DEF SinkInv, TypeInv, Files
  <1>5. ASSUME NEW k \in 1..(n + 1)
        PROVE  Continues(k)'
    <2>1. CASE k = n + 1
      <3>1. written'[k] = l
        BY <1>2, <1>3, <2>1
      <3>2. lastHash = IF k = 1 THEN Chain!RecoveredHash(found) ELSE w[k-1].hash
        <4>1. n = 0 <=> k = 1
          BY <1>0, <2>1
        <4>2. n # 0 => k - 1 = n /\ n \in 1..n
          BY <1>0, <2>1
        <4> QED
          BY <1>3, <4>1, <4>2 DEF SinkInv, ChainInv, n
      <3> QED
        BY <1>1, <1>2, <3>1, <3>2 DEF Continues
    <2>2. CASE k # n + 1
      <3>1. k \in 1..n /\ (k # 1 => k - 1 \in 1..n)
        BY <1>0, <2>2
      <3>2. Continues(k)
        BY <3>1 DEF SinkInv, ChainInv, n
      <3>3. w[k] = written[k] /\ (k # 1 => w[k-1] = written[k-1])
        BY <1>3, <3>1
      <3> QED
        BY <1>2, <3>2, <3>3 DEF Continues
    <2> QED
      BY <2>1, <2>2
  <1>6. ChainInv'
    <2>1. Len(written') = n + 1 /\ n + 1 # 0 /\ written'[n + 1].hash = lastHash'
      BY <1>0, <1>2, <1>3
    <2> QED
      BY <1>5, <2>1 DEF ChainInv
  <1> QED
    BY <1>4, <1>6 DEF SinkInv

LEMMA SinkInvNext == SinkInv /\ [Next]_vars => SinkInv'
  <1> SUFFICES ASSUME SinkInv, [Next]_vars
               PROVE  SinkInv'
    OBVIOUS
  <1>1. CASE UNCHANGED vars
    BY <1>1 DEF vars, SinkInv, TypeInv, ChainInv, Continues
  <1>2. ASSUME NEW ev \in Events, HashEvent(ev)
        PROVE  SinkInv'
    BY <1>2, HashEventKeeps
  <1>3. ASSUME NEW k \in inFlight, AppendLine(k)
        PROVE  SinkInv'
    <2>1. written[k] \in FileLines /\ lines \in Seq(FileLines)
      BY FileType DEF SinkInv, TypeInv, Files
    <2>2. lines' \in Seq(FileLines)
      BY <1>3, <2>1, AppendProperties DEF AppendLine
    <2>3. inFlight' \subseteq 1..Len(written)
      BY <1>3 DEF AppendLine, SinkInv, TypeInv
    <2> QED
      BY <1>3, <2>2, <2>3 DEF AppendLine, SinkInv, TypeInv, ChainInv, Continues, Files
  <1>4. CASE Restart
    <2>1. << >> \in Files /\ Len(<< >>) = 0
      BY EmptySeq DEF Files
    <2>2. Chain!RecoveredHash(lines) \in Seq(Hashed)
      BY HashesOfFiles DEF SinkInv, TypeInv
    <2>3. TypeInv'
      BY <1>4, <2>1, <2>2 DEF Restart, SinkInv, TypeInv
    <2>4. ChainInv'
      <3>1. Len(written') = 0 /\ lastHash' = Chain!RecoveredHash(found')
        BY <1>4, <2>1 DEF Restart
      <3> QED
        BY <3>1 DEF ChainInv
    <2> QED
      BY <2>3, <2>4 DEF SinkInv
  <1>5. CASE Tamper
    BY <1>5, TamperType DEF SinkInv, TypeInv, ChainInv, Continues
  <1> QED
    BY <1>1, <1>2, <1>3, <1>4, <1>5 DEF Next

-----------------------------------------------------------------------------
(* What the process found and wrote is itself a file that verifies, if     *)
(* what it found does.                                                     *)
LEMMA RecordVerifies ==
    ASSUME SinkInv, Verify(found)
    PROVE  /\ found \o written \in Files
           /\ Len(found \o written) = Len(found) + Len(written)
           /\ \A k \in 1..Len(written) : (found \o written)[Len(found) + k] = written[k]
           /\ Verify(found \o written)
  <1> DEFINE m == Len(found)
             n == Len(written)
             r == found \o written
  <1>0. found \in Seq(FileLines) /\ written \in Seq(FileLines) /\ m \in Nat /\ n \in Nat
    BY FileType DEF SinkInv, TypeInv, Files
  <1>1. /\ r \in Seq(FileLines) /\ Len(r) = m + n
        /\ \A i \in 1..m : r[i] = found[i]
        /\ \A k \in 1..n : r[m + k] = written[k]
    <2>1. /\ r \in Seq(FileLines) /\ Len(r) = m + n
          /\ \A i \in 1..(m + n) : r[i] = IF i <= m THEN found[i] ELSE written[i - m]
      BY <1>0, ConcatProperties
    <2> HIDE DEF r, m, n
    <2>2. \A i \in 1..m : i \in 1..(m + n) /\ i <= m
      BY <1>0
    <2>3. \A k \in 1..n : m + k \in 1..(m + n) /\ ~(m + k <= m) /\ (m + k) - m = k
      BY <1>0
    <2> QED
      BY <2>1, <2>2, <2>3
  <1>2. Chain!RecoveredHash(found) = IF m = 0 THEN Chain!Genesis ELSE found[m].hash
    <2>1. m = 0 <=> found = << >>
      BY <1>0, EmptySeq
    <2>2. m # 0 => m \in 1..m
      BY <1>0
    <2>3. m # 0 => found[m].whole
      BY <2>2, VerifyLineByLine DEF LineHolds, SinkInv, TypeInv
    <2> QED
      BY <2>1, <2>3 DEF Chain!RecoveredHash
  <1>v. \A i \in 1..m : LineHolds(found, i)
    BY VerifyLineByLine DEF SinkInv, TypeInv
  <1>c. \A k \in 1..n : Continues(k)
    BY DEF SinkInv, ChainInv
  <1> HIDE DEF r, m, n
  <1>3. ASSUME NEW i \in 1..(m + n)
        PROVE  LineHolds(r, i)
    <2>1. CASE i \in 1..m
      <3>1. i # 1 => i - 1 \in 1..m
        BY <1>0, <2>1
      <3> QED
        BY <1>1, <1>v, <2>1, <3>1 DEF LineHolds
    <2>2. CASE i \notin 1..m
      <3>1. PICK k \in 1..n : i = m + k
        <4>1. i - m \in 1..n /\ i = m + (i - m)
          BY <1>0, <2>2
        <4> QED
          BY <4>1
      <3>2. r[i] = written[k] /\ Continues(k)
        BY <1>1, <1>c, <3>1
      <3>3. written[k].prev = IF i = 1 THEN Chain!Genesis ELSE r[i-1].hash
        <4>1. CASE k = 1
          <5>1. written[k].prev = Chain!RecoveredHash(found)
            BY <3>2, <4>1 DEF Continues
          <5>2. i = 1 <=> m = 0
            BY <1>0, <3>1, <4>1
          <5>3. m # 0 => i - 1 = m /\ m \in 1..m
            BY <1>0, <3>1, <4>1
          <5> QED
            BY <1>1, <1>2, <5>1, <5>2, <5>3
        <4>2. CASE k # 1
          <5>1. written[k].prev = written[k-1].hash
            BY <3>2, <4>2 DEF Continues
          <5>2. k - 1 \in 1..n /\ i - 1 = m + (k - 1) /\ i # 1
            BY <1>0, <3>1, <4>2
          <5> QED
            BY <1>1, <5>1, <5>2
        <4> QED
          BY <4>1, <4>2
      <3> QED
        BY <3>2, <3>3 DEF LineHolds, Continues
    <2> QED
      BY <2>1, <2>2
  <1>4. Verify(r)
    BY <1>1, <1>3, VerifyLineByLine DEF Files
  <1> QED
    BY <1>1, <1>4 DEF r, m, n, Files

LEMMA SinkInvImplies == SinkInv => SealedIsAuthentic
  <1> SUFFICES ASSUME SinkInv, NEW k \in DOMAIN written,
                      Verify(lines), Verify(found), EndsWith(k)
               PROVE  /\ Len(lines) = Len(Record(k))
                      /\ \A i \in 1..Len(lines) :
                            ContentToHash(lines[i].event) = ContentToHash(Record(k)[i].event)
    BY DEF SealedIsAuthentic, SaysTheSame
  <1> DEFINE m == Len(found)
             n == Len(written)
             r == found \o written
             e == Len(lines)
  <1>0. /\ found \in Files /\ written \in Files /\ lines \in Files
        /\ m \in Nat /\ n \in Nat /\ e \in Nat
    BY FileType DEF SinkInv, TypeInv
  <1>1. k \in 1..n
    BY <1>0, LenProperties DEF Files
  <1>2. /\ r \in Files /\ Len(r) = m + n /\ Verify(r)
        /\ r[m + k] = written[k]
    BY <1>1, RecordVerifies
  <1>3. e \in 1..e /\ lines[e].hash = written[k].hash
    <2>1. lines # << >>
      BY DEF EndsWith
    <2>2. e # 0
      BY <1>0, <2>1, EmptySeq DEF Files
    <2> QED
      BY <1>0, <2>2 DEF EndsWith
  <1> HIDE DEF m, n, r, e
  <1>4. m + k \in 1..(m + n) /\ m + k \in Nat
    BY <1>0, <1>1
  <1>5. /\ e = m + k
        /\ \A i \in 1..e : ContentToHash(lines[i].event) = ContentToHash(r[i].event)
    <2>1. m + k \in 1..Len(r) /\ e \in 1..Len(lines)
      BY <1>2, <1>3, <1>4 DEF e
    <2>2. lines[e].hash = r[m + k].hash
      BY <1>2, <1>3
    <2> QED
      BY <1>0, <1>2, <2>1, <2>2, HashDetermines
  <1>6. /\ Len(Record(k)) = m + k
        /\ \A i \in 1..(m + k) : Record(k)[i] = r[i]
    <2>1. Record(k) = SubSeq(r, 1, m + k)
      BY DEF Record, r, m
    <2>2. r \in Seq(FileLines) /\ 1 \in 1..(m + k) /\ m + k \in 1..Len(r)
      BY <1>0, <1>1, <1>2, <1>4 DEF Files
    <2>3. \A i \in 1..(m + k) : i \in 1..Len(r) /\ r[i] \in FileLines
      BY <1>2, <1>4, FileType
    <2>4. /\ Len(SubSeq(r, 1, m + k)) = IF 1 <= m + k THEN (m + k) - 1 + 1 ELSE 0
          /\ \A i \in 1..((m + k) - 1 + 1) : SubSeq(r, 1, m + k)[i] = r[1 + i - 1]
      BY <2>2, <2>3, SubSeqProperties
    <2>5. (m + k) - 1 + 1 = m + k /\ 1 <= m + k
      BY <1>0, <1>1
    <2>6. \A i \in 1..(m + k) : 1 + i - 1 = i
      OBVIOUS
    <2> QED
      BY <2>1, <2>4, <2>5, <2>6
  <1> QED
    BY <1>5, <1>6 DEF e

(* Whoever changes the file, and whatever hashes they compute: once it     *)
(* ends in a line of the running process and verifies, all lines before    *)
(* say what that process found and wrote.                                  *)
THEOREM Sealed == Spec => []SealedIsAuthentic
  <1>1. Init => SinkInv
    BY InitSinkInv
  <1>2. SinkInv => SealedIsAuthentic
    BY SinkInvImplies
  <1> QED
    BY <1>1, <1>2, SinkInvNext, PTL DEF Spec

=============================================================================
