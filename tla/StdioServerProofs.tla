-------------------------- MODULE StdioServerProofs --------------------------
(* Theorems about StdioServer, for every stream, buffer and chunk size.    *)
(* First what FlattenSeq, Newlines, LinesOf, RestOf and Decode compute,    *)
(* then three inductive invariants: TypeInv and AnswersInv of what is      *)
(* answered and forwarded, TextInv (with BufferInv and HandledInv) of what *)
(* is cut, and DropInv of what is lost.                                    *)
EXTENDS StdioServer, SequenceTheorems, FiniteSetTheorems, FunctionTheorems,
        WellFoundedInduction, TLAPS

(* Counting up from 1: a set of positions that holds 1 if it may, and each *)
(* position whose predecessor it holds, holds them all.                    *)
LEMMA CountUp ==
    ASSUME NEW n \in Nat, NEW T,
           \A i \in 1..n : i = 1 \/ i - 1 \in T => i \in T
    PROVE  1..n \subseteq T
  <1> DEFINE Missing == (1..n) \ T
  <1> SUFFICES ASSUME Missing # {}
               PROVE  FALSE
    OBVIOUS
  <1>1. Missing \subseteq Nat
    OBVIOUS
  <1> HIDE DEF Missing
  <1>2. PICK x \in Missing : \A y \in Missing : ~(<< y, x >> \in OpToRel(<, Nat))
    BY <1>1, NatLessThanWellFounded, WFMin
  <1>3. x \in 1..n /\ x # 1 /\ x - 1 \notin T
    BY <1>2 DEF Missing
  <1>4. x - 1 \in Missing /\ x - 1 \in Nat /\ x \in Nat /\ x - 1 < x
    BY <1>3 DEF Missing
  <1>5. << x - 1, x >> \in OpToRel(<, Nat)
    BY <1>4 DEF OpToRel
  <1> QED
    BY <1>2, <1>4, <1>5

-----------------------------------------------------------------------------
(* FlattenSeq *)

(* The sequences up to each place, joined. *)
Joined(f, ss) ==
    /\ f[0] = << >>
    /\ \A i \in 1..Len(ss) : f[i] = f[i-1] \o ss[i]

(* What FlattenSeq computes is reached by joining one sequence after the   *)
(* other.                                                                  *)
LEMMA FlattenJoins ==
    ASSUME NEW S, NEW ss \in Seq(Seq(S))
    PROVE  \E f \in [0..Len(ss) -> Seq(S)] :
              Joined(f, ss) /\ FlattenSeq(ss) = f[Len(ss)]
  <1> DEFINE n == Len(ss)
             Def(g, m) == g = [i \in 1..m |-> IF i = 1 THEN ss[i] ELSE g[i-1] \o ss[i]]
             T == {m \in 1..n : \E g : Def(g, m)}
  <1>0. n \in Nat
    BY LenProperties
  <1> HIDE DEF n
  <1>1. ASSUME NEW m \in 1..n, m = 1 \/ m - 1 \in T
        PROVE  m \in T
    <2>1. CASE m = 1
      <3> DEFINE g == [i \in 1..m |-> ss[1]]
      <3>1. \A i \in 1..m : i = 1
        BY <2>1
      <3>2. \A i \in 1..m : ss[1] = IF i = 1 THEN ss[i] ELSE g[i-1] \o ss[i]
        BY <3>1
      <3>3. Def(g, m)
        BY <3>2, Zenon
      <3> QED
        BY <3>3
    <2>2. CASE m # 1
      <3>1. m - 1 \in T
        BY <1>1, <2>2
      <3>2. PICK g : Def(g, m - 1)
        BY <3>1
      <3> DEFINE h == [i \in 1..m |-> IF i = m THEN g[m-1] \o ss[m] ELSE g[i]]
      <3> HIDE DEF Def
      <3>3. \A i \in 1..m-1 : g[i] = IF i = 1 THEN ss[i] ELSE g[i-1] \o ss[i]
        BY <3>2 DEF Def
      <3>4. \A i \in 1..m : (IF i = m THEN g[m-1] \o ss[m] ELSE g[i])
                               = IF i = 1 THEN ss[i] ELSE h[i-1] \o ss[i]
        <4> SUFFICES ASSUME NEW i \in 1..m
                     PROVE  (IF i = m THEN g[m-1] \o ss[m] ELSE g[i])
                               = IF i = 1 THEN ss[i] ELSE h[i-1] \o ss[i]
          OBVIOUS
        <4>1. CASE i = 1
          BY <2>2, <3>3, <4>1
        <4>2. CASE i # 1
          <5>1. i - 1 \in 1..m /\ i - 1 # m
            BY <4>2
          <5>2. h[i-1] = g[i-1]
            BY <5>1
          <5>3. i # m => i \in 1..m-1
            OBVIOUS
          <5> HIDE DEF h
          <5> QED
            BY <3>3, <4>2, <5>2, <5>3
        <4> QED
          BY <4>1, <4>2
      <3>5. Def(h, m)
        BY <3>4, Zenon DEF Def
      <3>6. \E x : Def(x, m)
        BY <3>5
      <3> QED
        BY <3>6
    <2> QED
      BY <2>1, <2>2
  <1> HIDE DEF T
  <1>2. 1..n \subseteq T
    BY <1>0, <1>1, CountUp
  <1>3. CASE n = 0
    <2>1. ss = << >>
      BY <1>3, EmptySeq DEF n
    <2>2. FlattenSeq(ss) = << >>
      BY <1>3, <2>1 DEF FlattenSeq, n
    <2> DEFINE f == [i \in 0..n |-> << >>]
    <2>3. f \in [0..n -> Seq(S)] /\ f[0] = << >> /\ f[n] = << >>
      BY <1>3, EmptySeq
    <2> HIDE DEF f
    <2>4. Joined(f, ss)
      BY <1>3, <2>3 DEF Joined, n
    <2> QED
      BY <2>2, <2>3, <2>4 DEF n
  <1>4. CASE n # 0
    <2> DEFINE flatten == CHOOSE g : Def(g, n)
    <2> HIDE DEF Def
    <2>0. n \in T
      BY <1>0, <1>2, <1>4
    <2>1. \E g : Def(g, n)
      BY <2>0 DEF T
    <2>2. Def(flatten, n)
      BY <2>1, Zenon
    <2>3. FlattenSeq(ss) = flatten[n]
      BY <1>4 DEF FlattenSeq, Def, n
    <2> HIDE DEF flatten
    <2>4. \A i \in 1..n : flatten[i] = IF i = 1 THEN ss[i] ELSE flatten[i-1] \o ss[i]
      BY <2>2 DEF Def
    <2> DEFINE f == [i \in 0..n |-> IF i = 0 THEN << >> ELSE flatten[i]]
    <2>5. \A i \in 1..n : ss[i] \in Seq(S)
      BY ElementOfSeq DEF n
    <2>6. f[0] = << >>
      BY <1>0
    <2>7. \A i \in 1..n : f[i] = f[i-1] \o ss[i]
      <3> SUFFICES ASSUME NEW i \in 1..n
                   PROVE  f[i] = f[i-1] \o ss[i]
        OBVIOUS
      <3>1. i - 1 \in 0..n /\ i \in 0..n /\ i # 0
        BY <1>0
      <3>2. f[i] = flatten[i] /\ f[i-1] = IF i = 1 THEN << >> ELSE flatten[i-1]
        BY <3>1
      <3>3. << >> \o ss[i] = ss[i]
        BY <2>5, ConcatEmptySeq
      <3> HIDE DEF f
      <3> QED
        BY <2>4, <3>2, <3>3
    <2>8. \A i \in 0..n : f[i] \in Seq(S)
      <3> DEFINE U == {i \in 1..n : f[i] \in Seq(S)}
      <3> HIDE DEF f
      <3>1. ASSUME NEW i \in 1..n, i = 1 \/ i - 1 \in U
            PROVE  i \in U
        <4>1. f[i-1] \in Seq(S)
          <5>1. CASE i = 1
            <6>1. i - 1 = 0
              BY <5>1
            <6> QED
              BY <2>6, <6>1, EmptySeq
          <5>2. CASE i # 1
            BY <3>1, <5>2
          <5> QED
            BY <5>1, <5>2
        <4> QED
          BY <2>5, <2>7, <4>1, ConcatProperties
      <3> HIDE DEF U
      <3>2. 1..n \subseteq U
        BY <1>0, <3>1, CountUp
      <3>3. \A i \in 0..n : i = 0 \/ i \in 1..n
        BY <1>0
      <3>4. << >> \in Seq(S)
        BY EmptySeq
      <3> QED
        BY <2>6, <3>2, <3>3, <3>4 DEF U
    <2>9. f \in [0..n -> Seq(S)]
      BY <2>8
    <2>10. f[n] = flatten[n]
      BY <1>0, <1>4
    <2> HIDE DEF f
    <2> QED
      BY <2>3, <2>6, <2>7, <2>9, <2>10 DEF Joined, n
  <1> QED
    BY <1>3, <1>4

(* A sequence of one element. *)
LEMMA One ==
    \A x : Len(<< x >>) = 1 /\ << x >>[1] = x /\ << x >> # << >>
  <1> SUFFICES ASSUME NEW x
               PROVE  Len(<< x >>) = 1 /\ << x >>[1] = x /\ << x >> # << >>
    OBVIOUS
  <1>1. Len(<< x >>) = 1
    OBVIOUS
  <1>2. << x >>[1] = x
    OBVIOUS
  <1>3. << x >> # << >>
    OBVIOUS
  <1> QED
    BY <1>1, <1>2, <1>3

(* Sequences of at most one element each: where each element of the result *)
(* is from.  The order is kept, and none is left out.                      *)
Picks(o, r, ss, n) ==
    /\ \A j \in 1..Len(r) : /\ o[j] \in 1..n
                            /\ ss[o[j]] # << >> /\ r[j] = ss[o[j]][1]
    /\ \A i, j \in 1..Len(r) : i < j => o[i] < o[j]
    /\ \A k \in 1..n : ss[k] # << >> => \E j \in 1..Len(r) : o[j] = k

(* One more sequence of at most one element behind the picked ones.        *)
LEMMA PicksGrows ==
    ASSUME NEW S, NEW ss, NEW n \in Nat, NEW r \in Seq(S), NEW o, Picks(o, r, ss, n),
           ss[n+1] \in Seq(S), ss[n+1] = << >> \/ Len(ss[n+1]) = 1
    PROVE  \E q : Picks(q, r \o ss[n+1], ss, n+1)
  <1> DEFINE t == ss[n+1]
             u == r \o t
  <1>0. /\ Len(r) \in Nat /\ Len(t) \in Nat /\ t \in Seq(S)
        /\ Len(u) = Len(r) + Len(t)
        /\ \A j \in 1..Len(u) : u[j] = IF j <= Len(r) THEN r[j] ELSE t[j - Len(r)]
    BY ConcatProperties, LenProperties
  <1>t. t = ss[n+1] /\ u = r \o t
    OBVIOUS
  <1> HIDE DEF t, u
  <1>1. CASE t = << >>
    <2>1. ss[n+1] = << >>
      BY <1>t, <1>1
    <2>2. u = r
      BY <1>t, <1>1, ConcatEmptySeq
    <2>3. \A k \in 1..n+1 : k \in 1..n \/ k = n+1
      OBVIOUS
    <2>4. Picks(o, r, ss, n+1)
      BY <2>1, <2>3 DEF Picks
    <2> QED
      BY <1>t, <2>2, <2>4
  <1>2. CASE t # << >>
    <2> DEFINE L == Len(r)
               q == [j \in 1..L+1 |-> IF j = L+1 THEN n+1 ELSE o[j]]
    <2>0. L \in Nat /\ Len(t) = 1 /\ Len(u) = L + 1
      BY <1>0, <1>2, <1>t
    <2>1. q[L+1] = n+1 /\ \A j \in 1..L : q[j] = o[j]
      BY <2>0
    <2>2. u[L+1] = t[1] /\ \A j \in 1..L : u[j] = r[j]
      BY <1>0, <2>0
    <2>3. \A j \in 1..L+1 : j \in 1..L \/ j = L+1
      BY <2>0
    <2>4. \A k \in 1..n+1 : k \in 1..n \/ k = n+1
      OBVIOUS
    <2> HIDE DEF q, L
    <2>5. \A j \in 1..L : o[j] \in 1..n /\ ss[o[j]] # << >> /\ r[j] = ss[o[j]][1]
      BY DEF Picks, L
    <2>6. ASSUME NEW j \in 1..L+1
          PROVE  q[j] \in 1..n+1 /\ ss[q[j]] # << >> /\ u[j] = ss[q[j]][1]
      <3>1. CASE j = L+1
        <4>1. q[j] = n+1 /\ u[j] = t[1] /\ n+1 \in 1..n+1
          BY <2>1, <2>2, <3>1
        <4> QED
          BY <1>2, <1>t, <4>1
      <3>2. CASE j \in 1..L
        BY <2>1, <2>2, <2>5, <3>2
      <3> QED
        BY <2>3, <3>1, <3>2
    <2>7. ASSUME NEW i \in 1..L+1, NEW j \in 1..L+1, i < j
          PROVE  q[i] < q[j]
      <3>1. i \in 1..L
        BY <2>0, <2>7
      <3>2. CASE j = L+1
        BY <2>1, <2>5, <3>1, <3>2
      <3>3. CASE j \in 1..L
        BY <2>1, <2>7, <3>1, <3>3 DEF Picks, L
      <3> QED
        BY <2>3, <3>2, <3>3
    <2>8. ASSUME NEW k \in 1..n+1, ss[k] # << >>
          PROVE  \E j \in 1..L+1 : q[j] = k
      <3>1. CASE k = n+1
        BY <2>0, <2>1, <3>1
      <3>2. CASE k \in 1..n
        <4>1. PICK j \in 1..L : o[j] = k
          BY <2>8, <3>2 DEF Picks, L
        <4> QED
          BY <2>0, <2>1, <4>1
      <3> QED
        BY <2>4, <3>1, <3>2
    <2>9. Picks(q, u, ss, n+1)
      BY <2>0, <2>6, <2>7, <2>8 DEF Picks
    <2> QED
      BY <1>t, <2>9
  <1> QED
    BY <1>1, <1>2

(* Flattening sequences of at most one element picks, in order, the        *)
(* elements that are there.                                                *)
LEMMA FlattenPicks ==
    ASSUME NEW S, NEW ss \in Seq(Seq(S)),
           \A k \in 1..Len(ss) : ss[k] = << >> \/ Len(ss[k]) = 1
    PROVE  /\ FlattenSeq(ss) \in Seq(S)
           /\ \E o : Picks(o, FlattenSeq(ss), ss, Len(ss))
  <1>1. PICK f \in [0..Len(ss) -> Seq(S)] : Joined(f, ss) /\ FlattenSeq(ss) = f[Len(ss)]
    BY FlattenJoins
  <1> DEFINE n == Len(ss)
             Fits(i) == \E o : Picks(o, f[i], ss, i)
             T == {i \in 1..n : Fits(i)}
  <1>2. n \in Nat /\ \A i \in 1..n : ss[i] \in Seq(S) /\ (ss[i] = << >> \/ Len(ss[i]) = 1)
    BY LenProperties, ElementOfSeq
  <1> HIDE DEF n
  <1>3. f[0] = << >> /\ \A i \in 1..n : f[i] = f[i-1] \o ss[i]
    BY <1>1 DEF Joined, n
  <1>4. \A i \in 0..n : f[i] \in Seq(S)
    BY <1>1 DEF n
  <1>5. Fits(0)
    BY <1>3, EmptySeq DEF Picks
  <1> HIDE DEF Fits
  <1>6. ASSUME NEW i \in 1..n, i = 1 \/ i - 1 \in T
        PROVE  i \in T
    <2>1. i - 1 \in 0..n /\ i - 1 \in Nat /\ (i - 1) + 1 = i
      BY <1>2
    <2>2. Fits(i - 1)
      <3>1. CASE i = 1
        <4>1. i - 1 = 0
          BY <3>1
        <4> QED
          BY <1>5, <4>1
      <3>2. CASE i # 1
        BY <1>6, <3>2
      <3> QED
        BY <3>1, <3>2
    <2>3. PICK o : Picks(o, f[i-1], ss, i-1)
      BY <2>2 DEF Fits
    <2>4. \E q : Picks(q, f[i-1] \o ss[i], ss, i)
      <3> DEFINE m == i - 1
      <3>1. m \in Nat /\ m + 1 = i /\ f[m] \in Seq(S) /\ Picks(o, f[m], ss, m)
        BY <1>4, <2>1, <2>3
      <3>2. ss[m+1] \in Seq(S) /\ (ss[m+1] = << >> \/ Len(ss[m+1]) = 1)
        BY <1>2, <3>1
      <3> HIDE DEF m
      <3>3. \E q : Picks(q, f[m] \o ss[m+1], ss, m+1)
        BY <3>1, <3>2, PicksGrows
      <3> QED
        BY <3>1, <3>3 DEF m
    <2>5. Fits(i)
      BY <1>3, <2>4 DEF Fits
    <2> QED
      BY <2>5
  <1> HIDE DEF T
  <1>7. 1..n \subseteq T
    BY <1>2, <1>6, CountUp
  <1>8. Fits(n)
    <2>1. CASE n = 0
      BY <1>5, <2>1
    <2>2. CASE n # 0
      <3>1. n \in T
        BY <1>2, <1>7, <2>2
      <3> QED
        BY <3>1 DEF T
    <2> QED
      BY <2>1, <2>2
  <1>9. n \in 0..n
    BY <1>2
  <1> QED
    BY <1>1, <1>4, <1>8, <1>9 DEF Fits, n

-----------------------------------------------------------------------------
(* Cells, and the lines of a text *)

Kinds == {"byte", "lead", "trail", "newline", "replaced"}
Cell  ==
    {c \in [line : 1..Len(stream), part : Nat, kind : Kinds] :
        c.kind # "newline" => c.part \in 1..Len(stream[c.line].cells)}
Line  == {l \in Seq(Cell) : l # << >> /\ l[1].kind # "newline"}

(* A subsequence of a text is a text. *)
LEMMA SubText ==
    ASSUME NEW S, NEW s \in Seq(S), NEW a \in Int, NEW b \in Int, 1 <= a, b <= Len(s)
    PROVE  /\ SubSeq(s, a, b) \in Seq(S)
           /\ Len(SubSeq(s, a, b)) = IF a <= b THEN b - a + 1 ELSE 0
           /\ \A q \in 1..Len(SubSeq(s, a, b)) :
                 a + q - 1 \in a..b /\ SubSeq(s, a, b)[q] = s[a + q - 1]
  <1>1. Len(s) \in Nat
    BY LenProperties
  <1>2. \A i \in a..b : s[i] \in S
    BY <1>1, ElementOfSeq
  <1>3. /\ SubSeq(s, a, b) \in Seq(S)
        /\ Len(SubSeq(s, a, b)) = IF a <= b THEN b - a + 1 ELSE 0
        /\ \A q \in 1..b-a+1 : SubSeq(s, a, b)[q] = s[a+q-1]
    BY <1>2, SubSeqProperties
  <1> DEFINE m == Len(SubSeq(s, a, b))
  <1>4. m = IF a <= b THEN b - a + 1 ELSE 0
    BY <1>3
  <1> HIDE DEF m
  <1>5. \A q \in 1..m : q \in 1..b-a+1 /\ a + q - 1 \in a..b
    BY <1>4
  <1> QED
    BY <1>3, <1>5 DEF m

(* The newlines of a text, in order and all of them. *)
LEMMA NewlinesFound ==
    ASSUME NEW S, NEW s \in Seq(S)
    PROVE  /\ Newlines(s) \in Seq(1..Len(s))
           /\ \A j \in 1..Len(Newlines(s)) : s[Newlines(s)[j]].kind = "newline"
           /\ \A i, j \in 1..Len(Newlines(s)) : i < j => Newlines(s)[i] < Newlines(s)[j]
           /\ \A k \in 1..Len(s) : s[k].kind = "newline" =>
                 \E j \in 1..Len(Newlines(s)) : Newlines(s)[j] = k
  <1> DEFINE n == Len(s)
             ss == [k \in 1..n |-> IF s[k].kind = "newline" THEN << k >> ELSE << >>]
  <1>0. n \in Nat /\ DOMAIN s = 1..n
    BY LenProperties
  <1>1. Newlines(s) = FlattenSeq(ss)
    BY <1>0 DEF Newlines
  <1> HIDE DEF n
  <1>2. \A k \in 1..n : ss[k] = IF s[k].kind = "newline" THEN << k >> ELSE << >>
    OBVIOUS
  <1>3. ss \in Seq(Seq(1..n)) /\ Len(ss) = n
    <2>1. \A k \in 1..n : ss[k] \in Seq(1..n)
      <3> SUFFICES ASSUME NEW k \in 1..n
                   PROVE  ss[k] \in Seq(1..n)
        OBVIOUS
      <3>1. << k >> \in Seq(1..n) /\ << >> \in Seq(1..n)
        BY EmptySeq
      <3> QED
        BY <1>2, <3>1
    <2>2. ss \in [1..n -> Seq(1..n)]
      BY <2>1
    <2>3. ss \in Seq(Seq(1..n))
      BY <1>0, <2>2, SeqDef
    <2>4. DOMAIN ss = 1..n
      OBVIOUS
    <2>5. 1..Len(ss) = 1..n /\ Len(ss) \in Nat
      BY <2>3, <2>4, LenProperties
    <2> QED
      BY <1>0, <2>3, <2>5
  <1> HIDE DEF ss
  <1>4. \A k \in 1..n : ss[k] = << >> \/ Len(ss[k]) = 1
    BY <1>2, One
  <1>5. /\ FlattenSeq(ss) \in Seq(1..n)
        /\ \E o : Picks(o, FlattenSeq(ss), ss, n)
    BY <1>3, <1>4, FlattenPicks
  <1> DEFINE r == FlattenSeq(ss)
  <1>6. PICK o : Picks(o, r, ss, n)
    BY <1>5
  <1> HIDE DEF r
  <1>7. \A k \in 1..n : ss[k] # << >> => s[k].kind = "newline" /\ ss[k][1] = k
    BY <1>2, One
  <1>8. \A j \in 1..Len(r) : r[j] = o[j] /\ s[r[j]].kind = "newline"
    BY <1>6, <1>7 DEF Picks
  <1>9. \A k \in 1..n : s[k].kind = "newline" => ss[k] # << >>
    BY <1>2, One
  <1>10. \A k \in 1..n : s[k].kind = "newline" => \E j \in 1..Len(r) : r[j] = k
    <2> SUFFICES ASSUME NEW k \in 1..n, s[k].kind = "newline"
                 PROVE  \E j \in 1..Len(r) : r[j] = k
      OBVIOUS
    <2>1. PICK j \in 1..Len(r) : o[j] = k
      BY <1>6, <1>9 DEF Picks
    <2> QED
      BY <1>8, <2>1
  <1>11. \A i, j \in 1..Len(r) : i < j => r[i] < r[j]
    BY <1>6, <1>8 DEF Picks
  <1> QED
    BY <1>1, <1>5, <1>8, <1>10, <1>11 DEF r, n

(* Line k of the lines cut off a text s is what is between one newline, or *)
(* the beginning, and the next. *)
Between(s, a, b) ==
    /\ a \in 1..Len(s) /\ b \in 0..Len(s)-1 /\ a <= b + 1
    /\ a = 1 \/ s[a-1].kind = "newline"
    /\ s[b+1].kind = "newline"
    /\ \A q \in a..b : s[q].kind # "newline"

(* Where the lines begin and end. *)
CutAt(s, lines, from, to) ==
    /\ \A k \in 1..Len(lines) :
          /\ Between(s, from[k], to[k]) /\ from[k] <= to[k]
          /\ lines[k] = SubSeq(s, from[k], to[k])
    /\ \A k, l \in 1..Len(lines) : k < l => to[k] + 1 < from[l]
    /\ \A p \in 1..Len(s) : s[p].kind = "newline" =>
          \/ p = 1 \/ s[p-1].kind = "newline"
          \/ \E k \in 1..Len(lines) : to[k] = p - 1

(* The lines of a text lie one behind the other in it, each between two    *)
(* newlines, and no line that is not blank is left out.                    *)
LEMMA LinesCut ==
    ASSUME NEW S, NEW s \in Seq(S)
    PROVE  /\ LinesOf(s) \in Seq(Seq(S) \ {<< >>})
           /\ \E from, to : CutAt(s, LinesOf(s), from, to)
  <1> DEFINE N == Len(s)
             ends == Newlines(s)
             m == Len(ends)
             from(k) == IF k = 1 THEN 1 ELSE ends[k-1] + 1
             to(k) == ends[k] - 1
             cut == [k \in 1..m |-> SubSeq(s, from(k), to(k))]
             ss == [k \in 1..m |-> IF cut[k] = << >> THEN << >> ELSE << cut[k] >>]
  <1>0. /\ N \in Nat /\ m \in Nat /\ DOMAIN ends = 1..m
        /\ \A k \in 1..m : ends[k] \in 1..N /\ s[ends[k]].kind = "newline"
        /\ \A i, j \in 1..m : i < j => ends[i] < ends[j]
        /\ \A p \in 1..N : s[p].kind = "newline" => \E j \in 1..m : ends[j] = p
    <2>1. ends \in Seq(1..N)
      BY NewlinesFound
    <2>2. m \in Nat /\ DOMAIN ends = 1..m /\ \A k \in 1..m : ends[k] \in 1..N
      BY <2>1, LenProperties, ElementOfSeq
    <2> QED
      BY <2>2, NewlinesFound, LenProperties
  <1>1. DOMAIN cut = 1..m
    OBVIOUS
  <1>2. LinesOf(s) = FlattenSeq(ss)
    BY <1>0, <1>1 DEF LinesOf
  <1> HIDE DEF ends, m, N
  <1>3. ASSUME NEW k \in 1..m
        PROVE  Between(s, from(k), to(k))
    <2>1. k # 1 => k - 1 \in 1..m /\ ends[k-1] < ends[k]
      BY <1>0
    <2>2. from(k) \in 1..N /\ to(k) \in 0..N-1 /\ from(k) <= to(k) + 1
      BY <1>0, <2>1
    <2>3. from(k) = 1 \/ s[from(k) - 1].kind = "newline"
      <3>1. CASE k = 1
        BY <3>1
      <3>2. CASE k # 1
        <4>1. from(k) - 1 = ends[k-1]
          BY <1>0, <2>1, <3>2
        <4> QED
          BY <1>0, <2>1, <3>2, <4>1
      <3> QED
        BY <3>1, <3>2
    <2>4. s[to(k) + 1].kind = "newline"
      <3>1. to(k) + 1 = ends[k]
        BY <1>0
      <3> QED
        BY <1>0, <3>1
    <2>5. ASSUME NEW q \in from(k)..to(k), s[q].kind = "newline"
          PROVE  FALSE
      <3>1. q \in 1..N /\ q < ends[k]
        BY <1>0, <2>2
      <3>2. PICK j \in 1..m : ends[j] = q
        BY <1>0, <2>5, <3>1
      <3>3. j < k
        BY <1>0, <3>1, <3>2
      <3>4. k # 1 /\ (j = k - 1 \/ j < k - 1)
        BY <3>3
      <3>5. ends[j] <= ends[k-1]
        BY <1>0, <2>1, <3>4
      <3> QED
        BY <1>0, <2>1, <2>5, <3>2, <3>4, <3>5
    <2> QED
      BY <2>2, <2>3, <2>4, <2>5 DEF Between, N
  <1>4. ASSUME NEW k \in 1..m
        PROVE  /\ cut[k] \in Seq(S) /\ cut[k] = SubSeq(s, from(k), to(k))
               /\ cut[k] # << >> <=> from(k) <= to(k)
    <2>1. from(k) \in Int /\ to(k) \in Int /\ 1 <= from(k) /\ to(k) <= N /\ from(k) <= to(k) + 1
      BY <1>0, <1>3 DEF Between, N
    <2>2. cut[k] = SubSeq(s, from(k), to(k))
      OBVIOUS
    <2> HIDE DEF cut, from, to
    <2>3. /\ cut[k] \in Seq(S)
          /\ Len(cut[k]) = IF from(k) <= to(k) THEN to(k) - from(k) + 1 ELSE 0
      BY <2>1, <2>2, SubText DEF N
    <2>4. CASE from(k) <= to(k)
      <3>1. Len(cut[k]) # 0
        BY <2>1, <2>3, <2>4
      <3> QED
        BY <2>2, <2>3, <2>4, <3>1, EmptySeq
    <2>5. CASE ~(from(k) <= to(k))
      BY <2>2, <2>3, <2>5, EmptySeq
    <2> QED
      BY <2>4, <2>5
  <1> HIDE DEF cut
  <1>5. \A k \in 1..m : ss[k] = IF cut[k] = << >> THEN << >> ELSE << cut[k] >>
    OBVIOUS
  <1> DEFINE L == Seq(S) \ {<< >>}
  <1>6. ss \in Seq(Seq(L)) /\ Len(ss) = m
    <2>1. ASSUME NEW k \in 1..m
          PROVE  ss[k] \in Seq(L)
      <3>1. CASE cut[k] = << >>
        BY <1>5, <3>1, EmptySeq
      <3>2. CASE cut[k] # << >>
        <4>1. cut[k] \in L
          BY <1>4, <3>2
        <4> HIDE DEF L
        <4>2. << cut[k] >> \in Seq(L)
          BY <4>1
        <4> QED
          BY <1>5, <3>2, <4>2
      <3> QED
        BY <3>1, <3>2
    <2> HIDE DEF L
    <2>2. ss \in [1..m -> Seq(L)]
      BY <2>1
    <2>3. ss \in Seq(Seq(L))
      BY <1>0, <2>2, SeqDef
    <2>4. DOMAIN ss = 1..m
      OBVIOUS
    <2>5. 1..Len(ss) = 1..m /\ Len(ss) \in Nat
      BY <2>3, <2>4, LenProperties
    <2> QED
      BY <1>0, <2>3, <2>5
  <1> HIDE DEF ss, L
  <1>7. \A k \in 1..m : ss[k] = << >> \/ Len(ss[k]) = 1
    BY <1>5, One
  <1>8. /\ FlattenSeq(ss) \in Seq(L)
        /\ \E o : Picks(o, FlattenSeq(ss), ss, m)
    BY <1>6, <1>7, FlattenPicks
  <1> DEFINE r == FlattenSeq(ss)
  <1>9. PICK o : Picks(o, r, ss, m)
    BY <1>8
  <1> HIDE DEF r
  <1>10. \A k \in 1..m : ss[k] # << >> => cut[k] # << >> /\ ss[k][1] = cut[k]
    BY <1>5, One
  <1>11. \A j \in 1..Len(r) : o[j] \in 1..m /\ cut[o[j]] # << >> /\ r[j] = cut[o[j]]
    BY <1>9, <1>10 DEF Picks
  <1> DEFINE f == [j \in 1..Len(r) |-> from(o[j])]
             t == [j \in 1..Len(r) |-> to(o[j])]
  <1>12. \A j \in 1..Len(r) : f[j] = from(o[j]) /\ t[j] = to(o[j])
    OBVIOUS
  <1> HIDE DEF f, t
  <1>13. ASSUME NEW k \in 1..Len(r)
         PROVE  /\ Between(s, f[k], t[k]) /\ f[k] <= t[k]
                /\ r[k] = SubSeq(s, f[k], t[k])
    <2> HIDE DEF from, to
    <2> QED
      BY <1>3, <1>4, <1>11, <1>12
  <1>14. ASSUME NEW k \in 1..Len(r), NEW l \in 1..Len(r), k < l
         PROVE  t[k] + 1 < f[l]
    <2>1. o[k] \in 1..m /\ o[l] \in 1..m /\ o[k] < o[l]
      BY <1>9, <1>11, <1>14 DEF Picks
    <2>2. o[l] # 1 /\ o[l] - 1 \in 1..m /\ (o[k] = o[l] - 1 \/ o[k] < o[l] - 1)
      BY <1>0, <2>1
    <2>3. ends[o[k]] <= ends[o[l] - 1]
      BY <1>0, <2>1, <2>2
    <2>4. f[l] = ends[o[l] - 1] + 1 /\ t[k] = ends[o[k]] - 1
      BY <1>12, <2>2
    <2> QED
      BY <1>0, <2>1, <2>2, <2>3, <2>4
  <1>15. ASSUME NEW p \in 1..N, s[p].kind = "newline", p # 1, s[p-1].kind # "newline"
         PROVE  \E k \in 1..Len(r) : t[k] = p - 1
    <2>1. PICK j \in 1..m : ends[j] = p
      BY <1>0, <1>15
    <2>2. from(j) <= to(j)
      <3>1. ~(from(j) <= to(j)) => from(j) = p
        <4>1. from(j) \in Nat /\ to(j) = p - 1 /\ from(j) <= to(j) + 1
          BY <1>3, <2>1 DEF Between
        <4> HIDE DEF from, to
        <4> QED
          BY <1>0, <4>1
      <3>2. from(j) # p
        BY <1>3, <1>15 DEF Between
      <3> QED
        BY <3>1, <3>2
    <2>3. ss[j] # << >>
      BY <1>4, <1>5, <2>2, One
    <2>4. PICK k \in 1..Len(r) : o[k] = j
      BY <1>9, <2>3 DEF Picks
    <2> QED
      BY <1>12, <2>1, <2>4
  <1>16. CutAt(s, r, f, t)
    BY <1>13, <1>14, <1>15 DEF CutAt, N
  <1> QED
    BY <1>2, <1>8, <1>16 DEF r, L

(* The lines of a text of the client begin with a byte of one of its       *)
(* lines.                                                                  *)
LEMMA LinesOfText ==
    ASSUME NEW s \in Seq(Cell)
    PROVE  LinesOf(s) \in Seq(Line)
  <1> DEFINE lines == LinesOf(s)
             m == Len(lines)
  <1>1. lines \in Seq(Seq(Cell) \ {<< >>}) /\ m \in Nat
    BY LinesCut, LenProperties
  <1>2. PICK from, to : CutAt(s, lines, from, to)
    BY LinesCut
  <1> HIDE DEF lines
  <1>3. ASSUME NEW k \in 1..m
        PROVE  lines[k] \in Line
    <2>1. lines[k] \in Seq(Cell) /\ lines[k] # << >>
      BY <1>1, <1>3, ElementOfSeq
    <2>2. /\ Between(s, from[k], to[k]) /\ from[k] <= to[k]
          /\ lines[k] = SubSeq(s, from[k], to[k])
      BY <1>2, <1>3 DEF CutAt
    <2>3. /\ from[k] \in Int /\ to[k] \in Int /\ 1 <= from[k] /\ to[k] <= Len(s)
          /\ from[k] \in from[k]..to[k]
      BY <2>2, LenProperties DEF Between
    <2>4. Len(lines[k]) \in Nat /\ Len(lines[k]) # 0
      BY <2>1, LenProperties, EmptySeq
    <2>5. 1 \in 1..Len(lines[k])
      BY <2>4
    <2>6. lines[k][1] = s[from[k] + 1 - 1]
      BY <2>2, <2>3, <2>5, SubText
    <2>7. from[k] + 1 - 1 = from[k]
      BY <2>3
    <2>8. s[from[k]].kind # "newline"
      BY <2>2, <2>3 DEF Between
    <2> QED
      BY <2>1, <2>6, <2>7, <2>8 DEF Line
  <1>4. lines \in [1..m -> Line]
    BY <1>1, <1>3, LenProperties
  <1>5. lines \in Seq(Line)
    <2> HIDE DEF m
    <2> QED
      BY <1>1, <1>4, SeqDef
  <1> QED
    BY <1>5 DEF lines

(* What is left of a text is what follows its last newline. *)
LEMMA RestCut ==
    ASSUME NEW S, NEW s \in Seq(S)
    PROVE  /\ RestOf(s) \in Seq(S)
           /\ \E r \in 0..Len(s) :
                 /\ RestOf(s) = SubSeq(s, r + 1, Len(s))
                 /\ r = 0 \/ s[r].kind = "newline"
                 /\ \A q \in r+1..Len(s) : s[q].kind # "newline"
  <1> DEFINE N == Len(s)
             ends == Newlines(s)
             m == Len(ends)
  <1>0. /\ N \in Nat /\ m \in Nat /\ ends \in Seq(1..N)
        /\ \A k \in 1..m : ends[k] \in 1..N /\ s[ends[k]].kind = "newline"
        /\ \A i, j \in 1..m : i < j => ends[i] < ends[j]
        /\ \A p \in 1..N : s[p].kind = "newline" => \E j \in 1..m : ends[j] = p
    <2>1. ends \in Seq(1..N)
      BY NewlinesFound
    <2>2. m \in Nat /\ \A k \in 1..m : ends[k] \in 1..N
      BY <2>1, LenProperties, ElementOfSeq
    <2> QED
      BY <2>1, <2>2, NewlinesFound, LenProperties
  <1> DEFINE r == IF ends = << >> THEN 0 ELSE ends[m]
  <1>1. RestOf(s) = SubSeq(s, r + 1, N)
    <2>1. RestOf(s) = SubSeq(s, IF ends = << >> THEN 1 ELSE Last(ends) + 1, N)
      BY DEF RestOf
    <2>2. (IF ends = << >> THEN 1 ELSE Last(ends) + 1) = r + 1
      BY DEF Last
    <2> QED
      BY <2>1, <2>2
  <1>2. m = 0 <=> ends = << >>
    BY <1>0, EmptySeq
  <1> HIDE DEF ends, m, N
  <1>3. r \in 0..N /\ (r = 0 \/ s[r].kind = "newline")
    BY <1>0, <1>2
  <1>4. ASSUME NEW q \in r+1..N, s[q].kind = "newline"
        PROVE  FALSE
    <2>1. q \in 1..N
      BY <1>0, <1>3
    <2>2. PICK j \in 1..m : ends[j] = q
      BY <1>0, <1>4, <2>1
    <2>3. m # 0 /\ (j = m \/ j < m)
      BY <1>0, <2>2
    <2>4. ends[j] <= ends[m] /\ r = ends[m]
      BY <1>0, <1>2, <2>2, <2>3
    <2> QED
      BY <1>0, <1>3, <2>1, <2>2, <2>4
  <1>5. SubSeq(s, r + 1, N) \in Seq(S)
    <2>1. r + 1 \in Int /\ N \in Int /\ 1 <= r + 1
      BY <1>0, <1>3
    <2> HIDE DEF r
    <2> QED
      BY <2>1, SubText DEF N
  <1> QED
    BY <1>1, <1>3, <1>4, <1>5 DEF N

(* toString replaces halves of characters, and nothing else. *)
SameCell(c, d) ==
    /\ c.line = d.line /\ c.part = d.part
    /\ c.kind = d.kind \/ (c.kind = "replaced" /\ d.kind \in {"lead", "trail"})

(* Decoding a chunk moves nothing: only halves of characters are replaced. *)
LEMMA DecodeKeeps ==
    ASSUME NEW chunk \in Seq(Cell)
    PROVE  /\ Decode(chunk) \in Seq(Cell) /\ Len(Decode(chunk)) = Len(chunk)
           /\ \A k \in 1..Len(chunk) : SameCell(Decode(chunk)[k], chunk[k])
  <1> DEFINE n == Len(chunk)
             d == Decode(chunk)
  <1>0. n \in Nat /\ DOMAIN chunk = 1..n
    BY LenProperties
  <1>1. d = [k \in 1..n |->
               IF (chunk[k].kind = "lead" /\ k = n) \/ (chunk[k].kind = "trail" /\ k = 1)
                 THEN [chunk[k] EXCEPT !.kind = "replaced"]
                 ELSE chunk[k]]
    BY <1>0 DEF Decode
  <1>2. \A k \in 1..n : chunk[k] \in Cell
    BY ElementOfSeq
  <1> HIDE DEF n, d
  <1>3. ASSUME NEW k \in 1..n
        PROVE  d[k] \in Cell /\ SameCell(d[k], chunk[k])
    <2>1. CASE (chunk[k].kind = "lead" /\ k = n) \/ (chunk[k].kind = "trail" /\ k = 1)
      <3>1. d[k] = [chunk[k] EXCEPT !.kind = "replaced"]
        BY <1>1, <2>1
      <3> QED
        BY <1>2, <2>1, <3>1 DEF Cell, Kinds, SameCell
    <2>2. CASE ~((chunk[k].kind = "lead" /\ k = n) \/ (chunk[k].kind = "trail" /\ k = 1))
      <3>1. d[k] = chunk[k]
        BY <1>1, <2>2
      <3> QED
        BY <1>2, <3>1 DEF SameCell
    <2> QED
      BY <2>1, <2>2
  <1>4. DOMAIN d = 1..n
    BY <1>1
  <1>5. d \in [1..n -> Cell]
    BY <1>1, <1>3
  <1>6. d \in Seq(Cell)
    BY <1>0, <1>5, SeqDef
  <1>7. Len(d) = n
    <2>1. 1..Len(d) = 1..n /\ Len(d) \in Nat
      BY <1>4, <1>6, LenProperties
    <2> QED
      BY <1>0, <2>1
  <1> QED
    BY <1>3, <1>6, <1>7 DEF n, d

-----------------------------------------------------------------------------
(* Messages, routes and replies *)

Ids     ==
    {"null"} \cup
    UNION {UNION {m.reads[p].id : p \in 1..Len(m.cells)} : m \in Messages}
Answers == {"parseError", "internalError", "invalidRequest", "invalidParams",
            "result", "methodNotFound"}
Silent  == {"notify", "ignore", "authorize", "forward"}
Steps   == {"authorizing", "forwarded", "over"}

(* What a line reads as is one of the texts of the messages.               *)
LEMMA ReadsType ==
    ASSUME stream \in Streams, NEW line \in Line
    PROVE  /\ Message(line) \in Messages
           /\ line[1].part \in 1..Len(Message(line).cells)
           /\ Reads(line).json \in {"object", "null", "bad", "blank"}
           /\ Reads(line).version \in BOOLEAN /\ Reads(line).valid \in BOOLEAN
           /\ Reads(line).id # {} =>
                 Reads(line).method \in {"tools/call", "initialize", "tools/list", "other"}
  <1>1. line \in Seq(Cell) /\ line # << >> /\ line[1].kind # "newline"
    BY DEF Line
  <1>2. Len(line) \in Nat /\ Len(line) # 0
    BY <1>1, LenProperties, EmptySeq
  <1>3. line[1] \in Cell
    BY <1>1, <1>2, ElementOfSeq
  <1>4. stream \in Seq(Messages)
    BY StdioServerAssumption
  <1>5. Source(line) \in 1..Len(stream)
    BY <1>3 DEF Source, Cell
  <1>6. Message(line) \in Messages
    BY <1>4, <1>5, ElementOfSeq DEF Message
  <1>7. line[1].part \in 1..Len(Message(line).cells)
    BY <1>1, <1>3 DEF Cell, Message, Source
  <1> QED
    BY <1>6, <1>7, StdioServerAssumption DEF Reads

(* What a line may be taken for, and the ids it may be answered with.      *)
LEMMA RouteType ==
    ASSUME stream \in Streams, NEW line \in Line
    PROVE  /\ Route(line) \in Answers \cup Silent /\ Id(line) \in Ids
           /\ Route(line) = "internalError" => Id(line) = "null"
           /\ Unasked(Reads(line)) <=> Route(line) \in {"notify", "ignore"}
  <1> DEFINE m == Reads(line)
  <1>1. /\ m.json \in {"object", "null", "bad", "blank"}
        /\ m.version \in BOOLEAN /\ m.valid \in BOOLEAN
        /\ m.id # {} => m.method \in {"tools/call", "initialize", "tools/list", "other"}
    BY ReadsType
  <1>2. RouteNotification(m) \in {"notify", "ignore"}
    BY DEF RouteNotification
  <1>3. m.id # {} => RouteRequest(m) \in
           (Answers \cup Silent) \ {"internalError", "notify", "ignore"}
    <2> HIDE DEF m
    <2> QED
      BY <1>1 DEF RouteRequest, Answers, Silent
  <1>4. Route(line) = IF m.json = "blank" THEN "ignore"
                      ELSE IF m.json = "bad" THEN "parseError"
                      ELSE IF m.json = "null" THEN "internalError"
                      ELSE IF ~m.version THEN "invalidRequest"
                      ELSE IF m.id = {} THEN RouteNotification(m)
                      ELSE RouteRequest(m)
    BY DEF Route
  <1>5. Unasked(m) <=> m.json = "blank" \/ (m.json = "object" /\ m.version /\ m.id = {})
    BY DEF Unasked
  <1>6. Id(line) = IF m.json = "object" /\ m.id # {} THEN CHOOSE id \in m.id : TRUE ELSE "null"
    BY DEF Id
  <1>7. m.id # {} => Id(line) \in m.id \cup {"null"}
    BY <1>6
  <1>8. m.id # {} => m.id \subseteq Ids
    BY ReadsType DEF Ids, Reads
  <1>9. Id(line) \in Ids
    BY <1>6, <1>7, <1>8 DEF Ids
  <1> HIDE DEF m
  <1>10. Route(line) \in Answers \cup Silent
    BY <1>2, <1>3, <1>4 DEF Answers, Silent
  <1>11. Route(line) = "internalError" => m.json # "object"
    BY <1>1, <1>2, <1>3, <1>4
  <1>12. Unasked(m) <=> Route(line) \in {"notify", "ignore"}
    BY <1>1, <1>2, <1>3, <1>4, <1>5
  <1> QED
    BY <1>6, <1>9, <1>10, <1>11, <1>12 DEF m

(* Where a handler first stops.                                            *)
LEMMA FirstStepType ==
    ASSUME NEW route
    PROVE  FirstStep(route) = IF route = "authorize" THEN "authorizing"
                              ELSE IF route = "forward" THEN "forwarded" ELSE "over"
  BY DEF FirstStep

(* A function on 1..n is a sequence of that length. *)
LEMMA AsSequence ==
    ASSUME NEW n \in Nat, NEW S, NEW f, f \in [1..n -> S]
    PROVE  f \in Seq(S) /\ Len(f) = n
  <1>1. f \in Seq(S)
    BY SeqDef
  <1>2. 1..Len(f) = 1..n /\ Len(f) \in Nat
    BY <1>1, LenProperties
  <1> QED
    BY <1>1, <1>2

(* The replies to those of a batch of lines, handled at the places after   *)
(* n, that are taken for one of W, in order.                               *)
RepliesTo(lines, n, W) ==
    FlattenSeq([k \in 1..Len(lines) |->
        IF Route(lines[k]) \in W
          THEN << Reply(n + k, Id(lines[k]), Route(lines[k])) >> ELSE << >>])

ReplyTo(places) == [of : places, id : Ids, what : Answers]

(* Of a batch, each line taken for one of W has one reply, with its id.    *)
LEMMA RepliesOf ==
    ASSUME stream \in Streams, NEW lines \in Seq(Line), NEW n \in Nat,
           NEW W, W \subseteq Answers
    PROVE  /\ RepliesTo(lines, n, W) \in Seq(ReplyTo(n+1..n+Len(lines)))
           /\ \A i, j \in 1..Len(RepliesTo(lines, n, W)) :
                 RepliesTo(lines, n, W)[i].of = RepliesTo(lines, n, W)[j].of => i = j
           /\ \A k \in 1..Len(lines) :
                 /\ Route(lines[k]) \notin W =>
                       \A j \in 1..Len(RepliesTo(lines, n, W)) : RepliesTo(lines, n, W)[j].of # n + k
                 /\ Route(lines[k]) \in W =>
                       \E j \in 1..Len(RepliesTo(lines, n, W)) : RepliesTo(lines, n, W)[j].of = n + k
           /\ \A j \in 1..Len(RepliesTo(lines, n, W)), k \in 1..Len(lines) :
                 RepliesTo(lines, n, W)[j].of = n + k => RepliesTo(lines, n, W)[j].id = Id(lines[k])
  <1> DEFINE m == Len(lines)
             R == ReplyTo(n+1..n+m)
             rep(k) == Reply(n + k, Id(lines[k]), Route(lines[k]))
             ss == [k \in 1..m |->
                       IF Route(lines[k]) \in W THEN << rep(k) >> ELSE << >>]
             r == RepliesTo(lines, n, W)
  <1>0. m \in Nat /\ \A k \in 1..m : lines[k] \in Line
    BY LenProperties, ElementOfSeq
  <1>1. r = FlattenSeq(ss)
    BY DEF RepliesTo, rep
  <1>2. \A k \in 1..m : ss[k] = IF Route(lines[k]) \in W THEN << rep(k) >> ELSE << >>
    OBVIOUS
  <1> HIDE DEF m, r
  <1>3. ASSUME NEW k \in 1..m
        PROVE  /\ rep(k).of = n + k /\ rep(k).id = Id(lines[k])
               /\ Route(lines[k]) \in W => rep(k) \in R
    <2>1. Route(lines[k]) \in Answers \cup Silent /\ Id(lines[k]) \in Ids
      BY <1>0, RouteType
    <2>2. n + k \in n+1..n+m
      BY <1>0
    <2> QED
      BY <2>1, <2>2 DEF Reply, ReplyTo
  <1> HIDE DEF rep, R
  <1>4. ss \in Seq(Seq(R)) /\ Len(ss) = m
    <2>1. ASSUME NEW k \in 1..m
          PROVE  ss[k] \in Seq(R)
      <3>1. CASE Route(lines[k]) \notin W
        BY <1>2, <3>1, EmptySeq
      <3>2. CASE Route(lines[k]) \in W
        <4>1. << rep(k) >> \in Seq(R)
          BY <1>3, <3>2
        <4> QED
          BY <1>2, <3>2, <4>1
      <3> QED
        BY <3>1, <3>2
    <2>2. ss \in [1..m -> Seq(R)]
      BY <2>1
    <2> QED
      BY <1>0, <2>2, AsSequence
  <1> HIDE DEF ss
  <1>5. \A k \in 1..m : ss[k] = << >> \/ Len(ss[k]) = 1
    BY <1>2, One
  <1>6. r \in Seq(R)
    BY <1>1, <1>4, <1>5, FlattenPicks
  <1>7. PICK o : Picks(o, r, ss, m)
    BY <1>1, <1>4, <1>5, FlattenPicks
  <1>8. \A k \in 1..m : ss[k] # << >> <=> Route(lines[k]) \in W
    BY <1>2, One
  <1>9. \A k \in 1..m : ss[k] # << >> => ss[k][1] = rep(k)
    BY <1>2, One
  <1>10. \A j \in 1..Len(r) : /\ o[j] \in 1..m /\ Route(lines[o[j]]) \in W
                              /\ r[j].of = n + o[j] /\ r[j].id = Id(lines[o[j]])
    BY <1>3, <1>7, <1>8, <1>9 DEF Picks
  <1>11. ASSUME NEW i \in 1..Len(r), NEW j \in 1..Len(r), r[i].of = r[j].of
         PROVE  i = j
    <2>1. o[i] = o[j]
      BY <1>10, <1>11
    <2>2. i \in Nat /\ j \in Nat
      OBVIOUS
    <2>3. ~(i < j) /\ ~(j < i)
      BY <1>7, <1>10, <2>1 DEF Picks
    <2> QED
      BY <2>2, <2>3
  <1>12. ASSUME NEW k \in 1..m, Route(lines[k]) \notin W, NEW j \in 1..Len(r), r[j].of = n + k
         PROVE  FALSE
    <2>1. o[j] = k
      BY <1>10, <1>12
    <2> QED
      BY <1>10, <1>12, <2>1
  <1>13. ASSUME NEW k \in 1..m, Route(lines[k]) \in W
         PROVE  \E j \in 1..Len(r) : r[j].of = n + k
    <2>1. PICK j \in 1..Len(r) : o[j] = k
      BY <1>7, <1>8, <1>13 DEF Picks
    <2> QED
      BY <1>10, <2>1
  <1>14. ASSUME NEW j \in 1..Len(r), NEW k \in 1..m, r[j].of = n + k
         PROVE  r[j].id = Id(lines[k])
    <2>1. o[j] = k
      BY <1>10, <1>14
    <2> QED
      BY <1>10, <2>1
  <1> QED
    BY <1>6, <1>11, <1>12, <1>13, <1>14 DEF r, m, R

(* What a batch is answered by the handlers before they await anything,    *)
(* and then by the catch.                                                  *)
Batch(lines, n) ==
    RepliesTo(lines, n, Answers \ {"internalError"}) \o RepliesTo(lines, n, {"internalError"})

(* Of a batch, each line that is not silent has one answer, with its id.   *)
LEMMA BatchAnswers ==
    ASSUME stream \in Streams, NEW lines \in Seq(Line), NEW n \in Nat
    PROVE  /\ Batch(lines, n) \in Seq(ReplyTo(n+1..n+Len(lines)))
           /\ \A i, j \in 1..Len(Batch(lines, n)) :
                 Batch(lines, n)[i].of = Batch(lines, n)[j].of => i = j
           /\ \A k \in 1..Len(lines) :
                 /\ Route(lines[k]) \in Silent =>
                       \A j \in 1..Len(Batch(lines, n)) : Batch(lines, n)[j].of # n + k
                 /\ Route(lines[k]) \notin Silent =>
                       \E j \in 1..Len(Batch(lines, n)) : Batch(lines, n)[j].of = n + k
           /\ \A j \in 1..Len(Batch(lines, n)), k \in 1..Len(lines) :
                 Batch(lines, n)[j].of = n + k => Batch(lines, n)[j].id = Id(lines[k])
  <1> DEFINE m == Len(lines)
             R == ReplyTo(n+1..n+m)
             V == Answers \ {"internalError"}
             W == {"internalError"}
             a == RepliesTo(lines, n, V)
             b == RepliesTo(lines, n, W)
             A == Len(a)
             B == Len(b)
             r == Batch(lines, n)
  <1>0. m \in Nat /\ \A k \in 1..m : lines[k] \in Line
    BY LenProperties, ElementOfSeq
  <1>1. V \subseteq Answers /\ W \subseteq Answers
    BY DEF Answers
  <1>2. /\ a \in Seq(R)
        /\ \A i, j \in 1..A : a[i].of = a[j].of => i = j
        /\ \A k \in 1..m : Route(lines[k]) \notin V => \A j \in 1..A : a[j].of # n + k
        /\ \A k \in 1..m : Route(lines[k]) \in V => \E j \in 1..A : a[j].of = n + k
        /\ \A j \in 1..A, k \in 1..m : a[j].of = n + k => a[j].id = Id(lines[k])
    <2> HIDE DEF V
    <2> QED
      BY <1>1, RepliesOf
  <1>3. /\ b \in Seq(R)
        /\ \A i, j \in 1..B : b[i].of = b[j].of => i = j
        /\ \A k \in 1..m : Route(lines[k]) \notin W => \A j \in 1..B : b[j].of # n + k
        /\ \A k \in 1..m : Route(lines[k]) \in W => \E j \in 1..B : b[j].of = n + k
        /\ \A j \in 1..B, k \in 1..m : b[j].of = n + k => b[j].id = Id(lines[k])
    <2> HIDE DEF W
    <2> QED
      BY <1>1, RepliesOf
  <1>4. r = a \o b
    BY DEF Batch
  <1>5. \A k \in 1..m : Route(lines[k]) \in Answers \cup Silent
    BY <1>0, RouteType
  <1>6. \A k \in 1..m :
           /\ Route(lines[k]) \in Silent => Route(lines[k]) \notin V /\ Route(lines[k]) \notin W
           /\ Route(lines[k]) \notin Silent => Route(lines[k]) \in V \/ Route(lines[k]) \in W
           /\ Route(lines[k]) \notin V \/ Route(lines[k]) \notin W
    BY <1>5 DEF Answers, Silent
  <1> HIDE DEF m, V, W, a, b, r
  <1>7. A \in Nat /\ B \in Nat
    BY <1>2, <1>3, LenProperties
  <1>8. /\ r \in Seq(R) /\ Len(r) = A + B
        /\ \A j \in 1..A+B : r[j] = IF j <= A THEN a[j] ELSE b[j - A]
    BY <1>2, <1>3, <1>4, ConcatProperties
  <1>9. \A j \in 1..A : \E k \in 1..m : a[j].of = n + k
    <2> SUFFICES ASSUME NEW j \in 1..A
                 PROVE  \E k \in 1..m : a[j].of = n + k
      OBVIOUS
    <2>1. a[j].of \in n+1..n+m
      <3>1. a[j] \in R
        <4> HIDE DEF R
        <4> QED
          BY <1>2, <1>7, ElementOfSeq
      <3> QED
        BY <3>1 DEF ReplyTo
    <2>2. a[j].of - n \in 1..m /\ a[j].of = n + (a[j].of - n)
      BY <1>0, <2>1
    <2> QED
      BY <2>2
  <1> HIDE DEF A, B, R
  <1>10. \A j \in 1..A, i \in 1..B : a[j].of # b[i].of
    <2> SUFFICES ASSUME NEW j \in 1..A, NEW i \in 1..B, a[j].of = b[i].of
                 PROVE  FALSE
      OBVIOUS
    <2>1. PICK k \in 1..m : a[j].of = n + k
      BY <1>9
    <2> QED
      BY <1>2, <1>3, <1>6, <2>1
  <1>11. \A j \in 1..A+B : /\ j <= A => j \in 1..A /\ r[j] = a[j]
                           /\ ~(j <= A) => j - A \in 1..B /\ r[j] = b[j - A]
    BY <1>7, <1>8
  <1>12. \A j \in 1..A : j \in 1..A+B /\ r[j] = a[j]
    BY <1>7, <1>8
  <1>13. \A j \in 1..B : A + j \in 1..A+B /\ r[A + j] = b[j]
    <2> SUFFICES ASSUME NEW j \in 1..B
                 PROVE  A + j \in 1..A+B /\ r[A + j] = b[j]
      OBVIOUS
    <2>1. A + j \in 1..A+B /\ ~(A + j <= A) /\ (A + j) - A = j
      BY <1>7
    <2> QED
      BY <1>8, <2>1
  <1>14. ASSUME NEW i \in 1..A+B, NEW j \in 1..A+B, r[i].of = r[j].of
         PROVE  i = j
    <2>1. CASE i <= A /\ j <= A
      BY <1>2, <1>11, <1>14, <2>1
    <2>2. CASE i <= A /\ ~(j <= A)
      BY <1>10, <1>11, <1>14, <2>2
    <2>3. CASE ~(i <= A) /\ j <= A
      BY <1>10, <1>11, <1>14, <2>3
    <2>4. CASE ~(i <= A) /\ ~(j <= A)
      <3>1. i - A = j - A
        BY <1>3, <1>11, <1>14, <2>4
      <3> QED
        BY <1>7, <3>1
    <2> QED
      BY <2>1, <2>2, <2>3, <2>4
  <1>15. ASSUME NEW k \in 1..m, Route(lines[k]) \in Silent, NEW j \in 1..A+B
         PROVE  r[j].of # n + k
    BY <1>2, <1>3, <1>6, <1>11, <1>15
  <1>16. ASSUME NEW k \in 1..m, Route(lines[k]) \notin Silent
         PROVE  \E j \in 1..A+B : r[j].of = n + k
    <2>1. CASE Route(lines[k]) \in V
      BY <1>2, <1>12, <2>1
    <2>2. CASE Route(lines[k]) \in W
      BY <1>3, <1>13, <2>2
    <2> QED
      BY <1>6, <1>16, <2>1, <2>2
  <1>17. ASSUME NEW j \in 1..A+B, NEW k \in 1..m, r[j].of = n + k
         PROVE  r[j].id = Id(lines[k])
    BY <1>2, <1>3, <1>11, <1>17
  <1>18. Len(r) = A + B /\ r \in Seq(R)
    BY <1>8
  <1> QED
    BY <1>14, <1>15, <1>16, <1>17, <1>18 DEF r, m, R

(* What is forwarded at once of such a batch, in order. *)
Passed(lines, n) ==
    FlattenSeq([k \in 1..Len(lines) |-> ForwardedAtOnce(n + k, lines[k])])

(* Of a batch, what is forwarded at once is in the order of the lines.     *)
LEMMA BatchForwards ==
    ASSUME NEW lines \in Seq(Line), NEW n \in Nat
    PROVE  /\ Passed(lines, n) \in Seq(n+1..n+Len(lines))
           /\ \A i, j \in 1..Len(Passed(lines, n)) :
                 i < j => Passed(lines, n)[i] < Passed(lines, n)[j]
  <1> DEFINE m == Len(lines)
             R == n+1..n+m
             goes(k) == Route(lines[k]) = "notify" \/ FirstStep(Route(lines[k])) = "forwarded"
             ss == [k \in 1..m |-> ForwardedAtOnce(n + k, lines[k])]
             r == Passed(lines, n)
  <1>0. m \in Nat
    BY LenProperties
  <1>1. r = FlattenSeq(ss)
    BY DEF Passed
  <1>2. \A k \in 1..m : ss[k] = IF goes(k) THEN << n + k >> ELSE << >>
    BY DEF ForwardedAtOnce
  <1> HIDE DEF m, r, goes
  <1>4. ss \in Seq(Seq(R)) /\ Len(ss) = m
    <2>1. ASSUME NEW k \in 1..m
          PROVE  ss[k] \in Seq(R)
      <3>1. CASE ~goes(k)
        BY <1>2, <3>1, EmptySeq
      <3>2. CASE goes(k)
        <4>1. n + k \in R
          BY <1>0
        <4> HIDE DEF R
        <4>2. << n + k >> \in Seq(R)
          BY <4>1
        <4> QED
          BY <1>2, <3>2, <4>2
      <3> QED
        BY <3>1, <3>2
    <2>2. ss \in [1..m -> Seq(R)]
      BY <2>1
    <2> HIDE DEF R, ss
    <2> QED
      BY <1>0, <2>2, AsSequence
  <1> HIDE DEF ss, R
  <1>5. \A k \in 1..m : ss[k] = << >> \/ Len(ss[k]) = 1
    BY <1>2, One
  <1>6. r \in Seq(R)
    BY <1>1, <1>4, <1>5, FlattenPicks
  <1>7. PICK o : Picks(o, r, ss, m)
    BY <1>1, <1>4, <1>5, FlattenPicks
  <1>8. \A k \in 1..m : ss[k] # << >> => ss[k][1] = n + k
    BY <1>2, One
  <1>9. \A j \in 1..Len(r) : o[j] \in 1..m /\ r[j] = n + o[j]
    BY <1>7, <1>8 DEF Picks
  <1>10. ASSUME NEW i \in 1..Len(r), NEW j \in 1..Len(r), i < j
         PROVE  r[i] < r[j]
    <2>1. o[i] < o[j]
      BY <1>7, <1>10 DEF Picks
    <2> QED
      BY <1>9, <2>1
  <1> QED
    BY <1>6, <1>10 DEF r, m, R

(* handleLine is called for each line of a batch. *)
LEMMA HandleLinesEffect ==
    ASSUME stream \in Streams, NEW lines \in Seq(Line), HandleLines(lines)
    PROVE  /\ handled' = handled \o lines
           /\ step' = step \o [k \in 1..Len(lines) |-> FirstStep(Route(lines[k]))]
           /\ replies' = replies \o Batch(lines, Len(handled))
           /\ forwarded' = forwarded \o Passed(lines, Len(handled))
  <1> DEFINE m == Len(lines)
             n == Len(handled)
             V == Answers \ {"internalError"}
             places == [k \in 1..m |-> n + k]
             atOnce == [k \in 1..m |-> AnsweredAtOnce(places[k], lines[k])]
             byCatch == [k \in 1..m |-> AnsweredByCatch(places[k], lines[k])]
             passed == [k \in 1..m |-> ForwardedAtOnce(places[k], lines[k])]
  <1>1. DOMAIN lines = 1..m /\ m \in Nat /\ \A k \in 1..m : lines[k] \in Line
    BY LenProperties, ElementOfSeq
  <1>2. /\ handled' = handled \o lines
        /\ step' = step \o [k \in 1..m |-> FirstStep(Route(lines[k]))]
        /\ replies' = replies \o (FlattenSeq(atOnce) \o FlattenSeq(byCatch))
        /\ forwarded' = forwarded \o FlattenSeq(passed)
    BY <1>1 DEF HandleLines
  <1>3. \A k \in 1..m : places[k] = n + k
    OBVIOUS
  <1> HIDE DEF places, m, n
  <1>4. \A k \in 1..m :
           /\ Route(lines[k]) \in Answers \cup Silent
           /\ Route(lines[k]) = "internalError" => Id(lines[k]) = "null"
    BY <1>1, RouteType
  <1>5. atOnce = [k \in 1..m |-> IF Route(lines[k]) \in V
                    THEN << Reply(n + k, Id(lines[k]), Route(lines[k])) >> ELSE << >>]
    <2>1. ASSUME NEW k \in 1..m
          PROVE  AnsweredAtOnce(places[k], lines[k]) =
                    IF Route(lines[k]) \in V
                      THEN << Reply(n + k, Id(lines[k]), Route(lines[k])) >> ELSE << >>
      <3>1. Route(lines[k]) \in V <=>
               Route(lines[k]) \notin {"notify", "ignore", "authorize", "forward", "internalError"}
        BY <1>4 DEF Answers, Silent
      <3> QED
        BY <1>3, <3>1 DEF AnsweredAtOnce
    <2> QED
      BY <2>1
  <1>6. byCatch = [k \in 1..m |-> IF Route(lines[k]) \in {"internalError"}
                     THEN << Reply(n + k, Id(lines[k]), Route(lines[k])) >> ELSE << >>]
    <2>1. ASSUME NEW k \in 1..m
          PROVE  AnsweredByCatch(places[k], lines[k]) =
                    IF Route(lines[k]) \in {"internalError"}
                      THEN << Reply(n + k, Id(lines[k]), Route(lines[k])) >> ELSE << >>
      BY <1>3, <1>4 DEF AnsweredByCatch
    <2> QED
      BY <2>1
  <1>7. passed = [k \in 1..m |-> ForwardedAtOnce(n + k, lines[k])]
    BY <1>3
  <1> QED
    BY <1>2, <1>5, <1>6, <1>7 DEF Batch, RepliesTo, Passed, m, n

-----------------------------------------------------------------------------
(* The bytes of the client *)

LEMMA StreamType ==
    ASSUME stream \in Streams
    PROVE  /\ stream \in Seq(Messages) /\ Len(stream) \in Nat
           /\ DOMAIN stream = 1..Len(stream)
           /\ \A i \in 1..Len(stream) : /\ stream[i] \in Messages
                                        /\ stream[i].cells \in Seq({"byte", "lead", "trail"})
  BY StdioServerAssumption, ElementOfSeq, LenProperties

(* Line i of the stream, with its newline. *)
LEMMA BytesShape ==
    ASSUME stream \in Streams, NEW i \in 1..Len(stream)
    PROVE  /\ Bytes(i) \in Seq(Cell)
           /\ Len(Bytes(i)) = Len(stream[i].cells) + 1
           /\ \A p \in 1..Len(Bytes(i)) :
                 /\ Bytes(i)[p].line = i /\ Bytes(i)[p].part = p
                 /\ Bytes(i)[p].kind = IF p = Len(stream[i].cells) + 1 THEN "newline"
                                       ELSE stream[i].cells[p]
  <1> DEFINE c == stream[i].cells
             n == Len(c)
             d == Append(c, "newline")
             b == Bytes(i)
  <1>1. c \in Seq({"byte", "lead", "trail"}) /\ c \in Seq(Kinds) /\ n \in Nat
    <2>1. c \in Seq({"byte", "lead", "trail"})
      BY StreamType
    <2>2. n \in Nat /\ c \in [1..n -> {"byte", "lead", "trail"}]
      BY <2>1, LenProperties
    <2>3. c \in [1..n -> Kinds]
      BY <2>2 DEF Kinds
    <2>4. c \in Seq(Kinds)
      BY <2>2, <2>3, SeqDef
    <2> QED
      BY <2>1, <2>2, <2>4
  <1> HIDE DEF c
  <1>2. /\ d \in Seq(Kinds) /\ Len(d) = n + 1
        /\ \A p \in 1..n : d[p] = c[p]
        /\ d[n+1] = "newline"
    BY <1>1, AppendProperties DEF Kinds
  <1>3. DOMAIN d = 1..n+1
    BY <1>2, LenProperties
  <1>4. b = [p \in 1..n+1 |-> [line |-> i, part |-> p, kind |-> d[p]]]
    BY <1>3 DEF Bytes, c
  <1> HIDE DEF d, n
  <1>5. ASSUME NEW p \in 1..n+1
        PROVE  /\ b[p] \in Cell
               /\ b[p].line = i /\ b[p].part = p
               /\ b[p].kind = IF p = n + 1 THEN "newline" ELSE c[p]
    <2>1. d[p] \in Kinds
      BY <1>1, <1>2, ElementOfSeq
    <2>2. d[p] = IF p = n + 1 THEN "newline" ELSE c[p]
      BY <1>1, <1>2
    <2>3. b[p] = [line |-> i, part |-> p, kind |-> d[p]]
      BY <1>4
    <2>4. p \in Nat /\ (p # n + 1 => p \in 1..n)
      BY <1>1
    <2>5. b[p].kind # "newline" => b[p].part \in 1..Len(stream[b[p].line].cells)
      <3>1. b[p].kind # "newline" => p \in 1..n
        BY <1>2, <2>3, <2>4
      <3>2. b[p].part = p /\ b[p].line = i
        BY <2>3
      <3> QED
        BY <3>1, <3>2 DEF n, c
    <2>6. b[p] \in [line : 1..Len(stream), part : Nat, kind : Kinds]
      BY <2>1, <2>3, <2>4
    <2> QED
      BY <2>2, <2>3, <2>5, <2>6 DEF Cell
  <1> HIDE DEF b
  <1>6. b \in [1..n+1 -> Cell]
    BY <1>4, <1>5
  <1>7. b \in Seq(Cell) /\ Len(b) = n + 1
    BY <1>1, <1>6, AsSequence
  <1> QED
    BY <1>5, <1>7 DEF b, c, n

(* What the client writes is a text.                                       *)
LEMMA WrittenType ==
    ASSUME stream \in Streams
    PROVE  Written \in Seq(Cell) /\ Len(Written) \in Nat
  <1> DEFINE ss == [i \in 1..Len(stream) |-> Bytes(i)]
  <1>1. Written = FlattenSeq(ss)
    BY StreamType DEF Written
  <1>2. ss \in [1..Len(stream) -> Seq(Cell)]
    BY BytesShape
  <1>3. ss \in Seq(Seq(Cell))
    BY <1>2, StreamType, AsSequence
  <1> HIDE DEF ss
  <1>4. PICK f \in [0..Len(ss) -> Seq(Cell)] : FlattenSeq(ss) = f[Len(ss)]
    BY <1>3, FlattenJoins
  <1>5. Len(ss) \in 0..Len(ss)
    BY <1>3, LenProperties
  <1>6. Written \in Seq(Cell)
    BY <1>1, <1>4, <1>5
  <1> QED
    BY <1>6, LenProperties

(* The stream never changes, and with it what is defined by it. *)
LEMMA Chosen ==
    ASSUME UNCHANGED chosen
    PROVE  /\ mode' = mode /\ stream' = stream
           /\ Written' = Written /\ Cell' = Cell /\ Line' = Line
           /\ \A line : Route(line)' = Route(line) /\ Id(line)' = Id(line)
                        /\ Whole(line)' = Whole(line)
  <1>1. mode' = mode /\ stream' = stream
    BY DEF chosen
  <1>2. Written' = Written
    BY <1>1 DEF Written, Bytes
  <1>3. Cell' = Cell
    BY <1>1 DEF Cell
  <1>4. Line' = Line
    BY <1>3 DEF Line
  <1>5. \A line : Route(line)' = Route(line) /\ Id(line)' = Id(line)
                  /\ Whole(line)' = Whole(line)
    BY <1>1 DEF Route, RouteNotification, RouteRequest, Id, Whole, Message, Reads
  <1> QED
    BY <1>1, <1>2, <1>3, <1>4, <1>5

(* The end of a text is no longer than the text. *)
LEMMA LengthOfEnd ==
    ASSUME NEW S, NEW s \in Seq(S), NEW r \in 0..Len(s)
    PROVE  /\ Length(s) \in Nat /\ Length(SubSeq(s, r + 1, Len(s))) \in Nat
           /\ Length(SubSeq(s, r + 1, Len(s))) <= Length(s)
           /\ Length(s) <= Len(s)
  <1> DEFINE N == Len(s)
             t == SubSeq(s, r + 1, N)
             A == {k \in DOMAIN t : t[k].kind # "trail"}
             B == {k \in DOMAIN s : s[k].kind # "trail"}
             f == [k \in A |-> k + r]
  <1>0. N \in Nat /\ DOMAIN s = 1..N
    BY LenProperties
  <1>1. t \in Seq(S) /\ Len(t) = N - r /\ \A q \in 1..Len(t) : t[q] = s[q + r]
    <2>1. r + 1 \in Int /\ N \in Int /\ 1 <= r + 1
      BY <1>0
    <2>2. /\ t \in Seq(S)
          /\ Len(t) = IF r + 1 <= N THEN N - (r + 1) + 1 ELSE 0
          /\ \A q \in 1..Len(t) : t[q] = s[(r + 1) + q - 1]
      BY <2>1, SubText
    <2> DEFINE m == Len(t)
    <2>3. /\ m = (IF r + 1 <= N THEN N - (r + 1) + 1 ELSE 0)
          /\ \A q \in 1..m : t[q] = s[(r + 1) + q - 1]
      BY <2>2
    <2> HIDE DEF t, N, m
    <2>4. r \in Int /\ r <= N
      BY <1>0 DEF N
    <2>5. m = N - r /\ m \in Nat
      BY <1>0, <2>3, <2>4
    <2>6. \A q \in 1..m : (r + 1) + q - 1 = q + r
      BY <2>4, <2>5
    <2>7. \A q \in 1..m : t[q] = s[q + r]
      BY <2>3, <2>6
    <2> QED
      BY <2>2, <2>5, <2>7 DEF m
  <1>2. DOMAIN t = 1..N-r
    BY <1>1, LenProperties
  <1> HIDE DEF t, N
  <1>3. IsFiniteSet(B) /\ Cardinality(B) \in Nat /\ Cardinality(B) <= N
    <2>1. IsFiniteSet(1..N) /\ Cardinality(1..N) = N
      BY <1>0, FS_Interval
    <2>2. B \in SUBSET (1..N)
      BY <1>0
    <2> HIDE DEF B
    <2> QED
      BY <2>1, <2>2, FS_Subset, FS_CardinalityType
  <1>4. f \in Injection(A, B)
    <2>1. \A k \in A : k + r \in B
      <3> SUFFICES ASSUME NEW k \in A
                   PROVE  k + r \in B
        OBVIOUS
      <3>1. k \in 1..N-r /\ t[k].kind # "trail"
        BY <1>2
      <3>2. k \in 1..Len(t) /\ t[k] = s[k + r]
        BY <1>1, <3>1
      <3>3. k + r \in 1..N
        BY <1>0, <3>1
      <3> QED
        BY <1>0, <3>1, <3>2, <3>3
    <2>2. \A k \in A : k \in Int
      BY <1>0, <1>2
    <2> HIDE DEF A, B
    <2>3. f \in [A -> B]
      BY <2>1
    <2>4. \A a, b \in A : f[a] = f[b] => a = b
      BY <2>2
    <2> HIDE DEF f
    <2> QED
      BY <2>3, <2>4, Fun_IsInj
  <1>5. IsFiniteSet(A) /\ Cardinality(A) <= Cardinality(B)
    <2> HIDE DEF A, B, f
    <2> QED
      BY <1>3, <1>4, FS_Injection
  <1>6. Cardinality(A) \in Nat
    BY <1>5, FS_CardinalityType
  <1> QED
    BY <1>3, <1>5, <1>6 DEF Length, t, N

-----------------------------------------------------------------------------
(* The type invariant *)

TypeInv ==
    /\ mode \in Modes /\ stream \in Streams
    /\ sent \in 0..Len(Written)
    /\ buffer \in Seq(Cell) /\ Length(buffer) <= MaxBuffer
    /\ handled \in Seq(Line)
    /\ step \in [1..Len(handled) -> Steps]
    /\ forwarded \in Seq(1..Len(handled))
    /\ replies \in Seq(ReplyTo(1..Len(handled)))
    /\ resets \subseteq 0..Len(handled)

(* The type invariant of the proofs is as strong as that of the model.     *)
LEMMA TypeInvImplies == TypeInv => TypeOK
  <1> SUFFICES ASSUME TypeInv
               PROVE  TypeOK
    OBVIOUS
  <1>1. DOMAIN handled = 1..Len(handled)
    BY LenProperties DEF TypeInv
  <1>2. Range(forwarded) \subseteq DOMAIN handled
    <2>1. DOMAIN forwarded = 1..Len(forwarded)
      BY LenProperties DEF TypeInv
    <2>2. \A k \in DOMAIN forwarded : forwarded[k] \in 1..Len(handled)
      BY <2>1, ElementOfSeq DEF TypeInv
    <2> QED
      BY <1>1, <2>2 DEF Range
  <1>3. \A k \in DOMAIN replies : replies[k].of \in DOMAIN handled
    <2>1. DOMAIN replies = 1..Len(replies)
      BY LenProperties DEF TypeInv
    <2>2. \A k \in DOMAIN replies : replies[k] \in ReplyTo(1..Len(handled))
      BY <2>1, ElementOfSeq DEF TypeInv
    <2> QED
      BY <1>1, <2>2 DEF ReplyTo
  <1> QED
    BY <1>1, <1>2, <1>3 DEF TypeInv, TypeOK, Steps

(* The text that a "data" event leaves to be cut or dropped: the buffer,   *)
(* and what was read now.                                                  *)
LEMMA DataReads ==
    ASSUME TypeInv, NEW n \in 1..MaxChunk, Data(n)
    PROVE  /\ sent + n <= Len(Written) /\ sent' = sent + n
           /\ \E s \in Seq(Cell) :
                 /\ Len(s) = Len(buffer) + n
                 /\ \A k \in 1..Len(buffer) : s[k] = buffer[k]
                 /\ \A k \in 1..n : SameCell(s[Len(buffer) + k], Written[sent + k])
                 /\ \/ Overflows(s) /\ DropBuffer(s)
                    \/ ~Overflows(s) /\ CutLines(s) /\ UNCHANGED resets
  <1> DEFINE chunk == SubSeq(Written, sent + 1, sent + n)
             d == Decode(chunk)
             s == buffer \o d
  <1>1. sent + n <= Len(Written) /\ sent' = sent + n
    BY DEF Data
  <1>2. /\ Written \in Seq(Cell) /\ Len(Written) \in Nat /\ sent \in Nat
        /\ n \in Nat /\ n > 0
        /\ buffer \in Seq(Cell) /\ Len(buffer) \in Nat
    BY WrittenType, LenProperties, StdioServerAssumption DEF TypeInv
  <1>3. /\ chunk \in Seq(Cell) /\ Len(chunk) = n
        /\ \A k \in 1..n : chunk[k] = Written[sent + k]
    <2>1. sent + 1 \in Int /\ sent + n \in Int /\ 1 <= sent + 1
      BY <1>2
    <2>2. /\ chunk \in Seq(Cell)
          /\ Len(chunk) = IF sent + 1 <= sent + n THEN (sent + n) - (sent + 1) + 1 ELSE 0
          /\ \A q \in 1..Len(chunk) : chunk[q] = Written[(sent + 1) + q - 1]
      BY <1>1, <1>2, <2>1, SubText
    <2> HIDE DEF chunk
    <2>3. Len(chunk) = n /\ \A k \in 1..n : (sent + 1) + k - 1 = sent + k
      BY <1>2, <2>2
    <2> QED
      BY <2>2, <2>3
  <1> HIDE DEF chunk
  <1>4. /\ d \in Seq(Cell) /\ Len(d) = n
        /\ \A k \in 1..n : SameCell(d[k], Written[sent + k])
    BY <1>3, DecodeKeeps
  <1>5. \/ Overflows(s) /\ DropBuffer(s)
        \/ ~Overflows(s) /\ CutLines(s) /\ UNCHANGED resets
    BY DEF Data, chunk
  <1> HIDE DEF d
  <1>6. /\ s \in Seq(Cell) /\ Len(s) = Len(buffer) + n
        /\ \A k \in 1..Len(buffer) + n :
              s[k] = IF k <= Len(buffer) THEN buffer[k] ELSE d[k - Len(buffer)]
    BY <1>2, <1>4, ConcatProperties
  <1> HIDE DEF s
  <1>7. \A k \in 1..Len(buffer) : s[k] = buffer[k]
    BY <1>2, <1>6
  <1>8. \A k \in 1..n : s[Len(buffer) + k] = d[k]
    <2> SUFFICES ASSUME NEW k \in 1..n
                 PROVE  s[Len(buffer) + k] = d[k]
      OBVIOUS
    <2>1. Len(buffer) + k \in 1..Len(buffer) + n /\ ~(Len(buffer) + k <= Len(buffer))
          /\ (Len(buffer) + k) - Len(buffer) = k
      BY <1>2
    <2> QED
      BY <1>6, <2>1
  <1> QED
    BY <1>1, <1>4, <1>5, <1>6, <1>7, <1>8
-----------------------------------------------------------------------------
(* What an event does to the sequences *)

LEMMA Widen ==
    ASSUME NEW S, NEW T, S \subseteq T, NEW s \in Seq(S)
    PROVE  s \in Seq(T)
  <1>1. s \in [1..Len(s) -> S] /\ Len(s) \in Nat
    BY LenProperties
  <1>2. s \in [1..Len(s) -> T]
    BY <1>1
  <1> QED
    BY <1>1, <1>2, AsSequence

(* handled and step before and after lines were handled. *)
Grown(lines) ==
    LET N == Len(handled)
    IN  /\ handled' \in Seq(Line) /\ Len(handled') = N + Len(lines)
        /\ \A h \in 1..N : handled'[h] = handled[h]
        /\ \A k \in 1..Len(lines) : handled'[N + k] = lines[k]
        /\ step' \in [1..N + Len(lines) -> Steps]
        /\ \A h \in 1..N : step'[h] = step[h]
        /\ \A k \in 1..Len(lines) : step'[N + k] = FirstStep(Route(lines[k]))

(* handleLine, called on each line of a batch, appends to both.            *)
LEMMA HandledGrows ==
    ASSUME TypeInv, NEW lines \in Seq(Line), HandleLines(lines)
    PROVE  Grown(lines)
  <1> DEFINE N == Len(handled)
             m == Len(lines)
             first == [k \in 1..m |-> FirstStep(Route(lines[k]))]
  <1>1. /\ handled' = handled \o lines
        /\ step' = step \o first
    BY HandleLinesEffect DEF TypeInv
  <1>2. handled \in Seq(Line) /\ N \in Nat /\ m \in Nat
    BY LenProperties DEF TypeInv
  <1>3. first \in [1..m -> Steps]
    BY FirstStepType DEF Steps
  <1>4. first \in Seq(Steps) /\ Len(first) = m
    BY <1>2, <1>3, AsSequence
  <1>5. step \in Seq(Steps) /\ Len(step) = N
    BY <1>2, AsSequence DEF TypeInv
  <1>6. \A k \in 1..m : first[k] = FirstStep(Route(lines[k]))
    OBVIOUS
  <1> HIDE DEF first
  <1>7. /\ handled' \in Seq(Line) /\ Len(handled') = N + m
        /\ \A h \in 1..N+m : handled'[h] = IF h <= N THEN handled[h] ELSE lines[h - N]
    BY <1>1, <1>2, ConcatProperties
  <1>8. /\ step' \in Seq(Steps) /\ Len(step') = N + m
        /\ \A h \in 1..N+m : step'[h] = IF h <= N THEN step[h] ELSE first[h - N]
    <2>1. /\ step \o first \in Seq(Steps) /\ Len(step \o first) = Len(step) + Len(first)
          /\ \A h \in 1..Len(step) + Len(first) :
                (step \o first)[h] = IF h <= Len(step) THEN step[h] ELSE first[h - Len(step)]
      BY <1>4, <1>5, ConcatProperties
    <2> QED
      BY <1>1, <1>4, <1>5, <2>1
  <1>9. step' \in [1..N+m -> Steps]
    BY <1>8, LenProperties, ElementOfSeq
  <1>10. \A k \in 1..m : N + k \in 1..N+m /\ ~(N + k <= N) /\ (N + k) - N = k
    BY <1>2
  <1>11. \A h \in 1..N : h \in 1..N+m /\ h <= N
    BY <1>2
  <1> HIDE DEF N, m
  <1>12. /\ \A h \in 1..N : handled'[h] = handled[h] /\ step'[h] = step[h]
         /\ \A k \in 1..m : handled'[N + k] = lines[k] /\ step'[N + k] = first[k]
    BY <1>7, <1>8, <1>10, <1>11
  <1> QED
    BY <1>6, <1>7, <1>9, <1>12 DEF Grown, N, m

-----------------------------------------------------------------------------

(* Nothing was read yet.                                                   *)
LEMMA TypeInit == ASSUME Init PROVE TypeInv
  <1>1. << >> \in Seq(Cell) /\ << >> \in Seq(Line) /\ Len(<< >>) = 0
    BY EmptySeq
  <1>2. /\ << >> \in Seq(1..0) /\ << >> \in Seq(ReplyTo(1..0))
        /\ << >> \in [1..0 -> Steps]
    BY EmptySeq
  <1>3. Length(<< >>) = 0
    BY FS_EmptySet DEF Length
  <1>4. 0 \in 0..Len(Written)
    BY WrittenType DEF Init
  <1> QED
    BY <1>1, <1>2, <1>3, <1>4, StdioServerAssumption DEF Init, TypeInv

(* A "data" event keeps the types: the rest of the buffer is no longer     *)
(* than the text that was within the limit.                                *)
LEMMA TypeData ==
    ASSUME TypeInv, NEW n \in 1..MaxChunk, Data(n), UNCHANGED chosen
    PROVE  TypeInv'
  <1>1. sent + n <= Len(Written) /\ sent' = sent + n
    BY DataReads
  <1>2. PICK s \in Seq(Cell) :
           \/ Overflows(s) /\ DropBuffer(s)
           \/ ~Overflows(s) /\ CutLines(s) /\ UNCHANGED resets
    BY DataReads
  <1>3. /\ mode' \in Modes /\ stream' \in Streams
        /\ sent' \in 0..Len(Written) /\ Len(Written)' = Len(Written)
        /\ Cell' = Cell /\ Line' = Line
        /\ Len(handled) \in Nat
    <2>1. sent \in Nat /\ n \in Nat /\ Len(Written) \in Nat
      BY WrittenType, StdioServerAssumption DEF TypeInv
    <2>2. sent + n \in 0..Len(Written)
      BY <1>1, <2>1
    <2> QED
      BY <1>1, <2>2, Chosen, LenProperties DEF TypeInv
  <1>4. CASE DropBuffer(s)
    <2>1. /\ buffer' = << >> /\ resets' = resets \cup {Len(handled)}
          /\ UNCHANGED << handled, step, replies, forwarded >>
      BY <1>4 DEF DropBuffer
    <2>2. buffer' \in Seq(Cell) /\ Length(buffer)' <= MaxBuffer
      <3>1. Length(<< >>) = 0
        BY FS_EmptySet DEF Length
      <3>2. Length(buffer)' = 0
        BY <2>1, <3>1 DEF Length
      <3> QED
        BY <2>1, <3>2, EmptySeq, StdioServerAssumption
    <2>3. resets' \subseteq 0..Len(handled)
      <3>1. Len(handled) \in 0..Len(handled)
        BY <1>3
      <3> QED
        BY <2>1, <3>1 DEF TypeInv
    <2> QED
      BY <1>3, <2>1, <2>2, <2>3 DEF TypeInv, ReplyTo
  <1>5. CASE ~Overflows(s) /\ CutLines(s) /\ UNCHANGED resets
    <2> DEFINE lines == LinesOf(s)
               N == Len(handled)
               m == Len(lines)
    <2>1. buffer' = RestOf(s) /\ HandleLines(lines)
      BY <1>5 DEF CutLines
    <2>2. lines \in Seq(Line) /\ m \in Nat
      BY LinesOfText, LenProperties
    <2>3. buffer' \in Seq(Cell)
      BY <2>1, RestCut
    <2>4. Length(buffer)' <= MaxBuffer
      <3>1. PICK r \in 0..Len(s) : RestOf(s) = SubSeq(s, r + 1, Len(s))
        BY RestCut
      <3>2. /\ Length(s) \in Nat /\ Length(RestOf(s)) \in Nat
            /\ Length(RestOf(s)) <= Length(s)
        BY <3>1, LengthOfEnd
      <3>3. ~(Length(s) > MaxBuffer)
        BY <1>5 DEF Overflows
      <3>4. Length(buffer)' = Length(RestOf(s))
        BY <2>1 DEF Length
      <3> DEFINE x == Length(s)
                 y == Length(RestOf(s))
      <3> HIDE DEF x, y
      <3>5. x \in Nat /\ y \in Nat /\ y <= x /\ ~(x > MaxBuffer)
        BY <3>2, <3>3 DEF x, y
      <3>6. y <= MaxBuffer
        BY <3>5, StdioServerAssumption
      <3> QED
        BY <3>4, <3>6 DEF y
    <2> HIDE DEF lines
    <2>5. Grown(lines)
      BY <2>1, <2>2, HandledGrows
    <2>6. handled' \in Seq(Line) /\ Len(handled') = N + m /\ step' \in [1..N+m -> Steps]
      BY <2>5 DEF Grown
    <2>7. /\ 1..N \subseteq 1..N+m /\ N+1..N+m \subseteq 1..N+m
          /\ 0..N \subseteq 0..N+m
      BY <1>3, <2>2
    <2>8. forwarded' \in Seq(1..N+m)
      <3>1. forwarded' = forwarded \o Passed(lines, N)
        BY <2>1, <2>2, HandleLinesEffect DEF TypeInv
      <3>2. Passed(lines, N) \in Seq(N+1..N+m)
        BY <1>3, <2>2, BatchForwards
      <3>3. Passed(lines, N) \in Seq(1..N+m) /\ forwarded \in Seq(1..N+m)
        BY <2>7, <3>2, Widen DEF TypeInv
      <3> QED
        BY <3>1, <3>3, ConcatProperties
    <2>9. replies' \in Seq(ReplyTo(1..N+m))
      <3>1. replies' = replies \o Batch(lines, N)
        BY <2>1, <2>2, HandleLinesEffect DEF TypeInv
      <3>2. Batch(lines, N) \in Seq(ReplyTo(N+1..N+m))
        BY <1>3, <2>2, BatchAnswers DEF TypeInv
      <3>3. /\ ReplyTo(N+1..N+m) \subseteq ReplyTo(1..N+m)
            /\ ReplyTo(1..N) \subseteq ReplyTo(1..N+m)
        BY <2>7 DEF ReplyTo
      <3>4. Batch(lines, N) \in Seq(ReplyTo(1..N+m)) /\ replies \in Seq(ReplyTo(1..N+m))
        BY <3>2, <3>3, Widen DEF TypeInv
      <3> QED
        BY <3>1, <3>4, ConcatProperties
    <2>10. resets' \subseteq 0..N+m
      BY <1>5, <2>7 DEF TypeInv
    <2>11. ReplyTo(1..Len(handled))' = ReplyTo(1..N+m)
      BY <2>6 DEF ReplyTo
    <2>12. Len(handled)' = N + m
      BY <2>6
    <2> HIDE DEF N, m
    <2> QED
      BY <1>3, <2>3, <2>4, <2>6, <2>8, <2>9, <2>10, <2>11, <2>12 DEF TypeInv
  <1> QED
    BY <1>2, <1>4, <1>5

(* Of a line that is handled, and a step that settles it. *)
LEMMA TypeSettles ==
    ASSUME TypeInv, NEW h \in DOMAIN handled, Settles(h), UNCHANGED chosen
    PROVE  TypeInv'
  <1>1. h \in 1..Len(handled) /\ handled[h] \in Line
    BY LenProperties, ElementOfSeq DEF TypeInv
  <1>2. Id(handled[h]) \in Ids /\ "null" \in Ids
    BY <1>1, RouteType DEF TypeInv, Ids
  <1>3. /\ mode' \in Modes /\ stream' \in Streams
        /\ Len(Written)' = Len(Written)
        /\ Cell' = Cell /\ Line' = Line
    BY Chosen DEF TypeInv
  <1>4. UNCHANGED << sent, buffer, handled, resets >>
    BY DEF Settles, CallAllowed, CallAnswered, CallRejects, UpstreamSettles
  <1>5. step' \in [1..Len(handled) -> Steps]
    BY <1>1 DEF Settles, CallAllowed, CallAnswered, CallRejects, UpstreamSettles, Finish,
                TypeInv, Steps
  <1>6. forwarded' \in Seq(1..Len(handled))
    <2>1. forwarded' = forwarded \/ forwarded' = Append(forwarded, h)
      BY DEF Settles, CallAllowed, CallAnswered, CallRejects, UpstreamSettles
    <2>2. forwarded \in Seq(1..Len(handled))
      BY DEF TypeInv
    <2>3. Append(forwarded, h) \in Seq(1..Len(handled))
      BY <1>1, <2>2, AppendProperties
    <2> QED
      BY <2>1, <2>2, <2>3
  <1>7. replies' \in Seq(ReplyTo(1..Len(handled)))
    <2>1. \/ replies' = replies
          \/ replies' = Append(replies, Reply(h, Id(handled[h]), "result"))
          \/ replies' = Append(replies, Reply(h, "null", "internalError"))
      BY DEF Settles, CallAllowed, CallAnswered, CallRejects, UpstreamSettles, Finish
    <2>2. /\ Reply(h, Id(handled[h]), "result") \in ReplyTo(1..Len(handled))
          /\ Reply(h, "null", "internalError") \in ReplyTo(1..Len(handled))
      BY <1>1, <1>2 DEF Reply, ReplyTo, Answers
    <2> DEFINE R == ReplyTo(1..Len(handled))
    <2>3. replies \in Seq(R)
      BY DEF TypeInv
    <2>4. /\ Append(replies, Reply(h, Id(handled[h]), "result")) \in Seq(R)
          /\ Append(replies, Reply(h, "null", "internalError")) \in Seq(R)
      <3> HIDE DEF R
      <3> QED
        BY <2>2, <2>3, AppendProperties DEF R
    <2> QED
      BY <2>1, <2>3, <2>4
  <1> QED
    BY <1>3, <1>4, <1>5, <1>6, <1>7 DEF TypeInv, ReplyTo, Length

(* No step breaks the types.                                               *)
LEMMA TypeNext == ASSUME TypeInv, [Next]_vars PROVE TypeInv'
  <1>1. CASE UNCHANGED vars
    BY <1>1, Chosen DEF TypeInv, vars, moving, ReplyTo, Length
  <1>2. CASE Next
    BY <1>2, TypeData, TypeSettles DEF Next
  <1> QED
    BY <1>1, <1>2

(* The buffer never exceeds MAX_BUFFER_SIZE between two events, and        *)
(* whatever is stepped through, forwarded or answered is a line that was   *)
(* handled.                                                                *)
THEOREM TypeCorrect == Spec => []TypeOK
  <1>1. Spec => []TypeInv
    BY TypeInit, TypeNext, PTL DEF Spec
  <1> QED
    BY <1>1, TypeInvImplies, PTL
-----------------------------------------------------------------------------
(* Answers *)

(* A line that is not over is on its way to a decision or to the upstream; *)
(* one that is over has been answered, unless it is a notification.        *)
AnswersInv ==
    /\ \A h \in 1..Len(handled) :
          /\ step[h] = "authorizing" => Route(handled[h]) = "authorize"
          /\ step[h] = "forwarded" => Route(handled[h]) \in {"authorize", "forward"}
          /\ (\E j \in 1..Len(replies) : replies[j].of = h)
                <=> (step[h] = "over" /\ Route(handled[h]) \notin {"notify", "ignore"})
    /\ \A i, j \in 1..Len(replies) : replies[i].of = replies[j].of => i = j
    /\ \A j \in 1..Len(replies) : replies[j].id \in {Id(handled[replies[j].of]), "null"}

(* Nobody was answered yet.                                                *)
LEMMA AnswersInit == ASSUME Init PROVE AnswersInv
  <1>1. 1..Len(handled) = {} /\ 1..Len(replies) = {}
    BY EmptySeq DEF Init
  <1> QED
    BY <1>1 DEF AnswersInv

(* What a line is does not depend on the step. *)
LEMMA RouteKept ==
    ASSUME UNCHANGED chosen
    PROVE  \A h : Route(handled[h])' = Route(handled'[h]) /\ Id(handled[h])' = Id(handled'[h])
  BY DEF chosen, Route, RouteNotification, RouteRequest, Id, Whole, Message, Source, Reads

(* The lines of a batch are new, and so are the answers to them.           *)
LEMMA AnswersBatch ==
    ASSUME TypeInv, AnswersInv, NEW lines \in Seq(Line), HandleLines(lines), UNCHANGED chosen
    PROVE  AnswersInv'
  <1> DEFINE N == Len(handled)
             m == Len(lines)
             R == Len(replies)
             new == Batch(lines, N)
             B == Len(new)
  <1>1. Grown(lines) /\ replies' = replies \o new
    BY HandledGrows, HandleLinesEffect DEF TypeInv
  <1>2. /\ N \in Nat /\ m \in Nat /\ R \in Nat
        /\ replies \in Seq(ReplyTo(1..N))
        /\ \A k \in 1..m : lines[k] \in Line
    BY LenProperties, ElementOfSeq DEF TypeInv
  <1>3. /\ new \in Seq(ReplyTo(N+1..N+m)) /\ B \in Nat
        /\ \A i, j \in 1..B : new[i].of = new[j].of => i = j
        /\ \A k \in 1..m :
              /\ Route(lines[k]) \in Silent => \A j \in 1..B : new[j].of # N + k
              /\ Route(lines[k]) \notin Silent => \E j \in 1..B : new[j].of = N + k
        /\ \A j \in 1..B, k \in 1..m : new[j].of = N + k => new[j].id = Id(lines[k])
    BY <1>2, BatchAnswers, LenProperties DEF TypeInv
  <1> HIDE DEF new
  <1>4. /\ Len(replies') = R + B
        /\ \A j \in 1..R+B : replies'[j] = IF j <= R THEN replies[j] ELSE new[j - R]
    <2>1. replies \in Seq(ReplyTo(1..N+m)) /\ new \in Seq(ReplyTo(1..N+m))
      <3>1. /\ ReplyTo(N+1..N+m) \subseteq ReplyTo(1..N+m)
            /\ ReplyTo(1..N) \subseteq ReplyTo(1..N+m)
        BY <1>2 DEF ReplyTo
      <3> QED
        BY <1>2, <1>3, <3>1, Widen
    <2> QED
      BY <1>1, <2>1, ConcatProperties
  <1>5. \A j \in 1..R : replies[j].of \in 1..N
    <2>1. \A j \in 1..R : replies[j] \in ReplyTo(1..N)
      BY <1>2, ElementOfSeq
    <2> QED
      BY <2>1 DEF ReplyTo
  <1>6. \A j \in 1..B : new[j].of \in N+1..N+m
    <2>1. \A j \in 1..B : new[j] \in ReplyTo(N+1..N+m)
      BY <1>3, ElementOfSeq
    <2> QED
      BY <2>1 DEF ReplyTo
  <1>7. /\ \A h \in 1..N : handled'[h] = handled[h] /\ step'[h] = step[h]
        /\ \A k \in 1..m : /\ handled'[N + k] = lines[k]
                           /\ step'[N + k] = FirstStep(Route(lines[k]))
        /\ Len(handled') = N + m
    BY <1>1 DEF Grown
  <1> HIDE DEF N, m, R, B
  <1>8. /\ \A j \in 1..R : j \in 1..R+B /\ replies'[j] = replies[j]
        /\ \A j \in 1..B : R + j \in 1..R+B /\ replies'[R + j] = new[j]
        /\ \A j \in 1..R+B : j \in 1..R \/ \E i \in 1..B : j = R + i
    <2>1. \A j \in 1..R : j \in 1..R+B /\ j <= R
      BY <1>2, <1>3 DEF R, B
    <2>2. \A j \in 1..B : R + j \in 1..R+B /\ ~(R + j <= R) /\ (R + j) - R = j
      BY <1>2, <1>3 DEF R, B
    <2>3. \A j \in 1..R+B : j \in 1..R \/ (j - R \in 1..B /\ j = R + (j - R))
      BY <1>2, <1>3 DEF R, B
    <2> QED
      BY <1>4, <2>1, <2>2, <2>3
  <1>9. \A h \in 1..N+m : h \in 1..N \/ \E k \in 1..m : h = N + k
    <2>1. \A h \in 1..N+m : h \in 1..N \/ (h - N \in 1..m /\ h = N + (h - N))
      BY <1>2 DEF N, m
    <2> QED
      BY <2>1
  <1>10. \A h \in 1..N, k \in 1..m : /\ h \in 1..N+m /\ h # N + k
                                 /\ h \notin N+1..N+m /\ N + k \notin 1..N
    BY <1>2 DEF N, m
  <1>11. \A h \in 1..N+m :
            /\ step'[h] = "authorizing" => Route(handled'[h]) = "authorize"
            /\ step'[h] = "forwarded" => Route(handled'[h]) \in {"authorize", "forward"}
            /\ (\E j \in 1..R+B : replies'[j].of = h)
                  <=> (step'[h] = "over" /\ Route(handled'[h]) \notin {"notify", "ignore"})
    <2> SUFFICES ASSUME NEW h \in 1..N+m
                 PROVE  /\ step'[h] = "authorizing" => Route(handled'[h]) = "authorize"
                        /\ step'[h] = "forwarded" => Route(handled'[h]) \in {"authorize", "forward"}
                        /\ (\E j \in 1..R+B : replies'[j].of = h)
                              <=> (step'[h] = "over" /\ Route(handled'[h]) \notin {"notify", "ignore"})
      OBVIOUS
    <2>1. CASE h \in 1..N
      <3>1. \A j \in 1..B : new[j].of # h
        <4>1. h \notin N+1..N+m
          BY <1>2, <2>1 DEF N, m
        <4> QED
          BY <1>6, <4>1
      <3>2. (\E j \in 1..R+B : replies'[j].of = h) <=> (\E j \in 1..R : replies[j].of = h)
        BY <1>8, <3>1
      <3> QED
        BY <1>7, <2>1, <3>2 DEF AnswersInv, N, R
    <2>2. CASE \E k \in 1..m : h = N + k
      <3>1. PICK k \in 1..m : h = N + k
        BY <2>2
      <3>2. \A j \in 1..R : replies[j].of # h
        BY <1>5, <1>10, <3>1
      <3>3. (\E j \in 1..R+B : replies'[j].of = h) <=> (\E j \in 1..B : new[j].of = h)
        BY <1>8, <3>2
      <3>4. (\E j \in 1..B : new[j].of = h) <=> Route(lines[k]) \notin Silent
        BY <1>3, <3>1 DEF N, m, B
      <3>5. handled'[h] = lines[k] /\ step'[h] = FirstStep(Route(lines[k]))
        BY <1>7, <3>1
      <3> QED
        BY <3>3, <3>4, <3>5, FirstStepType DEF Silent
    <2> QED
      BY <1>9, <2>1, <2>2
  <1>12. \A i, j \in 1..R+B : replies'[i].of = replies'[j].of => i = j
    <2>1. \A i, j \in 1..R : replies[i].of = replies[j].of => i = j
      BY DEF AnswersInv, R
    <2>2. \A i, j \in 1..B : new[i].of = new[j].of => i = j
      BY <1>3 DEF B
    <2>3. \A i \in 1..R, j \in 1..B : replies[i].of # new[j].of
      <3>1. 1..N \cap N+1..N+m = {}
        BY <1>2 DEF N, m
      <3> QED
        BY <1>5, <1>6, <3>1
    <2> QED
      BY <1>8, <2>1, <2>2, <2>3
  <1>13. \A j \in 1..R+B : replies'[j].id \in {Id(handled'[replies'[j].of]), "null"}
    <2> SUFFICES ASSUME NEW j \in 1..R+B
                 PROVE  replies'[j].id \in {Id(handled'[replies'[j].of]), "null"}
      OBVIOUS
    <2>1. CASE j \in 1..R
      BY <1>5, <1>7, <1>8, <2>1 DEF AnswersInv, R
    <2>2. CASE \E i \in 1..B : j = R + i
      <3>1. PICK i \in 1..B : j = R + i
        BY <2>2
      <3>2. PICK k \in 1..m : new[i].of = N + k
        <4>1. \A h \in N+1..N+m : h - N \in 1..m /\ h = N + (h - N)
          BY <1>2 DEF N, m
        <4> QED
          BY <1>6, <4>1
      <3>3. new[i].id = Id(lines[k])
        BY <1>3, <3>2 DEF N, m, B
      <3> QED
        BY <1>7, <1>8, <3>1, <3>2, <3>3
    <2> QED
      BY <1>8, <2>1, <2>2
  <1>14. Len(handled)' = N + m /\ Len(replies)' = R + B
    BY <1>4, <1>7 DEF N, m, R, B
  <1> QED
    BY <1>11, <1>12, <1>13, <1>14, RouteKept DEF AnswersInv

(* A "data" event gives each new line its first answer or its first step.  *)
LEMMA AnswersData ==
    ASSUME TypeInv, AnswersInv, NEW n \in 1..MaxChunk, Data(n), UNCHANGED chosen
    PROVE  AnswersInv'
  <1>1. PICK s \in Seq(Cell) : DropBuffer(s) \/ CutLines(s)
    BY DataReads
  <1>2. CASE DropBuffer(s)
    <2>1. UNCHANGED << handled, step, replies >>
      BY <1>2 DEF DropBuffer
    <2> QED
      BY <2>1, RouteKept DEF AnswersInv
  <1>3. CASE CutLines(s)
    <2>1. LinesOf(s) \in Seq(Line)
      BY LinesOfText
    <2> QED
      BY <1>3, <2>1, AnswersBatch DEF CutLines
  <1> QED
    BY <1>1, <1>2, <1>3

(* A reply is appended when the line that it is about is over. *)
LEMMA AnswersFinish ==
    ASSUME TypeInv, AnswersInv, UNCHANGED chosen,
           NEW h \in 1..Len(handled), step[h] # "over",
           Route(handled[h]) \notin {"notify", "ignore"},
           NEW id \in {Id(handled[h]), "null"}, NEW what \in Answers,
           Finish(h, id, what), UNCHANGED handled
    PROVE  AnswersInv'
  <1> DEFINE R == Len(replies)
             new == Reply(h, id, what)
  <1>1. step' = [step EXCEPT ![h] = "over"] /\ replies' = Append(replies, new)
    BY DEF Finish
  <1>2. R \in Nat /\ replies \in Seq(ReplyTo(1..Len(handled)))
    BY LenProperties DEF TypeInv
  <1>3. new.of = h /\ new.id = id
    BY DEF Reply
  <1>4. /\ Len(replies') = R + 1
        /\ \A j \in 1..R : replies'[j] = replies[j]
        /\ replies'[R + 1] = new
    <2>1. new \in ReplyTo(1..Len(handled))
      <3>1. handled[h] \in Line
        BY ElementOfSeq DEF TypeInv
      <3>2. id \in Ids
        BY <3>1, RouteType DEF TypeInv, Ids
      <3> QED
        BY <3>2 DEF Reply, ReplyTo
    <2> HIDE DEF new
    <2> QED
      BY <1>1, <1>2, <2>1, AppendProperties
  <1> HIDE DEF new, R
  <1>5. /\ \A j \in 1..R+1 : j \in 1..R \/ j = R + 1
        /\ \A j \in 1..R : j \in 1..R+1 /\ j # R + 1
        /\ R + 1 \in 1..R+1
    BY <1>2 DEF R
  <1>6. \A j \in 1..R : replies[j].of # h
    BY DEF AnswersInv, R
  <1>7. /\ step'[h] = "over"
        /\ \A g \in 1..Len(handled) : g # h => step'[g] = step[g]
    BY <1>1 DEF TypeInv
  <1>8. \A g \in 1..Len(handled) :
           (\E j \in 1..R+1 : replies'[j].of = g) <=> g = h \/ \E j \in 1..R : replies[j].of = g
    BY <1>3, <1>4, <1>5
  <1>9. \A g \in 1..Len(handled) :
          /\ step'[g] = "authorizing" => Route(handled[g]) = "authorize"
          /\ step'[g] = "forwarded" => Route(handled[g]) \in {"authorize", "forward"}
          /\ (\E j \in 1..R+1 : replies'[j].of = g)
                <=> (step'[g] = "over" /\ Route(handled[g]) \notin {"notify", "ignore"})
    <2> SUFFICES ASSUME NEW g \in 1..Len(handled)
                 PROVE  /\ step'[g] = "authorizing" => Route(handled[g]) = "authorize"
                        /\ step'[g] = "forwarded" => Route(handled[g]) \in {"authorize", "forward"}
                        /\ (\E j \in 1..R+1 : replies'[j].of = g)
                              <=> (step'[g] = "over" /\ Route(handled[g]) \notin {"notify", "ignore"})
      OBVIOUS
    <2>1. CASE g = h
      <3>1. \E j \in 1..R+1 : replies'[j].of = g
        BY <1>8, <2>1
      <3> QED
        BY <1>7, <2>1, <3>1
    <2>2. CASE g # h
      <3>1. step'[g] = step[g]
        BY <1>7, <2>2
      <3>2. (\E j \in 1..R+1 : replies'[j].of = g) <=> \E j \in 1..R : replies[j].of = g
        BY <1>8, <2>2
      <3> QED
        BY <3>1, <3>2 DEF AnswersInv, R
    <2> QED
      BY <2>1, <2>2
  <1>10. \A i, j \in 1..R+1 : replies'[i].of = replies'[j].of => i = j
    <2>1. \A i, j \in 1..R : replies[i].of = replies[j].of => i = j
      BY DEF AnswersInv, R
    <2> QED
      BY <1>3, <1>4, <1>5, <1>6, <2>1
  <1>11. \A j \in 1..R+1 : replies'[j].id \in {Id(handled[replies'[j].of]), "null"}
    <2>1. \A j \in 1..R : replies[j].id \in {Id(handled[replies[j].of]), "null"}
      BY DEF AnswersInv, R
    <2> QED
      BY <1>3, <1>4, <1>5, <2>1
  <1>12. Len(replies)' = R + 1 /\ Len(handled)' = Len(handled) /\ handled' = handled
    BY <1>4
  <1> QED
    BY <1>9, <1>10, <1>11, <1>12, RouteKept DEF AnswersInv

(* A handler that awaited something answers once, or goes on to the        *)
(* upstream.                                                               *)
LEMMA AnswersSettles ==
    ASSUME TypeInv, AnswersInv, NEW h \in DOMAIN handled, Settles(h), UNCHANGED chosen
    PROVE  AnswersInv'
  <1>1. h \in 1..Len(handled) /\ UNCHANGED handled
    BY LenProperties DEF TypeInv, Settles, CallAllowed, CallAnswered, CallRejects, UpstreamSettles
  <1>2. CASE CallAllowed(h)
    <2>1. /\ step[h] = "authorizing" /\ step' = [step EXCEPT ![h] = "forwarded"]
          /\ UNCHANGED replies
      BY <1>2 DEF CallAllowed
    <2>2. step'[h] = "forwarded" /\ \A g \in 1..Len(handled) : g # h => step'[g] = step[g]
      BY <1>1, <2>1 DEF TypeInv
    <2>3. \A g \in 1..Len(handled) :
            /\ step'[g] = "authorizing" => Route(handled[g]) = "authorize"
            /\ step'[g] = "forwarded" => Route(handled[g]) \in {"authorize", "forward"}
            /\ (\E j \in 1..Len(replies) : replies[j].of = g)
                  <=> (step'[g] = "over" /\ Route(handled[g]) \notin {"notify", "ignore"})
      BY <1>1, <2>1, <2>2 DEF AnswersInv
    <2> QED
      BY <1>1, <2>1, <2>3, RouteKept DEF AnswersInv
  <1>3. CASE CallAnswered(h) \/ UpstreamSettles(h)
    <2>1. step[h] \in {"authorizing", "forwarded"} /\ Finish(h, Id(handled[h]), "result")
      BY <1>3 DEF CallAnswered, UpstreamSettles
    <2>2. Route(handled[h]) \notin {"notify", "ignore"} /\ "result" \in Answers
      BY <1>1, <2>1 DEF AnswersInv, Answers
    <2> QED
      BY <1>1, <2>1, <2>2, AnswersFinish
  <1>4. CASE CallRejects(h)
    <2>1. step[h] \in {"authorizing", "forwarded"} /\ Finish(h, "null", "internalError")
      BY <1>4 DEF CallRejects
    <2>2. Route(handled[h]) \notin {"notify", "ignore"} /\ "internalError" \in Answers
      BY <1>1, <2>1 DEF AnswersInv, Answers
    <2> QED
      BY <1>1, <2>1, <2>2, AnswersFinish
  <1> QED
    BY <1>2, <1>3, <1>4 DEF Settles

(* No step breaks the correspondence of answers and steps.                 *)
LEMMA AnswersNext == ASSUME TypeInv, AnswersInv, [Next]_vars PROVE AnswersInv'
  <1>1. CASE UNCHANGED vars
    <2>1. UNCHANGED chosen /\ UNCHANGED << handled, step, replies >>
      BY <1>1 DEF vars, moving
    <2> QED
      BY <2>1, RouteKept DEF AnswersInv
  <1>2. CASE Next
    BY <1>2, AnswersData, AnswersSettles DEF Next
  <1> QED
    BY <1>1, <1>2

(* If answers and steps correspond, there is one answer to each request.   *)
LEMMA AnswersImply == TypeInv /\ AnswersInv => AnsweredOnce
  <1> SUFFICES ASSUME TypeInv, AnswersInv, NEW h \in DOMAIN handled
               PROVE  LET own == {k \in DOMAIN replies : replies[k].of = h}
                      IN  /\ Cardinality(own) =
                               IF step[h] # "over" \/ Unasked(Reads(handled[h]))
                                 THEN 0 ELSE 1
                          /\ \A k \in own : replies[k].id \in {Id(handled[h]), "null"}
    BY DEF AnsweredOnce
  <1> DEFINE own == {k \in DOMAIN replies : replies[k].of = h}
  <1>1. h \in 1..Len(handled) /\ DOMAIN replies = 1..Len(replies)
    BY LenProperties DEF TypeInv
  <1>2. \A k \in own : replies[k].id \in {Id(handled[h]), "null"}
    BY <1>1 DEF AnswersInv
  <1>0. Unasked(Reads(handled[h])) <=> Route(handled[h]) \in {"notify", "ignore"}
    <2>1. handled[h] \in Line
      BY <1>1, ElementOfSeq DEF TypeInv
    <2> QED
      BY <2>1, RouteType DEF TypeInv
  <1>3. CASE step[h] # "over" \/ Route(handled[h]) \in {"notify", "ignore"}
    <2>1. own = {}
      BY <1>1, <1>3 DEF AnswersInv
    <2>2. Cardinality(own) = 0
      BY <2>1, FS_EmptySet
    <2> QED
      BY <1>0, <1>2, <1>3, <2>2
  <1>4. CASE ~(step[h] # "over" \/ Route(handled[h]) \in {"notify", "ignore"})
    <2>1. PICK j \in 1..Len(replies) : replies[j].of = h
      BY <1>1, <1>4 DEF AnswersInv
    <2>2. own = {j}
      BY <1>1, <2>1 DEF AnswersInv
    <2>3. Cardinality(own) = 1
      BY <2>2, FS_Singleton
    <2> QED
      BY <1>0, <1>2, <1>4, <2>3
  <1> QED
    BY <1>3, <1>4
(* handleLine and the catch of listenToStdin together answer every line    *)
(* once, with the id of its request or null, and a notification never.     *)
THEOREM OneAnswer == Spec => []AnsweredOnce
  <1>1. Init => TypeInv /\ AnswersInv
    BY TypeInit, AnswersInit
  <1>2. TypeInv /\ AnswersInv /\ [Next]_vars => (TypeInv /\ AnswersInv)'
    BY TypeNext, AnswersNext
  <1> QED
    BY <1>1, <1>2, AnswersImply, PTL DEF Spec

-----------------------------------------------------------------------------
(* The order at the upstream *)

LEMMA OrderInit == ASSUME Init PROVE OrderKept
  <1>1. DOMAIN forwarded = {}
    BY DEF Init
  <1> QED
    BY <1>1 DEF OrderKept

(* What is forwarded at once is of later lines than all that was forwarded *)
(* before, and in order itself.                                            *)
LEMMA OrderBatch ==
    ASSUME TypeInv, OrderKept, NEW lines \in Seq(Line), HandleLines(lines), UNCHANGED chosen
    PROVE  OrderKept'
  <1> DEFINE N == Len(handled)
             m == Len(lines)
             F == Len(forwarded)
             new == Passed(lines, N)
             B == Len(new)
  <1>1. Grown(lines) /\ forwarded' = forwarded \o new
    BY HandledGrows, HandleLinesEffect DEF TypeInv
  <1>2. N \in Nat /\ m \in Nat /\ F \in Nat /\ forwarded \in Seq(1..N)
    BY LenProperties DEF TypeInv
  <1>3. /\ new \in Seq(N+1..N+m) /\ B \in Nat
        /\ \A i, j \in 1..B : i < j => new[i] < new[j]
    BY <1>2, BatchForwards, LenProperties
  <1> HIDE DEF new
  <1>4. /\ Len(forwarded') = F + B /\ DOMAIN forwarded' = 1..F+B
        /\ \A j \in 1..F+B : forwarded'[j] = IF j <= F THEN forwarded[j] ELSE new[j - F]
    <2>1. 1..N \subseteq 1..N+m /\ N+1..N+m \subseteq 1..N+m
      BY <1>2
    <2>2. forwarded \in Seq(1..N+m) /\ new \in Seq(1..N+m)
      BY <1>2, <1>3, <2>1, Widen
    <2>3. forwarded' \in Seq(1..N+m) /\ Len(forwarded') = F + B
          /\ \A j \in 1..F+B : forwarded'[j] = IF j <= F THEN forwarded[j] ELSE new[j - F]
      BY <1>1, <2>2, ConcatProperties
    <2> QED
      BY <2>3, LenProperties
  <1>5. \A j \in 1..F : forwarded[j] \in 1..N
    BY <1>2, ElementOfSeq
  <1>6. \A j \in 1..B : new[j] \in N+1..N+m
    BY <1>3, ElementOfSeq
  <1>7. \A h \in 1..N : handled'[h] = handled[h]
    BY <1>1 DEF Grown
  <1> HIDE DEF N, m, F, B
  <1>8. /\ \A j \in 1..F : forwarded'[j] = forwarded[j]
        /\ \A j \in 1..F+B : j \notin 1..F =>
              j - F \in 1..B /\ forwarded'[j] = new[j - F]
    <2>1. \A j \in 1..F : j \in 1..F+B /\ j <= F
      BY <1>2, <1>3 DEF F, B
    <2>2. \A j \in 1..F+B : j \notin 1..F => j - F \in 1..B /\ ~(j <= F)
      BY <1>2, <1>3 DEF F, B
    <2> QED
      BY <1>4, <2>1, <2>2
  <1>9. ASSUME NEW j \in 1..F+B, NEW k \in 1..F+B, j < k, forwarded'[j] > forwarded'[k]
        PROVE  j \in 1..F /\ k \in 1..F
    <2>1. F \in Nat /\ B \in Nat /\ N \in Nat /\ m \in Nat
      BY <1>2, <1>3 DEF F, B, N, m
    <2>2. CASE k \in 1..F
      BY <1>9, <2>1, <2>2
    <2>3. CASE k \notin 1..F /\ j \in 1..F
      <3>1. forwarded'[j] \in 1..N /\ forwarded'[k] \in N+1..N+m
        BY <1>5, <1>6, <1>8, <2>3
      <3> QED
        BY <1>9, <2>1, <3>1
    <2>4. CASE k \notin 1..F /\ j \notin 1..F
      <3>1. /\ j - F \in 1..B /\ k - F \in 1..B /\ j - F < k - F
            /\ forwarded'[j] = new[j - F] /\ forwarded'[k] = new[k - F]
        BY <1>8, <1>9, <2>1, <2>4
      <3>2. new[j - F] < new[k - F]
        BY <1>3, <3>1 DEF B
      <3>3. new[j - F] \in N+1..N+m /\ new[k - F] \in N+1..N+m
        BY <1>6, <3>1
      <3> QED
        BY <1>9, <2>1, <3>1, <3>2, <3>3
    <2> QED
      BY <2>2, <2>3, <2>4
  <1>10. DOMAIN forwarded = 1..F
    BY LenProperties DEF TypeInv, F
  <1>11. ASSUME NEW j \in 1..F+B, NEW k \in 1..F+B, j < k, forwarded'[j] > forwarded'[k]
         PROVE  Route(handled'[forwarded'[k]]) = "authorize"
    <2>1. j \in 1..F /\ k \in 1..F
      BY <1>9, <1>11
    <2>2. /\ forwarded'[j] = forwarded[j] /\ forwarded'[k] = forwarded[k]
          /\ handled'[forwarded[k]] = handled[forwarded[k]]
      BY <1>5, <1>7, <1>8, <2>1
    <2> QED
      BY <1>10, <1>11, <2>1, <2>2 DEF OrderKept
  <1>12. (DOMAIN forwarded)' = 1..F+B
    BY <1>4
  <1>13. \A h : Route(handled[h])' = Route(handled'[h])
    BY RouteKept
  <1> QED
    BY <1>11, <1>12, <1>13 DEF OrderKept

(* Only a call that was held up for a decision is forwarded after a later  *)
(* line.                                                                   *)
LEMMA OrderNext == ASSUME TypeInv, AnswersInv, OrderKept, [Next]_vars PROVE OrderKept'
  <1>1. CASE UNCHANGED vars
    <2>1. UNCHANGED chosen /\ UNCHANGED << handled, forwarded >>
      BY <1>1 DEF vars, moving
    <2> QED
      BY <2>1, RouteKept DEF OrderKept
  <1>2. ASSUME NEW n \in 1..MaxChunk, Data(n), UNCHANGED chosen
        PROVE  OrderKept'
    <2>1. PICK s \in Seq(Cell) : DropBuffer(s) \/ CutLines(s)
      BY <1>2, DataReads
    <2>2. CASE DropBuffer(s)
      <3>1. UNCHANGED << handled, forwarded >>
        BY <2>2 DEF DropBuffer
      <3> QED
        BY <1>2, <3>1, RouteKept DEF OrderKept
    <2>3. CASE CutLines(s)
      <3>1. LinesOf(s) \in Seq(Line)
        BY LinesOfText
      <3> QED
        BY <1>2, <2>3, <3>1, OrderBatch DEF CutLines
    <2> QED
      BY <2>1, <2>2, <2>3
  <1>3. ASSUME NEW h \in DOMAIN handled, Settles(h), UNCHANGED chosen
        PROVE  OrderKept'
    <2>1. h \in 1..Len(handled) /\ UNCHANGED handled
      BY <1>3, LenProperties
         DEF TypeInv, Settles, CallAllowed, CallAnswered, CallRejects, UpstreamSettles
    <2>2. CASE UNCHANGED forwarded
      BY <1>3, <2>1, <2>2, RouteKept DEF OrderKept
    <2>3. CASE CallAllowed(h)
      <3> DEFINE F == Len(forwarded)
      <3>1. forwarded' = Append(forwarded, h) /\ Route(handled[h]) = "authorize"
        BY <2>1, <2>3 DEF CallAllowed, AnswersInv
      <3>2. forwarded \in Seq(1..Len(handled)) /\ F \in Nat /\ DOMAIN forwarded = 1..F
        BY LenProperties DEF TypeInv
      <3>3. /\ forwarded' \in Seq(1..Len(handled)) /\ Len(forwarded') = F + 1
            /\ \A j \in 1..F : forwarded'[j] = forwarded[j]
            /\ forwarded'[F + 1] = h
        BY <2>1, <3>1, <3>2, AppendProperties
      <3>4. DOMAIN forwarded' = 1..F+1
        BY <3>3, LenProperties
      <3> HIDE DEF F
      <3>5. ASSUME NEW j \in 1..F+1, NEW k \in 1..F+1, j < k, forwarded'[j] > forwarded'[k]
            PROVE  Route(handled[forwarded'[k]]) = "authorize"
        <4>1. CASE k = F + 1
          BY <3>1, <3>3, <4>1
        <4>2. CASE k # F + 1
          <5>1. F \in Nat
            BY <3>2
          <5>2. j \in 1..F /\ k \in 1..F
            BY <3>5, <4>2, <5>1
          <5> QED
            BY <3>2, <3>3, <3>5, <5>2 DEF OrderKept
        <4> QED
          BY <4>1, <4>2
      <3>6. (DOMAIN forwarded)' = 1..F+1 /\ handled' = handled
        BY <2>1, <3>4
      <3> QED
        BY <1>3, <3>5, <3>6, RouteKept DEF OrderKept
    <2> QED
      BY <1>3, <2>2, <2>3 DEF Settles, CallAnswered, CallRejects, UpstreamSettles
  <1> QED
    BY <1>1, <1>2, <1>3 DEF Next

(* What is not a tools/call reaches the upstream in the order in which the *)
(* client wrote it.                                                        *)
THEOREM OrderAtUpstream == Spec => []OrderKept
  <1>1. Init => TypeInv /\ AnswersInv /\ OrderKept
    BY TypeInit, AnswersInit, OrderInit
  <1>2. TypeInv /\ AnswersInv /\ OrderKept /\ [Next]_vars => (TypeInv /\ AnswersInv /\ OrderKept)'
    BY TypeNext, AnswersNext, OrderNext
  <1> QED
    BY <1>1, <1>2, PTL DEF Spec
-----------------------------------------------------------------------------
(* Where a byte of the stream is *)

(* Joined sequences lie one behind the other. *)
LEMMA FlattenPlaces ==
    ASSUME NEW S, NEW ss \in Seq(Seq(S))
    PROVE  \E off \in [0..Len(ss) -> Nat] :
              /\ off[0] = 0 /\ off[Len(ss)] = Len(FlattenSeq(ss))
              /\ \A i \in 1..Len(ss) : off[i] = off[i-1] + Len(ss[i])
              /\ \A i, j \in 0..Len(ss) : i <= j => off[i] <= off[j]
              /\ \A i \in 1..Len(ss) : \A q \in 1..Len(ss[i]) :
                    /\ off[i-1] + q \in 1..Len(FlattenSeq(ss))
                    /\ FlattenSeq(ss)[off[i-1] + q] = ss[i][q]
              /\ \A p \in 1..Len(FlattenSeq(ss)) :
                    \E i \in 1..Len(ss) : \E q \in 1..Len(ss[i]) : p = off[i-1] + q
  <1>1. PICK f \in [0..Len(ss) -> Seq(S)] : Joined(f, ss) /\ FlattenSeq(ss) = f[Len(ss)]
    BY FlattenJoins
  <1> DEFINE n == Len(ss)
             off == [i \in 0..n |-> Len(f[i])]
             Fits(i) ==
                /\ \A k \in 0..i : off[k] <= off[i]
                /\ \A k \in 1..i : \A q \in 1..Len(ss[k]) :
                      /\ off[k-1] + q \in 1..off[i]
                      /\ f[i][off[k-1] + q] = ss[k][q]
                /\ \A p \in 1..off[i] :
                      \E k \in 1..i : \E q \in 1..Len(ss[k]) : p = off[k-1] + q
  <1>2. n \in Nat /\ \A i \in 1..n : ss[i] \in Seq(S) /\ Len(ss[i]) \in Nat
    BY LenProperties, ElementOfSeq
  <1>3. \A i \in 0..n : f[i] \in Seq(S) /\ off[i] = Len(f[i]) /\ off[i] \in Nat
    BY LenProperties
  <1>4. off \in [0..n -> Nat]
    BY <1>3
  <1>5. off[0] = 0
    BY <1>1, <1>2, <1>3, EmptySeq DEF Joined
  <1> HIDE DEF off
  <1>6. ASSUME NEW i \in 1..n
        PROVE  /\ off[i] = off[i-1] + Len(ss[i])
               /\ \A x \in 1..off[i-1] : f[i][x] = f[i-1][x]
               /\ \A q \in 1..Len(ss[i]) : f[i][off[i-1] + q] = ss[i][q]
    <2>1. i - 1 \in 0..n /\ i \in 0..n
      BY <1>2
    <2>2. f[i] = f[i-1] \o ss[i]
      BY <1>1 DEF Joined
    <2>3. f[i-1] \in Seq(S) /\ ss[i] \in Seq(S) /\ off[i-1] = Len(f[i-1]) /\ off[i] = Len(f[i])
      BY <1>2, <1>3, <2>1
    <2> DEFINE a == f[i-1]
               b == ss[i]
               A == Len(a)
               B == Len(b)
    <2>4. /\ Len(f[i]) = A + B
          /\ \A x \in 1..A+B : f[i][x] = IF x <= A THEN a[x] ELSE b[x - A]
      <3>1. f[i] = a \o b /\ a \in Seq(S) /\ b \in Seq(S)
        BY <2>2, <2>3
      <3> HIDE DEF a, b
      <3> QED
        BY <3>1, ConcatProperties
    <2>5. A \in Nat /\ B \in Nat
      BY <2>3, LenProperties
    <2>6. off[i-1] = A /\ off[i] = A + B
      BY <2>3, <2>4
    <2> HIDE DEF a, b, A, B
    <2>7. \A x \in 1..A : x \in 1..A+B /\ x <= A
      BY <2>5
    <2>8. \A q \in 1..B : A + q \in 1..A+B /\ ~(A + q <= A) /\ (A + q) - A = q
      BY <2>5
    <2>9. (\A x \in 1..A : f[i][x] = a[x]) /\ (\A q \in 1..B : f[i][A + q] = b[q])
      BY <2>4, <2>7, <2>8
    <2> QED
      BY <2>6, <2>9 DEF a, b, B
  <1>7. Fits(0)
    <2>1. 1..off[0] = {} /\ \A k \in 0..0 : k = 0
      BY <1>5
    <2> QED
      BY <1>5, <2>1
  <1>8. ASSUME NEW i \in 1..n, Fits(i-1)
        PROVE  Fits(i)
    <2> DEFINE o == off[i-1]
               L == Len(ss[i])
    <2>1. i - 1 \in 0..n /\ i \in 0..n /\ i \in Nat /\ o \in Nat /\ L \in Nat
      BY <1>2, <1>3
    <2>2. off[i] = o + L
      BY <1>6
    <2>3. /\ \A k \in 0..i : k \in 0..i-1 \/ k = i
          /\ \A k \in 1..i : k \in 1..i-1 \/ k = i
          /\ \A k \in 1..i-1 : k \in 1..i /\ k \in 1..n
      BY <1>2, <2>1
    <2> HIDE DEF o, L
    <2>4. /\ \A x \in 1..o : x \in 1..o+L
          /\ \A q \in 1..L : o + q \in 1..o+L
          /\ \A x \in 1..o+L : x \in 1..o \/ (x - o \in 1..L /\ x = o + (x - o))
          /\ o <= o + L
      BY <2>1
    <2>5. \A k \in 0..i : off[k] <= off[i]
      <3> SUFFICES ASSUME NEW k \in 0..i PROVE off[k] <= off[i]
        OBVIOUS
      <3>1. CASE k \in 0..i-1
        <4>1. off[k] <= o
          BY <1>8, <3>1 DEF o
        <4>2. off[k] \in Nat
          BY <1>2, <1>3, <2>1, <3>1
        <4> QED
          BY <2>1, <2>2, <4>1, <4>2
      <3>2. CASE k = i
        BY <1>3, <2>1, <3>2
      <3> QED
        BY <2>3, <3>1, <3>2
    <2>6. ASSUME NEW k \in 1..i, NEW q \in 1..Len(ss[k])
          PROVE  off[k-1] + q \in 1..off[i] /\ f[i][off[k-1] + q] = ss[k][q]
      <3>1. CASE k \in 1..i-1
        <4>1. off[k-1] + q \in 1..o /\ f[i-1][off[k-1] + q] = ss[k][q]
          BY <1>8, <2>6, <3>1 DEF o
        <4> QED
          BY <1>6, <2>2, <2>4, <4>1 DEF o
      <3>2. CASE k = i
        BY <1>6, <2>2, <2>4, <2>6, <3>2 DEF o, L
      <3> QED
        BY <2>3, <3>1, <3>2
    <2>7. ASSUME NEW p \in 1..off[i]
          PROVE  \E k \in 1..i : \E q \in 1..Len(ss[k]) : p = off[k-1] + q
      <3>1. CASE p \in 1..o
        <4>1. \E k \in 1..i-1 : \E q \in 1..Len(ss[k]) : p = off[k-1] + q
          BY <1>8, <3>1 DEF o
        <4> QED
          BY <2>3, <4>1
      <3>2. CASE p - o \in 1..L /\ p = o + (p - o)
        <4>1. i \in 1..i
          BY <2>1
        <4> QED
          BY <3>2, <4>1 DEF o, L
      <3> QED
        BY <2>2, <2>4, <3>1, <3>2
    <2> QED
      BY <2>5, <2>6, <2>7
  <1> HIDE DEF Fits
  <1>9. \A i \in 0..n : Fits(i)
    <2> DEFINE T == {i \in 1..n : Fits(i)}
    <2>1. \A i \in 1..n : i = 1 \/ i - 1 \in T => i \in T
      <3> SUFFICES ASSUME NEW i \in 1..n, i = 1 \/ i - 1 \in T
                   PROVE  Fits(i)
        OBVIOUS
      <3>1. CASE i = 1
        <4>1. i - 1 = 0
          BY <3>1
        <4> QED
          BY <1>7, <1>8, <4>1
      <3>2. CASE i - 1 \in T
        BY <1>8, <3>2
      <3> QED
        BY <3>1, <3>2
    <2> HIDE DEF T
    <2>2. 1..n \subseteq T
      BY <1>2, <2>1, CountUp
    <2>3. \A i \in 0..n : i = 0 \/ i \in 1..n
      BY <1>2
    <2> QED
      BY <1>7, <2>2, <2>3 DEF T
  <1>10. \A i, j \in 0..n : i <= j => off[i] <= off[j]
    <2> SUFFICES ASSUME NEW i \in 0..n, NEW j \in 0..n, i <= j
                 PROVE  off[i] <= off[j]
      OBVIOUS
    <2>1. i \in 0..j /\ Fits(j)
      BY <1>2, <1>9
    <2> QED
      BY <2>1 DEF Fits
  <1>11. n \in 0..n /\ off[n] = Len(FlattenSeq(ss)) /\ Fits(n)
    BY <1>1, <1>2, <1>3, <1>9
  <1>12. /\ \A i \in 1..n : \A q \in 1..Len(ss[i]) :
               /\ off[i-1] + q \in 1..Len(FlattenSeq(ss))
               /\ FlattenSeq(ss)[off[i-1] + q] = ss[i][q]
         /\ \A p \in 1..Len(FlattenSeq(ss)) :
               \E i \in 1..n : \E q \in 1..Len(ss[i]) : p = off[i-1] + q
    BY <1>1, <1>11 DEF Fits
  <1>13. \A i \in 1..n : off[i] = off[i-1] + Len(ss[i])
    BY <1>6
  <1> QED
    BY <1>4, <1>5, <1>10, <1>11, <1>12, <1>13

EndOf(i) == Len(stream[i].cells) + 1

(* What the client wrote, by place: the lines one after the other, of each *)
(* all parts, and the newline as the last of them.                         *)
InOrder ==
    /\ \A p \in 1..Len(Written) :
          /\ Written[p].line \in 1..Len(stream)
          /\ Written[p].part \in 1..EndOf(Written[p].line)
          /\ Written[p].kind = "newline" <=> Written[p].part = EndOf(Written[p].line)
    /\ \A i \in 1..Len(stream) : \A q \in 1..EndOf(i) :
          \E p \in 1..Len(Written) : Written[p].line = i /\ Written[p].part = q
    /\ \A p, q \in 1..Len(Written) : p < q =>
          /\ Written[p].line <= Written[q].line
          /\ Written[p].line = Written[q].line => Written[q].part = Written[p].part + (q - p)

(* The stream of the model is laid out in that way.                        *)
LEMMA WrittenInOrder ==
    ASSUME stream \in Streams
    PROVE  InOrder
  <1> DEFINE n == Len(stream)
             ss == [i \in 1..n |-> Bytes(i)]
             W == Written
  <1>1. W = FlattenSeq(ss)
    BY StreamType DEF Written
  <1>2. ss \in Seq(Seq(Cell)) /\ Len(ss) = n /\ n \in Nat
    <2>1. ss \in [1..n -> Seq(Cell)]
      BY BytesShape
    <2> HIDE DEF ss
    <2> QED
      BY <2>1, StreamType, AsSequence
  <1>3. ASSUME NEW i \in 1..n
        PROVE  /\ EndOf(i) \in Nat \ {0}
               /\ Len(ss[i]) = EndOf(i)
               /\ \A q \in 1..EndOf(i) :
                     /\ ss[i][q].line = i /\ ss[i][q].part = q
                     /\ ss[i][q].kind = "newline" <=> q = EndOf(i)
    <2>1. ss[i] = Bytes(i)
      OBVIOUS
    <2> DEFINE c == stream[i].cells
               L == Len(c)
    <2>2. L \in Nat /\ \A q \in 1..L : c[q] \in {"byte", "lead", "trail"}
      BY StreamType, LenProperties, ElementOfSeq
    <2>3. /\ Len(ss[i]) = L + 1
          /\ \A q \in 1..L+1 :
                /\ ss[i][q].line = i /\ ss[i][q].part = q
                /\ ss[i][q].kind = IF q = L + 1 THEN "newline" ELSE c[q]
      BY <2>1, BytesShape
    <2> HIDE DEF ss, c, L
    <2>4. \A q \in 1..L+1 : q # L + 1 => q \in 1..L
      BY <2>2
    <2>5. \A q \in 1..L+1 : ss[i][q].kind = "newline" <=> q = L + 1
      BY <2>2, <2>3, <2>4
    <2>6. EndOf(i) = L + 1
      BY DEF EndOf, L, c
    <2> QED
      BY <2>2, <2>3, <2>5, <2>6
  <1> HIDE DEF ss
  <1>4. PICK off \in [0..n -> Nat] :
              /\ off[0] = 0
              /\ \A i \in 1..n : off[i] = off[i-1] + Len(ss[i])
              /\ \A i, j \in 0..n : i <= j => off[i] <= off[j]
              /\ \A i \in 1..n : \A q \in 1..Len(ss[i]) :
                    /\ off[i-1] + q \in 1..Len(W)
                    /\ W[off[i-1] + q] = ss[i][q]
              /\ \A p \in 1..Len(W) :
                    \E i \in 1..n : \E q \in 1..Len(ss[i]) : p = off[i-1] + q
    BY <1>1, <1>2, FlattenPlaces
  <1> HIDE DEF n, W
  <1>5. \A p \in 1..Len(W) :
           \E i \in 1..n : \E q \in 1..EndOf(i) :
              /\ p = off[i-1] + q /\ W[p].line = i /\ W[p].part = q
              /\ W[p].kind = "newline" <=> q = EndOf(i)
    <2> SUFFICES ASSUME NEW p \in 1..Len(W)
                 PROVE  \E i \in 1..n : \E q \in 1..EndOf(i) :
                           /\ p = off[i-1] + q /\ W[p].line = i /\ W[p].part = q
                           /\ W[p].kind = "newline" <=> q = EndOf(i)
      OBVIOUS
    <2>0. PICK i \in 1..n : \E q \in 1..Len(ss[i]) : p = off[i-1] + q
      BY <1>4
    <2>1. PICK q \in 1..Len(ss[i]) : p = off[i-1] + q
      BY <2>0
    <2>2. W[p] = ss[i][q] /\ q \in 1..EndOf(i)
      BY <1>3, <1>4, <2>1
    <2> QED
      BY <1>3, <2>1, <2>2
  <1>6. \A i \in 1..n : \A q \in 1..EndOf(i) :
           \E p \in 1..Len(W) : W[p].line = i /\ W[p].part = q
    <2> SUFFICES ASSUME NEW i \in 1..n, NEW q \in 1..EndOf(i)
                 PROVE  \E p \in 1..Len(W) : W[p].line = i /\ W[p].part = q
      OBVIOUS
    <2>1. off[i-1] + q \in 1..Len(W) /\ W[off[i-1] + q] = ss[i][q]
      BY <1>3, <1>4
    <2> QED
      BY <1>3, <2>1
  <1>7. ASSUME NEW p \in 1..Len(W), NEW q \in 1..Len(W), p < q
        PROVE  /\ W[p].line <= W[q].line
               /\ W[p].line = W[q].line => W[q].part = W[p].part + (q - p)
    <2>10. PICK i \in 1..n : \E a \in 1..EndOf(i) :
             p = off[i-1] + a /\ W[p].line = i /\ W[p].part = a
      BY <1>5
    <2>1. PICK a \in 1..EndOf(i) :
             p = off[i-1] + a /\ W[p].line = i /\ W[p].part = a
      BY <2>10
    <2>20. PICK j \in 1..n : \E b \in 1..EndOf(j) :
             q = off[j-1] + b /\ W[q].line = j /\ W[q].part = b
      BY <1>5
    <2>2. PICK b \in 1..EndOf(j) :
             q = off[j-1] + b /\ W[q].line = j /\ W[q].part = b
      BY <2>20
    <2>3. /\ i - 1 \in 0..n /\ j - 1 \in 0..n /\ j \in 0..n /\ i \in Nat /\ j \in Nat
          /\ off[i-1] \in Nat /\ off[j-1] \in Nat /\ off[j] \in Nat
          /\ EndOf(j) \in Nat /\ off[j] = off[j-1] + EndOf(j)
      <3>1. i - 1 \in 0..n /\ j - 1 \in 0..n /\ j \in 0..n /\ i \in Nat /\ j \in Nat
        BY <1>2
      <3> QED
        BY <1>3, <1>4, <3>1
    <2>4. i <= j
      <3>1. SUFFICES ASSUME j <= i - 1 PROVE FALSE
        BY <2>3
      <3>2. off[j] <= off[i-1]
        BY <1>4, <2>3, <3>1
      <3>3. q <= off[j]
        BY <2>2, <2>3
      <3> QED
        BY <1>7, <2>1, <2>2, <2>3, <3>2, <3>3
    <2>5. i = j => b = a + (q - p)
      <3> SUFFICES ASSUME i = j PROVE b = a + (q - p)
        OBVIOUS
      <3> DEFINE o == off[i-1]
      <3>1. p = o + a /\ q = o + b
        BY <2>1, <2>2
      <3>2. a \in Nat /\ b \in Nat /\ o \in Nat
        <4>1. EndOf(i) \in Nat /\ EndOf(j) \in Nat
          BY <1>3
        <4> QED
          BY <2>3, <4>1
      <3> HIDE DEF o
      <3> QED
        BY <3>1, <3>2
    <2> QED
      BY <2>1, <2>2, <2>4, <2>5
  <1>8. \A p \in 1..Len(W) : /\ W[p].line \in 1..n /\ W[p].part \in 1..EndOf(W[p].line)
                             /\ W[p].kind = "newline" <=> W[p].part = EndOf(W[p].line)
    BY <1>5
  <1> QED
    BY <1>6, <1>7, <1>8 DEF InOrder, n, W
(* The bytes up to a newline are of one line. *)
LEMMA SameLine ==
    ASSUME stream \in Streams, NEW p \in 1..Len(Written), NEW q \in 1..Len(Written), p <= q,
           \A x \in p..q-1 : Written[x].kind # "newline"
    PROVE  /\ Written[p].line = Written[q].line
           /\ Written[q].part = Written[p].part + (q - p)
  <1> DEFINE lp == Written[p].line
             lq == Written[q].line
             N == Len(Written)
  <1>1. /\ N \in Nat /\ lp \in 1..Len(stream) /\ lq \in 1..Len(stream) /\ Len(stream) \in Nat
        /\ Written[p].part \in 1..EndOf(lp) /\ EndOf(lp) \in Nat
    BY WrittenInOrder, WrittenType, StreamType, LenProperties DEF InOrder, EndOf
  <1>2. CASE p = q
    BY <1>1, <1>2
  <1>3. CASE p < q
    <2>1. /\ lp <= lq
          /\ lp = lq => Written[q].part = Written[p].part + (q - p)
      BY <1>3, WrittenInOrder DEF InOrder
    <2>2. SUFFICES ASSUME lp < lq PROVE FALSE
      BY <1>1, <2>1
    <2>3. PICK x \in 1..Len(Written) : Written[x].line = lp /\ Written[x].part = EndOf(lp)
      <3>1. EndOf(lp) \in 1..EndOf(lp)
        BY <1>1
      <3> QED
        BY <1>1, <3>1, WrittenInOrder DEF InOrder
    <2>4. Written[x].kind = "newline"
      BY <2>3, WrittenInOrder DEF InOrder
    <2>5. ~(x < p)
      <3> SUFFICES ASSUME x < p PROVE FALSE
        OBVIOUS
      <3>1. Written[p].part = EndOf(lp) + (p - x)
        BY <2>3, WrittenInOrder DEF InOrder
      <3> QED
        BY <1>1, <3>1
    <2>6. ~(q < x) /\ x # q
      <3>1. q < x => lq <= lp
        BY <2>3, WrittenInOrder DEF InOrder
      <3> QED
        BY <1>1, <2>2, <2>3, <3>1
    <2>7. x \in p..q-1
      BY <1>1, <2>5, <2>6
    <2> QED
      BY <2>4, <2>7
  <1> QED
    BY <1>1, <1>2, <1>3

(* What comes after a newline is of a later line.                          *)
LEMMA AfterNewline ==
    ASSUME stream \in Streams, NEW p \in 1..Len(Written), NEW q \in 1..Len(Written), p < q,
           Written[p].kind = "newline"
    PROVE  Written[p].line < Written[q].line
  <1> DEFINE lp == Written[p].line
             lq == Written[q].line
             N == Len(Written)
  <1>1. /\ N \in Nat /\ lp \in 1..Len(stream) /\ lq \in 1..Len(stream) /\ Len(stream) \in Nat
        /\ Written[q].part \in 1..EndOf(lq) /\ EndOf(lp) \in Nat /\ Written[p].part = EndOf(lp)
    BY WrittenInOrder, WrittenType, StreamType, LenProperties DEF InOrder, EndOf
  <1>2. lp <= lq /\ (lp = lq => Written[q].part = EndOf(lp) + (q - p))
    BY <1>1, WrittenInOrder DEF InOrder
  <1>3. lp # lq
    <2> SUFFICES ASSUME lp = lq PROVE FALSE
      OBVIOUS
    <2>1. Written[q].part = EndOf(lp) + (q - p) /\ Written[q].part \in 1..EndOf(lp)
      BY <1>1, <1>2
    <2> QED
      BY <1>1, <2>1
  <1> QED
    BY <1>1, <1>2, <1>3

(* A line begins at the first byte and after every newline, and only there. *)
LEMMA LineBegins ==
    ASSUME stream \in Streams, NEW p \in 1..Len(Written)
    PROVE  /\ p = 1 \/ Written[p-1].kind = "newline" => Written[p].part = 1
           /\ Written[p].part = 1 => p = 1 \/ Written[p-1].kind = "newline"
  <1> DEFINE l == Written[p].line
             N == Len(Written)
  <1>1. /\ N \in Nat /\ l \in 1..Len(stream) /\ Len(stream) \in Nat
        /\ Written[p].part \in 1..EndOf(l) /\ EndOf(l) \in Nat /\ EndOf(l) >= 1
    <2>1. l \in 1..Len(stream) /\ Written[p].part \in 1..EndOf(l)
      BY WrittenInOrder DEF InOrder
    <2>2. Len(stream[l].cells) \in Nat
      BY <2>1, StreamType, LenProperties
    <2> QED
      BY <2>1, <2>2, WrittenType, StreamType DEF EndOf
  <1>2. p > 1 => p - 1 \in 1..Len(Written)
    BY <1>1
  <1>3. ASSUME p = 1 \/ Written[p-1].kind = "newline"
        PROVE  Written[p].part = 1
    <2>1. PICK x \in 1..Len(Written) : Written[x].line = l /\ Written[x].part = 1
      BY <1>1, WrittenInOrder DEF InOrder
    <2>2. ~(x > p)
      <3> SUFFICES ASSUME x > p PROVE FALSE
        OBVIOUS
      <3>1. 1 = Written[p].part + (x - p)
        BY <2>1, WrittenInOrder DEF InOrder
      <3> QED
        BY <1>1, <3>1
    <2>3. ~(x < p)
      <3> SUFFICES ASSUME x < p PROVE FALSE
        OBVIOUS
      <3>1. p > 1 /\ p - 1 \in 1..Len(Written)
        BY <1>1
      <3>2. Written[p-1].line < l
        BY <1>3, <3>1, AfterNewline
      <3>3. l <= Written[p-1].line
        <4>1. CASE x = p - 1
          BY <1>1, <2>1, <4>1
        <4>2. CASE x < p - 1
          BY <2>1, <3>1, <4>2, WrittenInOrder DEF InOrder
        <4> QED
          BY <1>1, <4>1, <4>2
      <3>4. Written[p-1].line \in 1..Len(stream)
        BY <3>1, WrittenInOrder DEF InOrder
      <3> QED
        BY <1>1, <3>2, <3>3, <3>4
    <2>4. x = p
      BY <1>1, <2>2, <2>3
    <2> QED
      BY <2>1, <2>4
  <1>4. ASSUME Written[p].part = 1, p # 1, Written[p-1].kind # "newline"
        PROVE  FALSE
    <2>1. p - 1 \in 1..Len(Written) /\ p - 1 <= p
      BY <1>1, <1>4
    <2>2. \A x \in p-1..p-1 : x = p - 1
      BY <1>1
    <2>3. Written[p].part = Written[p-1].part + (p - (p - 1))
      BY <1>4, <2>1, <2>2, SameLine
    <2>4. Written[p-1].part \in Nat /\ Written[p-1].part >= 1
      <3>1. Written[p-1] \in Cell
        BY <2>1, WrittenType, ElementOfSeq
      <3>2. Written[p-1].part \in 1..EndOf(Written[p-1].line)
        BY <2>1, WrittenInOrder DEF InOrder
      <3> QED
        BY <3>1, <3>2 DEF Cell
    <2> QED
      BY <1>1, <1>4, <2>3, <2>4
  <1> QED
    BY <1>3, <1>4

-----------------------------------------------------------------------------
(* Lines that were cut *)

start == sent - Len(buffer)

(* The text s is what was read of the bytes after a. *)
ReadsFrom(s, a) ==
    /\ s \in Seq(Cell) /\ a \in Nat /\ a + Len(s) <= Len(Written)
    /\ \A k \in 1..Len(s) : SameCell(s[k], Written[a + k])

(* A piece of it is the end of one of the client's lines. *)
Ending(line, a, x, y) ==
    /\ Source(line) = Written[a + x].line /\ line[1].part = Written[a + x].part
    /\ Written[a + y + 1].kind = "newline" /\ Written[a + y + 1].line = Source(line)
    /\ line[1].part + Len(line) = EndOf(Source(line))

(* What is cut out between two newlines is the end of a line, and, unless  *)
(* it was at the begin of the text, the whole line.                        *)
LEMMA PieceEnds ==
    ASSUME stream \in Streams, NEW s, NEW a, ReadsFrom(s, a),
           NEW x, NEW y, Between(s, x, y), x <= y
    PROVE  /\ Ending(SubSeq(s, x, y), a, x, y)
           /\ a + x \in 1..Len(Written) /\ a + y + 1 \in 1..Len(Written)
           /\ x > 1 => SubSeq(s, x, y)[1].part = 1
  <1> DEFINE n == Len(s)
             N == Len(Written)
             line == SubSeq(s, x, y)
             L == Len(line)
  <1>1. /\ n \in Nat /\ N \in Nat /\ a \in Nat /\ s \in Seq(Cell)
        /\ x \in 1..n /\ y \in 0..n-1 /\ a + n <= N
    BY WrittenType, LenProperties DEF ReadsFrom, Between
  <1>2. line[1] = s[x] /\ L = y - x + 1
    <2>1. x \in Int /\ y \in Int /\ 1 <= x /\ y <= n
      BY <1>1
    <2>2. /\ L = IF x <= y THEN y - x + 1 ELSE 0
          /\ \A q \in 1..L : line[q] = s[x + q - 1]
      BY <1>1, <2>1, SubText
    <2> HIDE DEF line, L, n
    <2>3. L = y - x + 1 /\ 1 \in 1..L /\ x + 1 - 1 = x
      BY <2>1, <2>2
    <2>4. line[1] = s[x + 1 - 1]
      BY <2>2, <2>3
    <2> QED
      BY <2>3, <2>4
  <1> HIDE DEF line, L
  <1>3. a + x \in 1..N /\ a + y + 1 \in 1..N /\ a + x <= a + y + 1 /\ y + 1 \in 1..n
    BY <1>1
  <1>4. line[1].line = Written[a + x].line /\ line[1].part = Written[a + x].part
    BY <1>1, <1>2 DEF ReadsFrom, SameCell
  <1>5. Written[a + y + 1].kind = "newline"
    <2>1. s[y+1].kind = "newline" /\ SameCell(s[y+1], Written[a + (y + 1)])
      BY <1>3 DEF Between, ReadsFrom
    <2>2. a + (y + 1) = a + y + 1
      BY <1>1
    <2> QED
      BY <2>1, <2>2 DEF SameCell
  <1>6. \A p \in a+x..(a+y+1)-1 : Written[p].kind # "newline"
    <2> SUFFICES ASSUME NEW p \in a+x..(a+y+1)-1
                 PROVE  Written[p].kind # "newline"
      OBVIOUS
    <2>1. p - a \in x..y /\ p - a \in 1..n /\ a + (p - a) = p
      BY <1>1
    <2>2. s[p-a].kind # "newline" /\ SameCell(s[p-a], Written[p])
      BY <2>1 DEF Between, ReadsFrom
    <2> QED
      BY <2>2 DEF SameCell
  <1>7. /\ Written[a+x].line = Written[a+y+1].line
        /\ Written[a+y+1].part = Written[a+x].part + ((a + y + 1) - (a + x))
    BY <1>3, <1>6, SameLine
  <1>8. Written[a+y+1].part = EndOf(Written[a+y+1].line)
    BY <1>3, <1>5, WrittenInOrder DEF InOrder
  <1>9. line[1].part + L = EndOf(line[1].line)
    <2>1. Written[a+x].part \in Int
      <3>1. Written[a+x] \in Cell
        BY <1>3, WrittenType, ElementOfSeq
      <3> QED
        BY <3>1 DEF Cell
    <2>2. (a + y + 1) - (a + x) = L
      BY <1>1, <1>2
    <2> QED
      BY <1>4, <1>7, <1>8, <2>2
  <1>10. x > 1 => line[1].part = 1
    <2> SUFFICES ASSUME x > 1 PROVE line[1].part = 1
      OBVIOUS
    <2>1. x - 1 \in 1..n /\ s[x-1].kind = "newline" /\ a + (x - 1) = (a + x) - 1
      BY <1>1 DEF Between
    <2>2. Written[(a + x) - 1].kind = "newline"
      BY <2>1 DEF ReadsFrom, SameCell
    <2> QED
      BY <1>3, <1>4, <2>2, LineBegins
  <1> QED
    BY <1>3, <1>4, <1>5, <1>7, <1>9, <1>10 DEF Ending, Source, line, L
-----------------------------------------------------------------------------
(* The buffer and the lines that were handled *)

(* The buffer is what was read last, without a newline in it; unless the   *)
(* buffer was dropped after the last line, it begins where a line begins.  *)
BufferInv ==
    /\ ReadsFrom(buffer, start)
    /\ \A k \in 1..Len(buffer) : buffer[k].kind # "newline"
    /\ Len(handled) \in resets \/ start = 0 \/ Written[start].kind = "newline"

(* What was handled is the ends of lines in the client's order, all of     *)
(* lines before those that the buffer and the rest of the stream are of.   *)
HandledInv ==
    \A h \in 1..Len(handled) :
        /\ handled[h][1].part + Len(handled[h]) = EndOf(Source(handled[h]))
        /\ handled[h][1].part = 1 \/ h - 1 \in resets
        /\ h > 1 => Source(handled[h-1]) < Source(handled[h])
        /\ \A p \in start+1..Len(Written) : Source(handled[h]) < Written[p].line

(* How a "data" event moves the begin of the buffer. *)
Moves(s, r) ==
    /\ r \in 0..Len(s) /\ start' = start + r
    /\ \/ Overflows(s) /\ DropBuffer(s) /\ r = Len(s)
       \/ /\ ~Overflows(s) /\ CutLines(s) /\ UNCHANGED resets
          /\ buffer' = SubSeq(s, r + 1, Len(s)) /\ Len(buffer') = Len(s) - r
          /\ r = 0 \/ s[r].kind = "newline"
          /\ \A q \in r+1..Len(s) : s[q].kind # "newline"

(* A "data" event reads on from the end of the buffer.                     *)
LEMMA DataMoves ==
    ASSUME TypeInv, BufferInv, NEW n \in 1..MaxChunk, Data(n)
    PROVE  \E s, r : /\ ReadsFrom(s, start) /\ Moves(s, r) /\ Len(s) = Len(buffer) + n
                     /\ \A k \in 1..Len(buffer) : s[k] = buffer[k]
  <1> DEFINE B == Len(buffer)
             N == Len(Written)
  <1>1. /\ B \in Nat /\ N \in Nat /\ n \in Nat /\ sent \in Nat /\ start \in Nat
        /\ start = sent - B /\ sent + n <= N /\ sent' = sent + n
    BY DataReads, WrittenType, LenProperties, StdioServerAssumption
       DEF TypeInv, BufferInv, ReadsFrom, start
  <1>2. PICK s \in Seq(Cell) :
           /\ Len(s) = B + n
           /\ \A k \in 1..B : s[k] = buffer[k]
           /\ \A k \in 1..n : SameCell(s[B + k], Written[sent + k])
           /\ \/ Overflows(s) /\ DropBuffer(s)
              \/ ~Overflows(s) /\ CutLines(s) /\ UNCHANGED resets
    BY DataReads
  <1> HIDE DEF B, N
  <1>3. ReadsFrom(s, start)
    <2>1. ASSUME NEW k \in 1..Len(s)
          PROVE  SameCell(s[k], Written[start + k])
      <3>1. CASE k \in 1..B
        BY <1>2, <3>1 DEF BufferInv, ReadsFrom, B
      <3>2. CASE k \notin 1..B
        <4>1. k - B \in 1..n /\ B + (k - B) = k /\ sent + (k - B) = start + k
          BY <1>1, <1>2, <3>2
        <4> QED
          BY <1>2, <4>1
      <3> QED
        BY <3>1, <3>2
    <2>2. start + Len(s) <= N
      BY <1>1, <1>2
    <2> QED
      BY <1>1, <1>2, <2>1, <2>2 DEF ReadsFrom, N
  <1>4. CASE Overflows(s) /\ DropBuffer(s)
    <2>1. Len(buffer') = 0
      BY <1>4, EmptySeq DEF DropBuffer
    <2>2. start' = start + Len(s) /\ Len(s) \in 0..Len(s)
      <3>1. start' = sent' - Len(buffer')
        BY DEF start
      <3> QED
        BY <1>1, <1>2, <2>1, <3>1
    <2> QED
      BY <1>2, <1>3, <1>4, <2>2 DEF Moves, B
  <1>5. CASE ~Overflows(s) /\ CutLines(s) /\ UNCHANGED resets
    <2>1. PICK r \in 0..Len(s) :
             /\ RestOf(s) = SubSeq(s, r + 1, Len(s))
             /\ r = 0 \/ s[r].kind = "newline"
             /\ \A q \in r+1..Len(s) : s[q].kind # "newline"
      BY RestCut
    <2>2. buffer' = SubSeq(s, r + 1, Len(s))
      BY <1>5, <2>1 DEF CutLines
    <2> DEFINE L == Len(s)
               M == Len(buffer')
    <2>3. L \in Nat /\ r \in 0..L /\ r \in Nat
      BY <1>1, <1>2
    <2>4. M = IF r + 1 <= L THEN L - (r + 1) + 1 ELSE 0
      <3>1. r + 1 \in Int /\ L \in Int /\ 1 <= r + 1
        BY <2>3
      <3> QED
        BY <2>2, <3>1, SubText
    <2> HIDE DEF L, M
    <2>5. M = L - r
      BY <2>3, <2>4
    <2>6. start' = start + r
      <3>1. start' = sent' - M
        BY DEF start, M
      <3>2. L = B + n
        BY <1>2 DEF L
      <3> QED
        BY <1>1, <2>3, <2>5, <3>1, <3>2
    <2> QED
      BY <1>2, <1>3, <1>5, <2>1, <2>2, <2>5, <2>6 DEF Moves, B, L, M
  <1> QED
    BY <1>2, <1>4, <1>5

(* The buffer stays what was read last.                                    *)
LEMMA BufferNext ==
    ASSUME TypeInv, BufferInv, NEW n \in 1..MaxChunk, Data(n), UNCHANGED chosen
    PROVE  BufferInv'
  <1>1. PICK s, r : ReadsFrom(s, start) /\ Moves(s, r) /\ Len(s) = Len(buffer) + n
    BY DataMoves
  <1> DEFINE L == Len(s)
             N == Len(Written)
  <1>2. /\ L \in Nat /\ N \in Nat /\ start \in Nat /\ start + L <= N /\ s \in Seq(Cell)
        /\ r \in 0..L /\ start' = start + r /\ Written' = Written
    BY <1>1, Chosen, WrittenType, LenProperties DEF ReadsFrom, Moves, TypeInv
  <1>3. start' \in Nat
    BY <1>2
  <1>4. buffer' \in Seq(Cell)' /\ Cell' = Cell
    BY TypeData, Chosen DEF TypeInv
  <1>5. CASE Overflows(s)
    <2>1. buffer' = << >> /\ Len(buffer') = 0 /\ Len(handled') \in resets'
      BY <1>1, <1>5, EmptySeq DEF DropBuffer, Moves
    <2>2. start' + 0 <= N
      BY <1>2
    <2>3. ReadsFrom(buffer, start)'
      BY <1>2, <1>3, <1>4, <2>1, <2>2 DEF ReadsFrom
    <2> QED
      BY <2>1, <2>3 DEF BufferInv
  <1>6. CASE ~Overflows(s)
    <2>1. /\ CutLines(s) /\ UNCHANGED resets
          /\ buffer' = SubSeq(s, r + 1, L) /\ Len(buffer') = L - r
          /\ r = 0 \/ s[r].kind = "newline"
          /\ \A q \in r+1..L : s[q].kind # "newline"
      BY <1>1, <1>6 DEF Moves
    <2> HIDE DEF L, N
    <2>2. ASSUME NEW k \in 1..L-r
          PROVE  /\ SameCell(buffer'[k], Written[(start + r) + k])
                 /\ buffer'[k].kind # "newline"
      <3>1. r + 1 \in Int /\ L \in Int /\ 1 <= r + 1 /\ L <= Len(s)
        BY <1>2 DEF L
      <3>2. \A q \in 1..Len(buffer') : buffer'[q] = s[(r + 1) + q - 1]
        BY <1>2, <2>1, <3>1, SubText
      <3>3. /\ (r + 1) + k - 1 = r + k /\ r + k \in 1..L /\ r + k \in r+1..L
            /\ start + (r + k) = (start + r) + k
        BY <1>2
      <3>4. k \in 1..Len(buffer')
        BY <2>1
      <3>5. buffer'[k] = s[r + k]
        BY <3>2, <3>3, <3>4
      <3>6. SameCell(s[r + k], Written[start + (r + k)])
        BY <1>1, <3>3 DEF ReadsFrom, L
      <3> QED
        BY <2>1, <3>3, <3>5, <3>6
    <2>3. ReadsFrom(buffer, start)'
      <3>1. start' + Len(buffer') <= N
        BY <1>2, <2>1
      <3> QED
        BY <1>2, <1>3, <1>4, <2>1, <2>2, <3>1 DEF ReadsFrom, SameCell, N
    <2>4. Len(handled') \in resets' \/ start' = 0 \/ Written[start'].kind = "newline"
      <3>1. CASE r = 0
        <4>1. Len(LinesOf(s)) = 0
          <5>1. LinesOf(s) \in Seq(Seq(Cell) \ {<< >>}) /\ Len(LinesOf(s)) \in Nat
            BY <1>2, LinesCut, LenProperties
          <5>2. PICK from, to : CutAt(s, LinesOf(s), from, to)
            BY <1>2, LinesCut
          <5>3. SUFFICES ASSUME Len(LinesOf(s)) # 0 PROVE FALSE
            OBVIOUS
          <5>4. 1 \in 1..Len(LinesOf(s))
            BY <5>1, <5>3
          <5>5. s[to[1]+1].kind = "newline" /\ to[1] \in 0..L-1
            BY <5>2, <5>4 DEF CutAt, Between, L
          <5>6. to[1] + 1 \in r+1..L
            BY <1>2, <3>1, <5>5
          <5> QED
            BY <2>1, <5>5, <5>6
        <4>2. LinesOf(s) \in Seq(Line)
          BY <1>2, LinesOfText
        <4>3. Len(handled') = Len(handled) + Len(LinesOf(s)) /\ Len(handled) \in Nat
          BY <2>1, <4>2, HandledGrows, LenProperties DEF CutLines, Grown, TypeInv
        <4>4. Len(handled') = Len(handled) /\ start' = start
          BY <1>2, <3>1, <4>1, <4>3
        <4> QED
          BY <2>1, <4>4 DEF BufferInv
      <3>2. CASE r # 0
        <4>1. r \in 1..L
          BY <1>2, <3>2
        <4>2. s[r].kind = "newline" /\ SameCell(s[r], Written[start + r])
          BY <1>1, <2>1, <3>2, <4>1 DEF ReadsFrom, L
        <4> QED
          BY <1>2, <4>2 DEF SameCell
      <3> QED
        BY <3>1, <3>2
    <2>5. \A k \in 1..Len(buffer') : buffer'[k].kind # "newline"
      BY <2>1, <2>2
    <2> QED
      BY <1>2, <2>3, <2>4, <2>5 DEF BufferInv
  <1> QED
    BY <1>5, <1>6
(* What is cut off the text is the ends of lines. *)
LEMMA CutEnds ==
    ASSUME stream \in Streams, NEW s, NEW a, ReadsFrom(s, a),
           NEW from, NEW to, CutAt(s, LinesOf(s), from, to)
    PROVE  \A k \in 1..Len(LinesOf(s)) :
              /\ Ending(LinesOf(s)[k], a, from[k], to[k])
              /\ from[k] \in 1..Len(s) /\ to[k] + 1 \in 1..Len(s) /\ from[k] <= to[k]
              /\ a + from[k] \in 1..Len(Written) /\ a + to[k] + 1 \in 1..Len(Written)
              /\ from[k] > 1 => LinesOf(s)[k][1].part = 1
  <1> SUFFICES ASSUME NEW k \in 1..Len(LinesOf(s))
               PROVE  /\ Ending(LinesOf(s)[k], a, from[k], to[k])
                      /\ from[k] \in 1..Len(s) /\ to[k] + 1 \in 1..Len(s) /\ from[k] <= to[k]
                      /\ a + from[k] \in 1..Len(Written) /\ a + to[k] + 1 \in 1..Len(Written)
                      /\ from[k] > 1 => LinesOf(s)[k][1].part = 1
    OBVIOUS
  <1>1. /\ Between(s, from[k], to[k]) /\ from[k] <= to[k]
        /\ LinesOf(s)[k] = SubSeq(s, from[k], to[k])
    BY DEF CutAt
  <1>2. from[k] \in 1..Len(s) /\ to[k] + 1 \in 1..Len(s)
    BY <1>1, LenProperties DEF Between, ReadsFrom
  <1> DEFINE x == from[k]
             y == to[k]
  <1>3. Between(s, x, y) /\ x <= y
    BY <1>1
  <1> HIDE DEF x, y
  <1>4. /\ Ending(SubSeq(s, x, y), a, x, y)
        /\ a + x \in 1..Len(Written) /\ a + y + 1 \in 1..Len(Written)
        /\ x > 1 => SubSeq(s, x, y)[1].part = 1
    BY <1>3, PieceEnds
  <1> QED
    BY <1>1, <1>2, <1>4 DEF x, y

(* The lines cut off by one event continue those handled before.           *)
LEMMA HandledBatch ==
    ASSUME TypeInv, BufferInv, HandledInv, UNCHANGED chosen,
           NEW s, NEW r, ReadsFrom(s, start), Moves(s, r), ~Overflows(s)
    PROVE  HandledInv'
  <1> DEFINE lines == LinesOf(s)
             N == Len(handled)
             m == Len(lines)
             a == start
             L == Len(s)
             W == Written
             M == Len(W)
  <1>1. /\ CutLines(s) /\ UNCHANGED resets
        /\ \A q \in r+1..L : s[q].kind # "newline"
        /\ r \in 0..L /\ start' = a + r
    BY DEF Moves
  <1>2. /\ lines \in Seq(Line) /\ m \in Nat /\ N \in Nat /\ a \in Nat /\ L \in Nat /\ M \in Nat
        /\ a + L <= M /\ s \in Seq(Cell) /\ stream \in Streams
    BY LinesOfText, WrittenType, LenProperties DEF TypeInv, ReadsFrom
  <1>3. Grown(lines)
    BY <1>1, <1>2, HandledGrows DEF CutLines
  <1>4. PICK from, to : CutAt(s, lines, from, to)
    BY <1>2, LinesCut
  <1>5. \A k \in 1..m :
           /\ Ending(lines[k], a, from[k], to[k])
           /\ from[k] \in 1..L /\ to[k] + 1 \in 1..L /\ from[k] <= to[k]
           /\ a + from[k] \in 1..M /\ a + to[k] + 1 \in 1..M
           /\ from[k] > 1 => lines[k][1].part = 1
    BY <1>2, <1>4, CutEnds
  <1>6. \A k, l \in 1..m : k < l => to[k] + 1 < from[l]
    BY <1>4 DEF CutAt
  <1>7. \A k \in 1..m : s[to[k]+1].kind = "newline"
    BY <1>4 DEF CutAt, Between
  <1>8. /\ \A h \in 1..N : handled'[h] = handled[h]
        /\ \A k \in 1..m : handled'[N + k] = lines[k]
        /\ Len(handled') = N + m
    BY <1>3 DEF Grown
  <1> HIDE DEF lines, N, m, a, L, M, W
  <1>9. ASSUME NEW k \in 1..m
        PROVE  /\ lines[k][1].part + Len(lines[k]) = EndOf(Source(lines[k]))
               /\ lines[k][1].part = 1 \/ (N + k) - 1 \in resets
               /\ k > 1 => Source(lines[k-1]) < Source(lines[k])
               /\ k = 1 /\ N > 0 => Source(handled[N]) < Source(lines[k])
               /\ \A p \in (a + r)+1..M : Source(lines[k]) < W[p].line
    <2>1. /\ Source(lines[k]) = W[a + from[k]].line /\ lines[k][1].part = W[a + from[k]].part
          /\ W[a + to[k] + 1].kind = "newline" /\ W[a + to[k] + 1].line = Source(lines[k])
          /\ lines[k][1].part + Len(lines[k]) = EndOf(Source(lines[k]))
      BY <1>5 DEF Ending, W
    <2>2. /\ from[k] \in 1..L /\ to[k] + 1 \in 1..L
          /\ a + from[k] \in 1..M /\ a + to[k] + 1 \in 1..M
          /\ from[k] > 1 => lines[k][1].part = 1
      BY <1>5
    <2>3. lines[k][1].part = 1 \/ (N + k) - 1 \in resets
      <3>1. CASE from[k] > 1
        BY <2>2, <3>1
      <3>2. CASE from[k] = 1
        <4>1. k = 1
          <5> SUFFICES ASSUME k # 1 PROVE FALSE
            OBVIOUS
          <5>1. 1 \in 1..m /\ 1 < k
            BY <1>2
          <5>2. to[1] + 1 < from[k] /\ to[1] + 1 \in 1..L
            BY <1>5, <1>6, <5>1
          <5> QED
            BY <1>2, <3>2, <5>2
        <4>2. (N + k) - 1 = N
          BY <1>2, <4>1
        <4>3. N \in resets \/ a = 0 \/ W[a].kind = "newline"
          BY DEF BufferInv, N, a, W
        <4>4. a + 1 \in 1..M /\ (a + 1) - 1 = a
          BY <1>2, <2>2, <3>2
        <4>5. a = 0 \/ W[a].kind = "newline" => W[a+1].part = 1
          BY <1>2, <4>4, LineBegins DEF W, M
        <4> QED
          BY <2>1, <3>2, <4>2, <4>3, <4>5
      <3> QED
        BY <1>2, <2>2, <3>1, <3>2
    <2>4. k > 1 => Source(lines[k-1]) < Source(lines[k])
      <3> SUFFICES ASSUME k > 1 PROVE Source(lines[k-1]) < Source(lines[k])
        OBVIOUS
      <3>1. k - 1 \in 1..m /\ k - 1 < k
        BY <1>2
      <3>2. /\ a + to[k-1] + 1 \in 1..M /\ W[a + to[k-1] + 1].kind = "newline"
            /\ W[a + to[k-1] + 1].line = Source(lines[k-1])
            /\ to[k-1] + 1 < from[k] /\ to[k-1] + 1 \in 1..L
        BY <1>5, <1>6, <3>1 DEF Ending, W
      <3>3. a + to[k-1] + 1 < a + from[k]
        <4> DEFINE u == to[k-1] + 1
        <4>1. u \in Int /\ u < from[k] /\ from[k] \in Int
          BY <1>2, <2>2, <3>2
        <4>2. to[k-1] \in Int
          <5>1. to[k-1] \in 0..L-1
            BY <1>4, <3>1 DEF CutAt, Between, L, m
          <5> QED
            BY <1>2, <5>1
        <4>3. a + to[k-1] + 1 = a + u
          BY <1>2, <4>2
        <4> HIDE DEF u
        <4> QED
          BY <1>2, <4>1, <4>3
      <3> QED
        BY <1>2, <2>1, <2>2, <3>2, <3>3, AfterNewline DEF W, M
    <2>5. k = 1 /\ N > 0 => Source(handled[N]) < Source(lines[k])
      <3> SUFFICES ASSUME N > 0 PROVE Source(handled[N]) < Source(lines[k])
        OBVIOUS
      <3>1. N \in 1..N /\ a + from[k] \in a+1..M
        BY <1>2, <2>2
      <3> QED
        BY <2>1, <3>1 DEF HandledInv, N, a, M, W
    <2>6. \A p \in (a + r)+1..M : Source(lines[k]) < W[p].line
      <3> SUFFICES ASSUME NEW p \in (a + r)+1..M
                   PROVE  Source(lines[k]) < W[p].line
        OBVIOUS
      <3>1. to[k] + 1 \notin r+1..L
        BY <1>1, <1>7
      <3>2. to[k] + 1 <= r
        BY <1>1, <1>2, <2>2, <3>1
      <3>3. to[k] \in 0..L-1
        BY <1>4 DEF CutAt, Between, L, m
      <3>4. a + to[k] + 1 < p /\ p \in 1..M
        BY <1>1, <1>2, <3>2, <3>3
      <3> QED
        BY <1>2, <2>1, <2>2, <3>4, AfterNewline DEF W, M
    <2> QED
      BY <2>1, <2>3, <2>4, <2>5, <2>6
  <1>10. \A h \in 1..N+m : h \in 1..N \/ (h - N \in 1..m /\ N + (h - N) = h)
    BY <1>2
  <1>11. ASSUME NEW h \in 1..N+m
         PROVE  /\ handled'[h][1].part + Len(handled'[h]) = EndOf(Source(handled'[h]))
                /\ handled'[h][1].part = 1 \/ h - 1 \in resets
                /\ h > 1 => Source(handled'[h-1]) < Source(handled'[h])
                /\ \A p \in (a + r)+1..M : Source(handled'[h]) < W[p].line
    <2>1. CASE h \in 1..N
      <3>1. h > 1 => h - 1 \in 1..N
        BY <1>2, <2>1
      <3>2. \A p \in (a + r)+1..M : p \in a+1..M
        BY <1>1, <1>2
      <3>3. handled'[h] = handled[h] /\ (h > 1 => handled'[h-1] = handled[h-1])
        BY <1>8, <2>1, <3>1
      <3> QED
        BY <2>1, <3>2, <3>3 DEF HandledInv, N, a, M, W
    <2>2. CASE h - N \in 1..m /\ N + (h - N) = h
      <3> DEFINE k == h - N
      <3>1. k \in 1..m /\ N + k = h
        BY <2>2
      <3> HIDE DEF k
      <3>2. handled'[h] = lines[k]
        BY <1>8, <3>1
      <3>3. h > 1 => Source(handled'[h-1]) < Source(handled'[h])
        <4> SUFFICES ASSUME h > 1 PROVE Source(handled'[h-1]) < Source(handled'[h])
          OBVIOUS
        <4>1. CASE k > 1
          <5>1. k - 1 \in 1..m /\ N + (k - 1) = h - 1
            BY <1>2, <3>1, <4>1
          <5>2. handled'[h-1] = lines[k-1]
            BY <1>8, <5>1
          <5> QED
            BY <1>9, <3>1, <3>2, <4>1, <5>2
        <4>2. CASE k = 1
          <5>1. N > 0 /\ N \in 1..N /\ h - 1 = N
            BY <1>2, <3>1, <4>2
          <5>2. handled'[h-1] = handled[N]
            BY <1>8, <5>1
          <5> QED
            BY <1>9, <3>1, <3>2, <4>2, <5>1, <5>2
        <4> QED
          BY <1>2, <3>1, <4>1, <4>2
      <3> QED
        BY <1>9, <3>1, <3>2, <3>3
    <2> QED
      BY <1>10, <2>1, <2>2
  <1>12. /\ Len(handled)' = N + m /\ start' = a + r /\ Len(Written)' = M /\ resets' = resets
         /\ Written' = W /\ stream' = stream
    BY <1>1, <1>8, Chosen DEF M, W
  <1>13. \A i : EndOf(i)' = EndOf(i)
    BY <1>12 DEF EndOf
  <1> QED
    BY <1>11, <1>12, <1>13 DEF HandledInv, Source

(* A "data" event hands on the ends of lines only.                         *)
LEMMA HandledNext ==
    ASSUME TypeInv, BufferInv, HandledInv, NEW n \in 1..MaxChunk, Data(n), UNCHANGED chosen
    PROVE  HandledInv'
  <1>1. PICK s, r : ReadsFrom(s, start) /\ Moves(s, r)
    BY DataMoves
  <1>2. CASE ~Overflows(s)
    BY <1>1, <1>2, HandledBatch
  <1>3. CASE Overflows(s)
    <2>1. handled' = handled /\ resets \subseteq resets' /\ start' = start + r /\ r \in 0..Len(s)
      BY <1>1, <1>3 DEF Moves, DropBuffer
    <2>2. Written' = Written /\ stream' = stream /\ \A i : EndOf(i)' = EndOf(i)
      BY Chosen DEF EndOf
    <2>3. \A p \in start'+1..Len(Written) : p \in start+1..Len(Written)
      <3>1. start \in Nat /\ Len(s) \in Nat /\ Len(Written) \in Nat
        BY <1>1, WrittenType, LenProperties DEF ReadsFrom, TypeInv
      <3> QED
        BY <2>1, <3>1
    <2> QED
      BY <2>1, <2>2, <2>3 DEF HandledInv, Source
  <1> QED
    BY <1>2, <1>3
(* Nothing was read or handled yet.                                        *)
LEMMA TextInit == ASSUME Init PROVE BufferInv /\ HandledInv
  <1>1. /\ buffer = << >> /\ Len(buffer) = 0 /\ handled = << >> /\ Len(handled) = 0
        /\ sent = 0 /\ start = 0 /\ stream \in Streams
    <2>1. /\ buffer = << >> /\ Len(buffer) = 0 /\ handled = << >> /\ Len(handled) = 0
          /\ sent = 0 /\ stream \in Streams
      BY EmptySeq DEF Init
    <2>2. start = 0
      <3>1. sent = 0 /\ Len(buffer) = 0
        BY <2>1
      <3> QED
        BY <3>1 DEF start
    <2> QED
      BY <2>1, <2>2
  <1>2. ReadsFrom(buffer, start)
    <2>1. << >> \in Seq(Cell) /\ Len(Written) \in Nat
      BY <1>1, EmptySeq, WrittenType
    <2> QED
      BY <1>1, <2>1 DEF ReadsFrom
  <1> QED
    BY <1>1, <1>2 DEF BufferInv, HandledInv

(* No step breaks what is known of the buffer and the lines.               *)
LEMMA TextNext ==
    ASSUME TypeInv, BufferInv, HandledInv, [Next]_vars
    PROVE  BufferInv' /\ HandledInv'
  <1>1. CASE UNCHANGED << chosen, sent, buffer, handled, resets >>
    <2>1. /\ UNCHANGED << sent, buffer, handled, resets >> /\ start' = start
          /\ Written' = Written /\ Cell' = Cell /\ stream' = stream
      BY <1>1, Chosen DEF start
    <2> QED
      BY <2>1 DEF BufferInv, HandledInv, ReadsFrom, SameCell, EndOf, Source
  <1>2. ASSUME NEW n \in 1..MaxChunk, Data(n), UNCHANGED chosen
        PROVE  BufferInv' /\ HandledInv'
    BY <1>2, BufferNext, HandledNext
  <1>3. ASSUME NEW h \in DOMAIN handled, Settles(h), UNCHANGED chosen
        PROVE  BufferInv' /\ HandledInv'
    <2>1. UNCHANGED << sent, buffer, handled, resets >>
      BY <1>3 DEF Settles, CallAllowed, CallAnswered, CallRejects, UpstreamSettles
    <2> QED
      BY <1>1, <1>3, <2>1
  <1>4. CASE UNCHANGED vars
    BY <1>1, <1>4 DEF vars, moving
  <1> QED
    BY <1>2, <1>3, <1>4 DEF Next

(* An end of a line that begins with its first part is the whole line.     *)
LEMMA HandledImplies == TypeInv /\ HandledInv => ClientLinesOnly
  <1> SUFFICES ASSUME TypeInv, HandledInv, NEW h \in DOMAIN handled
               PROVE  /\ Whole(handled[h]) \/ h - 1 \in resets
                      /\ h > 1 => Source(handled[h - 1]) < Source(handled[h])
    BY DEF ClientLinesOnly
  <1>1. h \in 1..Len(handled)
    BY LenProperties DEF TypeInv
  <1>2. h > 1 => Source(handled[h - 1]) < Source(handled[h])
    BY <1>1 DEF HandledInv
  <1>3. ASSUME handled[h][1].part = 1
        PROVE  Whole(handled[h])
    <2> DEFINE line == handled[h]
               i == Source(line)
               L == Len(line)
               C == Len(stream[i].cells)
    <2>1. line \in Line /\ line[1] \in Cell /\ L \in Nat
      <3>1. line \in Line
        BY <1>1, ElementOfSeq DEF TypeInv
      <3>2. line \in Seq(Cell) /\ line # << >>
        BY <3>1 DEF Line
      <3>3. L \in Nat /\ 1 \in 1..L
        BY <3>2, LenProperties, EmptySeq
      <3> QED
        BY <3>1, <3>2, <3>3, ElementOfSeq
    <2>2. C \in Nat
      <3>1. i \in 1..Len(stream)
        BY <2>1 DEF Cell, Source
      <3> QED
        BY <3>1, StreamType, LenProperties DEF TypeInv
    <2>3. 1 + L = C + 1
      BY <1>1, <1>3 DEF HandledInv, EndOf
    <2> HIDE DEF L, C
    <2>4. L = C
      BY <2>1, <2>2, <2>3 DEF L, C
    <2> QED
      BY <1>3, <2>4 DEF Whole, Message, L, C
  <1> QED
    BY <1>1, <1>2, <1>3 DEF HandledInv

TextInv == TypeInv /\ BufferInv /\ HandledInv

(* The types, the buffer and the handled lines, in every state.            *)
LEMMA TextInductive == Spec => []TextInv
  <1>1. Init => TextInv
    BY TypeInit, TextInit DEF TextInv
  <1>2. TextInv /\ [Next]_vars => TextInv'
    BY TypeNext, TextNext DEF TextInv
  <1> QED
    BY <1>1, <1>2, PTL DEF Spec

(* listenToStdin hands on only what the client wrote as a line, in the     *)
(* order of the client, apart from the end of a line whose begin was       *)
(* dropped.                                                                *)
THEOREM ClientLines == Spec => []ClientLinesOnly
  <1>1. TextInv => ClientLinesOnly
    BY HandledImplies DEF TextInv
  <1> QED
    BY <1>1, TextInductive, PTL

-----------------------------------------------------------------------------
(* Lost lines *)

(* The begin of line i is not in the buffer, nor after it. *)
Gone(i) == \E p \in 1..start : Written[p].line = i /\ Written[p].part = 1

WasHandled(i) == \E h \in 1..Len(handled) : Source(handled[h]) = i /\ Whole(handled[h])

LongLine(i) == Len(stream[i].cells) > MaxBuffer - MaxChunk

(* With a line that is gone, or after one, the limit was reached. *)
DropInv ==
    \A i \in 1..Len(stream) :
        Gone(i) /\ stream[i].cells # << >> /\ ~WasHandled(i) =>
            \E j \in 1..i : Gone(j) /\ ~WasHandled(j) /\ LongLine(j)

(* Nothing is gone yet.                                                    *)
LEMMA DropInit == ASSUME Init PROVE DropInv
  <1>1. start = 0
    <2>1. sent = 0 /\ Len(buffer) = 0
      BY EmptySeq DEF Init
    <2> QED
      BY <2>1 DEF start
  <1> QED
    BY <1>1 DEF DropInv, Gone

(* A line has one begin. *)
LEMMA OnePlace ==
    ASSUME stream \in Streams, NEW p \in 1..Len(Written), NEW q \in 1..Len(Written),
           Written[p].line = Written[q].line, Written[p].part = Written[q].part
    PROVE  p = q
  <1>1. p \in Nat /\ q \in Nat /\ Written[p].part \in Nat
    <2>1. Written[p] \in Cell
      BY WrittenType, ElementOfSeq
    <2> QED
      BY <2>1, WrittenType DEF Cell
  <1>2. ~(p < q)
    <2>1. p < q => Written[q].part = Written[p].part + (q - p)
      BY WrittenInOrder DEF InOrder
    <2> QED
      BY <1>1, <2>1
  <1>3. ~(q < p)
    <2>1. q < p => Written[p].part = Written[q].part + (p - q)
      BY WrittenInOrder DEF InOrder
    <2> QED
      BY <1>1, <2>1
  <1> QED
    BY <1>1, <1>2, <1>3

(* A line that was gone is not handled as a whole any more. *)
LEMMA GoneStays ==
    ASSUME TextInv, NEW s, NEW r, ReadsFrom(s, start), Moves(s, r), UNCHANGED chosen,
           NEW j \in 1..Len(stream), Gone(j), ~WasHandled(j)
    PROVE  Gone(j)' /\ ~WasHandled(j)'
  <1>1. /\ start \in Nat /\ r \in 0..Len(s) /\ Len(s) \in Nat /\ start' = start + r
        /\ Written' = Written /\ stream' = stream
        /\ start + Len(s) <= Len(Written) /\ Len(Written) \in Nat
        /\ stream \in Streams
    BY Chosen, WrittenType, LenProperties DEF ReadsFrom, Moves, TextInv, TypeInv
  <1>2. PICK p \in 1..start : Written[p].line = j /\ Written[p].part = 1
    BY DEF Gone
  <1>3. p \in 1..start' /\ p \in 1..Len(Written)
    BY <1>1
  <1>4. Gone(j)'
    BY <1>1, <1>2, <1>3 DEF Gone
  <1>5. CASE Overflows(s)
    <2>1. handled' = handled
      BY <1>5 DEF Moves, DropBuffer
    <2> QED
      BY <1>1, <1>4, <2>1 DEF WasHandled, Whole, Message, Source
  <1>6. CASE ~Overflows(s)
    <2> DEFINE lines == LinesOf(s)
               N == Len(handled)
               m == Len(lines)
    <2>1. CutLines(s) /\ lines \in Seq(Line) /\ m \in Nat /\ N \in Nat
      BY <1>6, LinesOfText, LenProperties DEF Moves, ReadsFrom, TextInv, TypeInv
    <2>2. Grown(lines)
      BY <2>1, HandledGrows DEF CutLines, TextInv
    <2>3. PICK from, to : CutAt(s, lines, from, to)
      BY LinesCut DEF ReadsFrom
    <2>4. \A k \in 1..m : /\ Ending(lines[k], start, from[k], to[k])
                          /\ from[k] \in 1..Len(s) /\ start + from[k] \in 1..Len(Written)
      BY <1>1, <2>3, CutEnds
    <2>5. /\ \A h \in 1..N : handled'[h] = handled[h]
          /\ \A k \in 1..m : handled'[N + k] = lines[k]
          /\ Len(handled') = N + m
      BY <2>2 DEF Grown
    <2> HIDE DEF lines, N, m
    <2>6. ASSUME NEW h \in 1..N+m, Source(handled'[h]) = j, handled'[h][1].part = 1
          PROVE  h \in 1..N
      <3>1. SUFFICES ASSUME h - N \in 1..m, N + (h - N) = h PROVE FALSE
        BY <2>1
      <3> DEFINE k == h - N
      <3>2. k \in 1..m /\ handled'[h] = lines[k]
        BY <2>5, <3>1
      <3> HIDE DEF k
      <3>3. Written[start + from[k]].line = j /\ Written[start + from[k]].part = 1
        BY <2>4, <2>6, <3>2 DEF Ending
      <3>4. start + from[k] \in 1..Len(Written) /\ from[k] \in 1..Len(s)
        BY <2>4, <3>2
      <3>5. start + from[k] = p
        BY <1>1, <1>2, <1>3, <3>3, <3>4, OnePlace
      <3> QED
        BY <1>1, <1>2, <3>4, <3>5
    <2>7. \A x : Whole(x)' = Whole(x)
      BY <1>1 DEF Whole, Message, Source
    <2>8. ASSUME NEW h \in 1..N+m, Source(handled'[h]) = j, Whole(handled'[h])
          PROVE  FALSE
      <3>1. h \in 1..N
        BY <2>6, <2>8 DEF Whole
      <3> QED
        BY <2>5, <2>8, <3>1 DEF WasHandled, N
    <2>9. ~WasHandled(j)'
      <3>1. Len(handled)' = N + m
        BY <2>5
      <3>2. \A h : /\ Whole(handled[h])' = Whole(handled'[h])
                   /\ Source(handled[h])' = Source(handled'[h])
        BY <1>1 DEF Whole, Message, Source
      <3> QED
        BY <2>8, <3>1, <3>2 DEF WasHandled
    <2> QED
      BY <1>4, <2>9
  <1> QED
    BY <1>5, <1>6
(* A line that the event has cut off from its begin on was handled. *)
LEMMA CutWhole ==
    ASSUME TextInv, NEW s, NEW r, ReadsFrom(s, start), Moves(s, r), ~Overflows(s),
           UNCHANGED chosen, NEW i \in 1..Len(stream), stream[i].cells # << >>,
           NEW p \in start+1..start+r, Written[p].line = i, Written[p].part = 1
    PROVE  WasHandled(i)'
  <1> DEFINE lines == LinesOf(s)
             N == Len(handled)
             m == Len(lines)
             a == start
             L == Len(s)
             W == Written
             M == Len(W)
             e == EndOf(i)
             x == p - a
  <1>1. /\ CutLines(s) /\ lines \in Seq(Line) /\ m \in Nat /\ N \in Nat
        /\ a \in Nat /\ L \in Nat /\ M \in Nat /\ a + L <= M
        /\ r \in 0..L /\ (r = 0 \/ s[r].kind = "newline")
        /\ stream' = stream /\ stream \in Streams
    BY LinesOfText, WrittenType, LenProperties, Chosen
       DEF Moves, ReadsFrom, TextInv, TypeInv
  <1>2. e \in Nat /\ e >= 2 /\ e = Len(stream[i].cells) + 1
    <2> DEFINE C == Len(stream[i].cells)
    <2>1. C \in Nat /\ C # 0
      BY <1>1, StreamType, LenProperties, EmptySeq
    <2>2. e = C + 1
      BY DEF EndOf
    <2> HIDE DEF C, e
    <2>3. e \in Nat /\ e >= 2
      BY <2>1, <2>2
    <2> QED
      BY <2>2, <2>3 DEF C
  <1>3. Grown(lines)
    BY <1>1, HandledGrows DEF CutLines, TextInv
  <1>4. /\ \A k \in 1..m : handled'[N + k] = lines[k]
        /\ Len(handled') = N + m
    BY <1>3 DEF Grown
  <1>5. PICK from, to : CutAt(s, lines, from, to)
    BY LinesCut DEF ReadsFrom
  <1>6. \A k \in 1..m :
           /\ Ending(lines[k], a, from[k], to[k])
           /\ from[k] \in 1..L
           /\ from[k] > 1 => lines[k][1].part = 1
    BY <1>1, <1>5, CutEnds
  <1>7. x \in 1..r /\ x \in 1..L /\ a + x = p /\ p \in 1..M /\ p \in Nat /\ r \in Nat
    BY <1>1
  <1>8. \A k \in 1..L : a + k \in 1..M /\ SameCell(s[k], W[a + k])
    BY <1>1 DEF ReadsFrom
  <1>9. PICK q \in 1..M : W[q].line = i /\ W[q].part = e /\ W[q].kind = "newline"
    <2>1. e \in 1..e
      BY <1>2
    <2>2. PICK q \in 1..M : W[q].line = i /\ W[q].part = e
      BY <1>1, <2>1, WrittenInOrder DEF InOrder
    <2>3. W[q].kind = "newline"
      BY <1>1, <2>2, WrittenInOrder DEF InOrder
    <2> QED
      BY <2>2, <2>3
  <1> HIDE DEF lines, N, m, a, L, M, W, e, x
  <1>10. p < q
    <2>1. q # p
      BY <1>2, <1>9 DEF W
    <2>2. ~(q < p)
      <3> SUFFICES ASSUME q < p PROVE FALSE
        OBVIOUS
      <3>1. 1 = e + (p - q)
        BY <1>1, <1>7, <1>9, WrittenInOrder DEF InOrder, W, M
      <3> QED
        BY <1>1, <1>2, <1>7, <1>9, <3>1
    <2> QED
      BY <1>1, <1>7, <1>9, <2>1, <2>2
  <1>11. q <= a + r
    <2> SUFFICES ASSUME a + r < q PROVE FALSE
      BY <1>1, <1>7, <1>9
    <2>1. r \in 1..L /\ r # 0
      BY <1>1, <1>7
    <2>2. a + r \in 1..M /\ W[a + r].kind = "newline"
      BY <1>1, <1>8, <2>1 DEF SameCell
    <2>3. W[a + r].line < i
      BY <1>1, <1>9, <2>2, AfterNewline DEF W, M
    <2>4. i <= W[a + r].line
      <3>1. CASE p = a + r
        BY <1>7, <3>1 DEF W
      <3>2. CASE p < a + r
        BY <1>1, <1>7, <2>2, <3>2, WrittenInOrder DEF InOrder, W, M
      <3> QED
        BY <1>1, <1>7, <3>1, <3>2
    <2>5. W[a + r].line \in Nat
      <3>1. W[a + r] \in Cell
        BY <1>1, <2>2, WrittenType, ElementOfSeq DEF W, M
      <3> QED
        BY <3>1, <1>1, StreamType DEF Cell
    <2> QED
      BY <2>3, <2>4, <2>5
  <1> DEFINE y == q - a
  <1>12. y \in 1..L /\ y - 1 \in 1..L /\ y # 1 /\ x <= y - 1 /\ a + y = q /\ a + (y - 1) = q - 1
    BY <1>1, <1>7, <1>9, <1>10, <1>11
  <1> HIDE DEF y
  <1>13. s[y].kind = "newline"
    <2>1. SameCell(s[y], W[q])
      BY <1>8, <1>12
    <2> QED
      BY <1>9, <2>1 DEF SameCell
  <1>14. s[y-1].kind # "newline"
    <2> SUFFICES ASSUME s[y-1].kind = "newline" PROVE FALSE
      OBVIOUS
    <2>1. q - 1 \in 1..M /\ W[q-1].kind = "newline"
      <3>1. a + (y - 1) \in 1..M /\ SameCell(s[y-1], W[a + (y - 1)])
        BY <1>8, <1>12
      <3> QED
        BY <1>12, <3>1 DEF SameCell
    <2>2. W[q-1].line < i
      <3>1. q - 1 < q
        BY <1>1, <1>9
      <3> QED
        BY <1>1, <1>9, <2>1, <3>1, AfterNewline DEF W, M
    <2>3. i <= W[q-1].line
      <3>1. CASE p = q - 1
        BY <1>7, <3>1 DEF W
      <3>2. CASE p < q - 1
        BY <1>1, <1>7, <2>1, <3>2, WrittenInOrder DEF InOrder, W, M
      <3> QED
        BY <1>1, <1>7, <1>9, <1>10, <3>1, <3>2
    <2>4. W[q-1].line \in Nat
      <3>1. W[q-1] \in Cell
        BY <1>1, <2>1, WrittenType, ElementOfSeq DEF W, M
      <3> QED
        BY <3>1, <1>1, StreamType DEF Cell
    <2> QED
      BY <2>2, <2>3, <2>4
  <1>15. PICK k \in 1..m : to[k] = y - 1
    BY <1>5, <1>12, <1>13, <1>14 DEF CutAt, L, m
  <1>16. Source(lines[k]) = i /\ lines[k][1].part + Len(lines[k]) = e
    <2>1. a + to[k] + 1 = q
      BY <1>1, <1>9, <1>12, <1>15 DEF y
    <2> QED
      BY <1>6, <1>9, <2>1 DEF Ending, W, e
  <1>17. lines[k][1].part = 1
    <2>1. CASE from[k] > 1
      BY <1>6, <2>1
    <2>2. CASE from[k] = 1 /\ x = 1
      BY <1>6, <1>7, <2>2 DEF Ending, W
    <2>3. CASE from[k] = 1 /\ x # 1
      <3>1. x - 1 \in 1..L /\ x - 1 \in from[k]..to[k] /\ a + (x - 1) = p - 1 /\ p # 1
        BY <1>1, <1>7, <1>12, <1>15, <2>3
      <3>2. W[p-1].kind = "newline"
        BY <1>1, <1>7, <3>1, LineBegins DEF W, M
      <3>3. s[x-1].kind = "newline"
        <4>1. SameCell(s[x-1], W[p-1])
          BY <1>8, <3>1
        <4> QED
          BY <3>2, <4>1 DEF SameCell
      <3>4. s[x-1].kind # "newline"
        BY <1>5, <3>1 DEF CutAt, Between, m
      <3> QED
        BY <3>3, <3>4
    <2> QED
      BY <1>1, <1>6, <2>1, <2>2, <2>3
  <1>18. Whole(lines[k])'
    <2> DEFINE K == Len(lines[k])
               C == Len(stream[i].cells)
    <2>1. K \in Nat /\ C \in Nat
      <3>1. lines[k] \in Line
        BY <1>1, ElementOfSeq DEF m
      <3> QED
        BY <1>1, <3>1, StreamType, LenProperties DEF Line
    <2>2. 1 + K = C + 1
      BY <1>2, <1>16, <1>17
    <2> HIDE DEF K, C
    <2>3. K = C
      BY <2>1, <2>2
    <2> QED
      BY <1>1, <1>16, <1>17, <2>3 DEF Whole, Message, K, C
  <1>19. PICK h \in 1..N+m : handled'[h] = lines[k]
    <2>1. N + k \in 1..N+m /\ handled'[N + k] = lines[k]
      BY <1>1, <1>4
    <2> QED
      BY <2>1
  <1>20. PICK line : line = lines[k]
    OBVIOUS
  <1>21. Whole(line)'
    BY <1>18, <1>20 DEF Whole, Message, Source
  <1>22. Source(handled[h])' = i /\ Whole(handled[h])'
    BY <1>16, <1>19, <1>20, <1>21 DEF Source, Whole, Message
  <1>23. h \in 1..Len(handled)'
    BY <1>4, <1>19
  <1> QED
    BY <1>22, <1>23 DEF WasHandled

(* Where the limit is reached, the buffer holds a piece of a long line. *)
LEMMA BufferIsLong ==
    ASSUME TextInv, NEW s, NEW n \in 1..MaxChunk, ReadsFrom(s, start), Overflows(s),
           Len(s) = Len(buffer) + n
    PROVE  /\ start + 1 \in 1..Len(Written) /\ Len(buffer) >= 1
           /\ LongLine(Written[start + 1].line)
  <1> DEFINE a == start
             B == Len(buffer)
             L == Len(s)
             W == Written
             M == Len(W)
             K == Length(s)
  <1>1. /\ B \in Nat /\ L \in Nat /\ M \in Nat /\ a \in Nat /\ n \in Nat
        /\ L = B + n /\ a + L <= M /\ n <= MaxChunk
        /\ MaxBuffer \in Nat /\ MaxChunk \in Nat /\ MaxChunk <= MaxBuffer
        /\ K \in Nat /\ K > MaxBuffer /\ stream \in Streams
    <2>1. K \in Nat /\ K > MaxBuffer
      <3>1. 0 \in 0..Len(s)
        BY LenProperties DEF ReadsFrom
      <3> QED
        BY <3>1, LengthOfEnd DEF ReadsFrom, Overflows
    <2> QED
      BY <2>1, WrittenType, LenProperties, StdioServerAssumption DEF ReadsFrom, TextInv, TypeInv
  <1>2. K <= L
    <2>1. 0 \in 0..Len(s)
      BY <1>1
    <2> QED
      BY <2>1, LengthOfEnd DEF ReadsFrom
  <1> HIDE DEF a, B, L, W, M, K
  <1>3. B > MaxBuffer - MaxChunk /\ B >= 1
    BY <1>1, <1>2
  <1>4. a + 1 \in 1..M /\ a + B \in 1..M /\ a + 1 <= a + B
    BY <1>1, <1>3
  <1>5. \A p \in a+1..a+B : W[p].kind # "newline"
    <2> SUFFICES ASSUME NEW p \in a+1..a+B
                 PROVE  W[p].kind # "newline"
      OBVIOUS
    <2>1. p - a \in 1..B /\ a + (p - a) = p
      BY <1>1
    <2>2. buffer[p-a].kind # "newline" /\ SameCell(buffer[p-a], W[p])
      BY <2>1 DEF TextInv, BufferInv, ReadsFrom, a, B, W
    <2> QED
      BY <2>2 DEF SameCell
  <1> DEFINE j == W[a+1].line
             C == Len(stream[j].cells)
             u == W[a+1].part
             v == W[a+B].part
  <1>6. j = W[a+B].line /\ v = u + ((a + B) - (a + 1))
    <2>1. \A p \in a+1..(a+B)-1 : W[p].kind # "newline"
      BY <1>1, <1>5
    <2> QED
      BY <1>1, <1>4, <2>1, SameLine DEF W, M
  <1>7. /\ C \in Nat /\ u \in 1..C+1 /\ v \in 1..C+1 /\ v # C + 1
    <2>1. j \in 1..Len(stream)
      BY <1>1, <1>4, WrittenInOrder DEF InOrder, W, M
    <2>2. C \in Nat
      BY <1>1, <2>1, StreamType, LenProperties
    <2>3. u \in 1..C+1 /\ v \in 1..C+1
      BY <1>1, <1>4, <1>6, WrittenInOrder DEF InOrder, W, M, EndOf
    <2>4. W[a+B].kind # "newline"
      BY <1>1, <1>4, <1>5
    <2>5. v # C + 1
      BY <1>1, <1>4, <1>6, <2>4, WrittenInOrder DEF InOrder, W, M, EndOf
    <2> QED
      BY <2>2, <2>3, <2>5
  <1> HIDE DEF j, C, u, v
  <1>8. C > MaxBuffer - MaxChunk
    BY <1>1, <1>3, <1>6, <1>7
  <1> QED
    BY <1>3, <1>4, <1>8 DEF LongLine, j, C, a, B, W, M

(* A place in the stream is not before the begin of its line. *)
LEMMA BeginBefore ==
    ASSUME stream \in Streams, NEW p \in 1..Len(Written)
    PROVE  \E q \in 1..p : Written[q].line = Written[p].line /\ Written[q].part = 1
  <1> DEFINE i == Written[p].line
             M == Len(Written)
  <1>1. M \in Nat /\ i \in 1..Len(stream) /\ Written[p].part \in 1..EndOf(i)
    BY WrittenInOrder, WrittenType DEF InOrder
  <1>2. EndOf(i) \in Nat /\ EndOf(i) >= 1
    <2>1. Len(stream[i].cells) \in Nat
      BY <1>1, StreamType, LenProperties
    <2> QED
      BY <2>1 DEF EndOf
  <1>3. PICK q \in 1..M : Written[q].line = i /\ Written[q].part = 1
    <2>1. 1 \in 1..EndOf(i)
      BY <1>2
    <2> QED
      BY <1>1, <2>1, WrittenInOrder DEF InOrder
  <1>4. ~(p < q)
    <2> SUFFICES ASSUME p < q PROVE FALSE
      OBVIOUS
    <2>1. 1 = Written[p].part + (q - p)
      BY <1>3, WrittenInOrder DEF InOrder
    <2> QED
      BY <1>1, <1>2, <1>3, <2>1
  <1>5. q \in 1..p
    BY <1>1, <1>3, <1>4
  <1> QED
    BY <1>3, <1>5

(* A line goes with its begin, when it is handled, or when the buffer is   *)
(* dropped that holds a piece of a long line.                              *)
LEMMA DropData ==
    ASSUME TextInv, DropInv, NEW n \in 1..MaxChunk, Data(n), UNCHANGED chosen
    PROVE  DropInv'
  <1>1. PICK s, r : ReadsFrom(s, start) /\ Moves(s, r) /\ Len(s) = Len(buffer) + n
    BY DataMoves DEF TextInv
  <1>2. /\ start \in Nat /\ r \in 0..Len(s) /\ Len(s) \in Nat /\ start' = start + r
        /\ Written' = Written /\ stream' = stream /\ stream \in Streams
        /\ start + Len(s) <= Len(Written) /\ Len(Written) \in Nat /\ Len(stream) \in Nat
    BY <1>1, Chosen, WrittenType, StreamType, LenProperties DEF ReadsFrom, Moves, TextInv, TypeInv
  <1>3. SUFFICES ASSUME NEW i \in 1..Len(stream), Gone(i)', stream[i].cells # << >>,
                        ~WasHandled(i)'
                 PROVE  \E j \in 1..i : Gone(j)' /\ ~WasHandled(j)' /\ LongLine(j)'
    BY <1>2 DEF DropInv
  <1>4. \A j : LongLine(j)' = LongLine(j)
    BY <1>2 DEF LongLine
  <1>5. CASE Gone(i) /\ ~WasHandled(i)
    <2>1. PICK j \in 1..i : Gone(j) /\ ~WasHandled(j) /\ LongLine(j)
      BY <1>3, <1>5 DEF DropInv
    <2>2. j \in 1..Len(stream)
      BY <1>2
    <2>3. Gone(j)' /\ ~WasHandled(j)'
      BY <1>1, <2>1, <2>2, GoneStays
    <2> QED
      BY <1>4, <2>1, <2>3
  <1>6. ~WasHandled(i)
    <2>1. CASE Overflows(s)
      <3>1. handled' = handled
        BY <1>1, <2>1 DEF Moves, DropBuffer
      <3> QED
        BY <1>2, <1>3, <3>1 DEF WasHandled, Whole, Message, Source
    <2>2. CASE ~Overflows(s)
      <3> SUFFICES ASSUME WasHandled(i) PROVE FALSE
        OBVIOUS
      <3>1. LinesOf(s) \in Seq(Line) /\ HandleLines(LinesOf(s))
        BY <1>1, <2>2, LinesOfText DEF Moves, CutLines, ReadsFrom
      <3>2. Grown(LinesOf(s))
        BY <3>1, HandledGrows DEF TextInv
      <3>3. PICK h \in 1..Len(handled) : Source(handled[h]) = i /\ Whole(handled[h])
        BY DEF WasHandled
      <3>4. handled'[h] = handled[h] /\ h \in 1..Len(handled)'
        <4>1. Len(handled) \in Nat /\ Len(LinesOf(s)) \in Nat
          BY <3>1, LenProperties DEF TextInv, TypeInv
        <4>2. handled'[h] = handled[h] /\ Len(handled)' = Len(handled) + Len(LinesOf(s))
          BY <3>2 DEF Grown
        <4> QED
          BY <4>1, <4>2
      <3>5. Source(handled[h])' = i /\ Whole(handled[h])'
        BY <1>2, <3>3, <3>4 DEF Source, Whole, Message
      <3> QED
        BY <1>3, <3>4, <3>5 DEF WasHandled
    <2> QED
      BY <2>1, <2>2
  <1>7. CASE ~Gone(i)
    <2>1. PICK p \in 1..start' : Written[p].line = i /\ Written[p].part = 1
      BY <1>2, <1>3 DEF Gone
    <2>2. p \in start+1..start+r /\ p \in 1..Len(Written)
      <3>1. p \notin 1..start
        BY <1>7, <2>1 DEF Gone
      <3> QED
        BY <1>2, <3>1
    <2>3. CASE ~Overflows(s)
      BY <1>1, <1>3, <2>1, <2>2, <2>3, CutWhole
    <2>4. CASE Overflows(s)
      <3>0. PICK j : j = Written[start + 1].line
        OBVIOUS
      <3>1. /\ start + 1 \in 1..Len(Written) /\ Len(buffer) >= 1 /\ LongLine(j)
        BY <1>1, <2>4, <3>0, BufferIsLong
      <3>2. handled' = handled /\ r = Len(s)
        BY <1>1, <2>4 DEF Moves, DropBuffer
      <3>3. j \in 1..Len(stream) /\ j <= i
        <4>1. j \in 1..Len(stream)
          BY <1>2, <3>0, <3>1, WrittenInOrder DEF InOrder
        <4>2. CASE p = start + 1
          BY <1>2, <2>1, <3>0, <4>1, <4>2
        <4>3. CASE start + 1 < p
          BY <1>2, <2>1, <2>2, <3>0, <3>1, <4>1, <4>3, WrittenInOrder DEF InOrder
        <4> QED
          BY <1>2, <2>2, <4>1, <4>2, <4>3
      <3>4. Gone(j)'
        <4>1. PICK q \in 1..start+1 : Written[q].line = j /\ Written[q].part = 1
          BY <1>2, <3>0, <3>1, BeginBefore
        <4>2. q \in 1..start'
          BY <1>2, <2>2
        <4> QED
          BY <1>2, <4>1, <4>2 DEF Gone
      <3>5. ~WasHandled(j)'
        <4>1. \A h \in 1..Len(handled) : Source(handled[h]) < j
          BY <1>2, <3>0, <3>1 DEF TextInv, HandledInv
        <4>2. j \in Int
          BY <1>2, <3>3
        <4>3. \A h \in 1..Len(handled) : Source(handled[h]) # j
          <5> SUFFICES ASSUME NEW h \in 1..Len(handled), Source(handled[h]) = j PROVE FALSE
            OBVIOUS
          <5>1. j < j
            BY <4>1
          <5> QED
            BY <4>2, <5>1
        <4> QED
          BY <3>2, <4>3 DEF WasHandled, Source
      <3>6. j \in 1..i
        BY <1>2, <3>3
      <3> QED
        BY <1>4, <3>1, <3>4, <3>5, <3>6
    <2> QED
      BY <2>3, <2>4
  <1> QED
    BY <1>5, <1>6, <1>7

(* Only a "data" event loses lines.                                        *)
LEMMA DropNext ==
    ASSUME TextInv, DropInv, [Next]_vars
    PROVE  DropInv'
  <1>1. CASE UNCHANGED << chosen, sent, buffer, handled >>
    <2>1. /\ UNCHANGED << sent, buffer, handled >> /\ start' = start
          /\ Written' = Written /\ stream' = stream
      BY <1>1, Chosen DEF start
    <2> QED
      BY <2>1 DEF DropInv, Gone, WasHandled, LongLine, Whole, Message, Source
  <1>2. ASSUME NEW h \in DOMAIN handled, Settles(h), UNCHANGED chosen
        PROVE  DropInv'
    <2>1. UNCHANGED << sent, buffer, handled >>
      BY <1>2 DEF Settles, CallAllowed, CallAnswered, CallRejects, UpstreamSettles
    <2> QED
      BY <1>1, <1>2, <2>1
  <1>3. CASE UNCHANGED vars
    BY <1>1, <1>3 DEF vars, moving
  <1> QED
    BY <1>2, <1>3, DropData DEF Next

(* A line that arrived and was not handled is gone.                        *)
LEMMA DropImplies == TextInv /\ DropInv => OnlyLongLinesDrop
  <1> SUFFICES ASSUME TextInv, DropInv, NEW i \in DOMAIN stream, Lost(i)
               PROVE  \E j \in 1..i : Lost(j) /\ Len(stream[j].cells) > MaxBuffer - MaxChunk
    BY DEF OnlyLongLinesDrop
  <1> DEFINE M == Len(Written)
             B == Len(buffer)
  <1>1. /\ i \in 1..Len(stream) /\ Len(stream) \in Nat /\ stream \in Streams
        /\ M \in Nat /\ B \in Nat /\ start \in Nat /\ sent \in Nat /\ sent <= M
        /\ start + B = sent /\ DOMAIN handled = 1..Len(handled)
    <2>1. M \in Nat /\ B \in Nat /\ start \in Nat /\ sent \in 0..M
      BY WrittenType, LenProperties DEF TextInv, TypeInv, BufferInv, ReadsFrom
    <2>2. start = sent - B
      BY DEF start
    <2> HIDE DEF M, B
    <2>3. start + B = sent /\ sent \in Nat /\ sent <= M
      BY <2>1, <2>2
    <2> QED
      BY <2>1, <2>3, StreamType, LenProperties DEF TextInv, TypeInv
  <1>2. PICK p \in 1..sent : Written[p].line = i /\ Written[p].kind = "newline"
    BY DEF Lost, Arrived
  <1>3. p \in 1..M
    BY <1>1
  <1>4. p \in 1..start
    <2> SUFFICES ASSUME p > start PROVE FALSE
      BY <1>1
    <2>1. p - start \in 1..B /\ start + (p - start) = p
      BY <1>1
    <2>2. buffer[p - start].kind # "newline" /\ SameCell(buffer[p - start], Written[p])
      BY <2>1 DEF TextInv, BufferInv, ReadsFrom
    <2> QED
      BY <1>2, <2>2 DEF SameCell
  <1>5. Gone(i)
    <2>1. PICK q \in 1..p : Written[q].line = i /\ Written[q].part = 1
      BY <1>1, <1>2, <1>3, BeginBefore
    <2>2. q \in 1..start
      BY <1>1, <1>4
    <2> QED
      BY <2>1, <2>2 DEF Gone
  <1>6. PICK j \in 1..i : Gone(j) /\ ~WasHandled(j) /\ LongLine(j)
    BY <1>1, <1>5 DEF DropInv, Lost, WasHandled
  <1>7. stream[j].cells # << >>
    <2> SUFFICES ASSUME stream[j].cells = << >> PROVE FALSE
      OBVIOUS
    <2>1. Len(stream[j].cells) = 0
      BY EmptySeq
    <2> DEFINE C == Len(stream[j].cells)
    <2>2. C = 0 /\ C > MaxBuffer - MaxChunk
      BY <1>6, <2>1 DEF LongLine
    <2> HIDE DEF C
    <2> QED
      BY <2>2, StdioServerAssumption
  <1>8. Arrived(j)
    <2>1. j \in 1..Len(stream)
      BY <1>1
    <2>2. EndOf(j) \in Nat /\ EndOf(j) >= 1
      <3>1. Len(stream[j].cells) \in Nat
        BY <1>1, <2>1, StreamType, LenProperties
      <3> QED
        BY <3>1 DEF EndOf
    <2>3. PICK q \in 1..M : Written[q].line = j /\ Written[q].part = EndOf(j)
      <3>1. EndOf(j) \in 1..EndOf(j)
        BY <2>2
      <3> QED
        BY <1>1, <2>1, <3>1, WrittenInOrder DEF InOrder
    <2>4. Written[q].kind = "newline"
      BY <1>1, <2>3, WrittenInOrder DEF InOrder
    <2>5. ~(p < q)
      <3> SUFFICES ASSUME p < q PROVE FALSE
        OBVIOUS
      <3>1. i < j
        BY <1>1, <1>2, <1>3, <2>3, AfterNewline
      <3> QED
        BY <1>1, <3>1
    <2>6. q \in 1..sent
      BY <1>1, <2>3, <2>5
    <2> QED
      BY <2>3, <2>4, <2>6 DEF Arrived
  <1> QED
    BY <1>1, <1>6, <1>7, <1>8 DEF Lost, WasHandled, LongLine

(* A line is lost only with, or after, a line that is longer than          *)
(* MAX_BUFFER_SIZE leaves room for beside a chunk.                         *)
THEOREM LongLinesDrop == Spec => []OnlyLongLinesDrop
  <1>1. Init => TextInv /\ DropInv
    BY TypeInit, TextInit, DropInit DEF TextInv
  <1>2. TextInv /\ DropInv /\ [Next]_vars => (TextInv /\ DropInv)'
    BY TypeNext, TextNext, DropNext DEF TextInv
  <1> QED
    BY <1>1, <1>2, DropImplies, PTL DEF Spec
=============================================================================
