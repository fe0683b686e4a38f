----------------------------- MODULE CarryProofs -----------------------------
(***************************************************************************)
(* Lemmas about the carry kernel: what a step or a collection leaves in    *)
(* the cursor for each of its verdicts, for every window and endpoint.     *)
(* ScanProofs and RootProofs rest on them.                                 *)
(***************************************************************************)
EXTENDS Carry, SequenceTheorems, TLAPS

Cursors == [off : Nat, chunk : Seq(Byte), carry : [acc : Seq(0..127), buf : Seq(Byte)]]

LEMMA FunctionIsSeq ==
  ASSUME NEW S, NEW n \in Nat, NEW f \in [1..n -> S] PROVE f \in Seq(S) /\ Len(f) = n
  OBVIOUS

LEMMA DigitRange == \A x \in Byte : x % 128 \in 0..127
  BY DEF Byte

LEMMA DigitsType ==
  ASSUME NEW b \in Seq(Byte) PROVE Digits(b) \in Seq(0..127) /\ Len(Digits(b)) = Len(b)
<1>1. Len(b) \in Nat /\ \A i \in 1..Len(b) : b[i] \in Byte
  BY LenProperties, ElementOfSeq
<1>2. \A i \in 1..Len(b) : b[i] % 128 \in 0..127
  BY <1>1, DigitRange
<1>3. Digits(b) \in [1..Len(b) -> 0..127]
  BY <1>2 DEF Digits
<1> QED BY ZenonT(60), <1>1, <1>3, FunctionIsSeq

LEMMA SkipFacts ==
  ASSUME NEW b \in Seq(Byte), NEW n \in 0..Len(b)
  PROVE  /\ Skip(b, n) \in Seq(Byte) /\ Len(Skip(b, n)) = Len(b) - n
         /\ SubSeq(b, 1, n) \in Seq(Byte) /\ Len(SubSeq(b, 1, n)) = n
  BY DEF Skip

LEMMA RoomBounds ==
  ASSUME NEW c \in Cursors, NEW w \in Windows, NEW z \in Nat, c.off <= z,
         NEW n \in Taken(c, w, z)
  PROVE  /\ n \in Nat /\ n <= Len(c.chunk) /\ c.off + n <= z
         /\ Width(c) <= w.cap => Width(c) + n <= w.cap
<1>1. /\ c.off \in Nat /\ c.chunk \in Seq(Byte) /\ Len(c.chunk) \in Nat
      /\ c.carry.buf \in Seq(Byte) /\ Width(c) \in Nat /\ w.cap \in Nat
  BY SMTT(60) DEF Cursors, Windows, Width
<1>2. n \in 0..Least(w.cap - Width(c), Least(z - c.off, Len(c.chunk)))
  BY DEF Taken, Room
<1> QED BY <1>1, <1>2, SMTT(30) DEF Least

LEMMA TakeFacts ==
  ASSUME NEW c \in Cursors, NEW w \in Windows, NEW z \in Nat, c.off <= z,
         NEW n \in Taken(c, w, z)
  PROVE  LET d == Take(c, w, z, n) IN
         /\ d \in Cursors
         /\ d.off = c.off + n
         /\ Len(d.chunk) = Len(c.chunk) - n
         /\ Width(d) = Width(c) + n
<1>1. n \in 0..Len(c.chunk) /\ c.off + n \in Nat
  BY RoomBounds DEF Cursors
<1>2. c.chunk \in Seq(Byte) /\ c.carry.buf \in Seq(Byte) /\ c.carry.acc \in Seq(0..127)
  BY DEF Cursors
<1>3. SubSeq(c.chunk, 1, n) \in Seq(Byte) /\ Len(SubSeq(c.chunk, 1, n)) = n
      /\ Skip(c.chunk, n) \in Seq(Byte) /\ Len(Skip(c.chunk, n)) = Len(c.chunk) - n
  BY <1>1, <1>2, SkipFacts
<1>4. Digits(SubSeq(c.chunk, 1, n)) \in Seq(0..127)
  BY <1>3, DigitsType
<1>5. c.carry.buf \o SubSeq(c.chunk, 1, n) \in Seq(Byte)
      /\ Len(c.carry.buf \o SubSeq(c.chunk, 1, n)) = Len(c.carry.buf) + n
  BY SMTT(60), <1>2, <1>3
<1>6. c.carry.acc \o Digits(SubSeq(c.chunk, 1, n)) \in Seq(0..127)
  BY <1>2, <1>4
<1>7. (IF Hot(c, w, z) THEN c.carry.acc
       ELSE c.carry.acc \o Digits(SubSeq(c.chunk, 1, n))) \in Seq(0..127)
  BY <1>2, <1>6
<1> QED BY <1>1, <1>3, <1>5, <1>7 DEF Take, Cursors, Width

LEMMA ConcatFacts ==
  ASSUME NEW S, NEW p \in Seq(S), NEW q \in Seq(S)
  PROVE  /\ p \o q \in Seq(S) /\ Len(p \o q) = Len(p) + Len(q)
         /\ \A i \in 1..Len(p) : (p \o q)[i] = p[i]
         /\ \A i \in 1..(Len(p) + Len(q)) : i > Len(p) => (p \o q)[i] = q[i - Len(p)]
  OBVIOUS

LEMMA DigitsConcat ==
  ASSUME NEW a \in Seq(Byte), NEW b \in Seq(Byte)
  PROVE  Digits(a \o b) = Digits(a) \o Digits(b)
<1>1. /\ Digits(a) \in Seq(0..127) /\ Len(Digits(a)) = Len(a)
      /\ Digits(b) \in Seq(0..127) /\ Len(Digits(b)) = Len(b)
  BY DigitsType
<1>2. a \o b \in Seq(Byte) /\ Len(a \o b) = Len(a) + Len(b)
  OBVIOUS
<1>3. Digits(a \o b) \in Seq(0..127) /\ Len(Digits(a \o b)) = Len(a) + Len(b)
  BY <1>2, DigitsType
<1>4. Digits(a) \o Digits(b) \in Seq(0..127)
      /\ Len(Digits(a) \o Digits(b)) = Len(a) + Len(b)
  <2> DEFINE p == Digits(a)
             q == Digits(b)
  <2>1. p \in Seq(0..127) /\ q \in Seq(0..127) /\ Len(p) = Len(a) /\ Len(q) = Len(b)
    BY <1>1
  <2> HIDE DEF p, q
  <2>2. p \o q \in Seq(0..127) /\ Len(p \o q) = Len(p) + Len(q)
    BY ZenonT(60), <2>1, ConcatFacts
  <2> QED BY <2>1, <2>2 DEF p, q
<1>5. ASSUME NEW i \in 1..(Len(a) + Len(b))
      PROVE  Digits(a \o b)[i] = (Digits(a) \o Digits(b))[i]
  <2>1. Digits(a \o b)[i] = (a \o b)[i] % 128
    BY <1>2, <1>5 DEF Digits
  <2>2. CASE i <= Len(a)
    <3>1. (a \o b)[i] = a[i] /\ (Digits(a) \o Digits(b))[i] = Digits(a)[i]
      BY <1>1, <1>5, <2>2, ConcatFacts
    <3>2. Digits(a)[i] = a[i] % 128
      BY <2>2 DEF Digits
    <3> QED BY <2>1, <3>1, <3>2
  <2>3. CASE i > Len(a)
    <3>1. i - Len(a) \in 1..Len(b)
      BY <2>3
    <3>2. (a \o b)[i] = b[i - Len(a)] /\ (Digits(a) \o Digits(b))[i] = Digits(b)[i - Len(a)]
      BY <1>1, <1>5, <2>3, ConcatFacts
    <3>3. Digits(b)[i - Len(a)] = b[i - Len(a)] % 128
      BY <3>1 DEF Digits
    <3> QED BY <2>1, <3>2, <3>3
  <2>4. i <= Len(a) \/ i > Len(a)
    <3>1. i \in Nat /\ Len(a) \in Nat
      BY <1>5, LenProperties
    <3> QED BY <3>1
  <2> QED BY <2>2, <2>3, <2>4
<1> QED BY ZenonT(60), <1>3, <1>4, <1>5, SeqEqual

LEMMA StepFacts ==
  ASSUME NEW c \in Cursors, NEW w \in Windows, NEW z \in Nat, NEW std,
         c.off <= z, Width(c) < w.cap, NEW s \in Step(c, w, z, std)
  PROVE  /\ s.cursor \in Cursors
         /\ c.off <= s.cursor.off /\ s.cursor.off <= z
         /\ s.cursor.off + Len(s.cursor.chunk) = c.off + Len(c.chunk)
         /\ s.value \in Seq(0..127)
         /\ s.verdict = "Done" => s.cursor.carry = EmptyCarry /\ s.cursor.off > c.off
         /\ s.verdict = "More" =>
              /\ s.cursor.off < z /\ Width(s.cursor) < w.cap /\ s.cursor.chunk = << >>
              /\ c.carry.acc = Digits(c.carry.buf)
                   => s.cursor.carry.acc = Digits(s.cursor.carry.buf)
         /\ s.verdict = "Cut" => s.cursor.off = z
         /\ c.chunk # << >> /\ c.off < z => s.cursor.off > c.off
<1>0. PICK n \in Taken(c, w, z) :
      LET d       == Take(c, w, z, n)
          verdict == StepVerdict(c, d, w, z, n)
          value   == StepValue(c, d, w, z)
          padded  == std = "CanonicalMinimal" /\ Width(d) # EncodedLen(value)
      IN  s = IF verdict # "Done" THEN [verdict |-> verdict, value |-> << >>, cursor |-> d]
              ELSE IF padded THEN [verdict |-> "NonMinimal", value |-> << >>, cursor |-> d]
              ELSE [verdict |-> "Done", value |-> value, cursor |-> Clear(d)]
  BY DEF Step
<1> DEFINE d == Take(c, w, z, n)
           v == StepVerdict(c, d, w, z, n)
<1>1. /\ n \in Nat /\ n <= Len(c.chunk) /\ c.off + n <= z
      /\ Width(c) + n <= w.cap /\ w.cap \in Nat /\ Width(c) \in Nat
      /\ c.off \in Nat /\ Len(c.chunk) \in Nat
  <2>1. /\ c.off \in Nat /\ c.chunk \in Seq(Byte) /\ c.carry.buf \in Seq(Byte)
        /\ w.cap \in Nat
    BY SMTT(60) DEF Cursors, Windows
  <2>2. Width(c) \in Nat /\ Len(c.chunk) \in Nat
    BY <2>1 DEF Width
  <2>3. Width(c) <= w.cap
    BY <2>1, <2>2
  <2> QED BY <2>1, <2>2, <2>3, RoomBounds
<1>2. /\ d \in Cursors /\ d.off = c.off + n
      /\ Len(d.chunk) = Len(c.chunk) - n /\ Width(d) = Width(c) + n
  BY TakeFacts
<1>3. StepValue(c, d, w, z) \in Seq(0..127)
  <2>1. d.carry.buf \in Seq(Byte) /\ d.carry.acc \in Seq(0..127)
    BY <1>2 DEF Cursors
  <2> QED BY <2>1, DigitsType DEF StepValue
<1>4. c.chunk # << >> /\ c.off < z => n > 0
  <2>1. SUFFICES ASSUME c.chunk # << >>, c.off < z, n = 0 PROVE FALSE
    BY <1>1
  <2>2. Room(c, w, z) = 0
    BY <2>1 DEF Taken
  <2>3. Len(c.chunk) > 0
    BY <2>1, EmptySeq DEF Cursors
  <2> QED BY <1>1, <2>1, <2>2, <2>3 DEF Room, Least
<1>5. v \in {"Done", "OutOfClass", "TooWide", "Cut", "More"} /\ (v = "Done" => n > 0)
      /\ (v = "Cut" => d.off = z)
  BY DEF StepVerdict
<1>6. ASSUME v = "More"
      PROVE  /\ d.off < z /\ Width(d) < w.cap /\ d.chunk = << >>
             /\ c.carry.acc = Digits(c.carry.buf) => d.carry.acc = Digits(d.carry.buf)
  <2>1. ~(n > 0 /\ c.chunk[n] < 128)
    BY <1>6 DEF StepVerdict
  <2>2. n = Room(c, w, z)
    BY <2>1 DEF Taken
  <2>3. d.off < z /\ Width(d) < w.cap
    <3>1. Width(d) # w.cap /\ d.off # z
      BY <1>6 DEF StepVerdict
    <3> HIDE DEF d, v
    <3> QED BY SMTT(60), <1>1, <1>2, <3>1
  <2>4. n = Len(c.chunk)
    BY <1>1, <1>2, <2>2, <2>3, SMTT(30) DEF Room, Least
  <2>5. d.chunk = << >>
    <3>1. d.chunk \in Seq(Byte) /\ Len(d.chunk) = 0
      BY <1>1, <1>2, <2>4 DEF Cursors
    <3> QED BY <3>1, EmptySeq
  <2>6. ~Hot(c, w, z)
    BY <1>1, <1>2, <2>3, <2>4 DEF Hot, Least
  <2>7. ASSUME c.carry.acc = Digits(c.carry.buf) PROVE d.carry.acc = Digits(d.carry.buf)
    <3> DEFINE b == SubSeq(c.chunk, 1, n)
    <3>1. c.carry.buf \in Seq(Byte) /\ b \in Seq(Byte)
      BY <1>1, SkipFacts, SMTT(30) DEF Cursors
    <3>2. d.carry.acc = c.carry.acc \o Digits(b) /\ d.carry.buf = c.carry.buf \o b
      BY <2>6 DEF Take
    <3> QED BY <2>7, <3>1, <3>2, DigitsConcat
  <2> QED BY <2>3, <2>5, <2>7
<1>7. Clear(d) \in Cursors /\ Clear(d).off = d.off /\ Clear(d).chunk = d.chunk
      /\ Clear(d).carry = EmptyCarry
  BY <1>2, EmptySeq DEF Clear, Cursors, EmptyCarry
<1>8. << >> \in Seq(0..127)
  BY EmptySeq
<1> HIDE DEF d, v
<1>9. \/ v # "Done" /\ s = [verdict |-> v, value |-> << >>, cursor |-> d]
      \/ s = [verdict |-> "NonMinimal", value |-> << >>, cursor |-> d]
      \/ v = "Done" /\ s = [verdict |-> "Done", value |-> StepValue(c, d, w, z), cursor |-> Clear(d)]
  BY <1>0 DEF d, v
<1>10. CASE v # "Done" /\ s = [verdict |-> v, value |-> << >>, cursor |-> d]
  <2>1. s.verdict = v /\ s.value = << >> /\ s.cursor = d /\ v # "Done"
    BY <1>10
  <2> QED BY SMTT(60), <1>1, <1>2, <1>4, <1>5, <1>6, <1>8, <2>1
<1>11. CASE s = [verdict |-> "NonMinimal", value |-> << >>, cursor |-> d]
  <2>1. s.verdict = "NonMinimal" /\ s.value = << >> /\ s.cursor = d
    BY <1>11
  <2>2. /\ d.off \in Nat /\ c.off <= d.off /\ d.off <= z
        /\ d.off + Len(d.chunk) = c.off + Len(c.chunk)
        /\ c.chunk # << >> /\ c.off < z => d.off > c.off
    BY SMTT(60), <1>1, <1>2, <1>4
  <2>3. s.verdict # "Done" /\ s.verdict # "More" /\ s.verdict # "Cut"
    BY <2>1
  <2> QED BY <1>2, <1>8, <2>1, <2>2, <2>3, Zenon
<1>12. CASE v = "Done" /\ s = [verdict |-> "Done", value |-> StepValue(c, d, w, z), cursor |-> Clear(d)]
  <2>1. s.verdict = "Done" /\ s.value = StepValue(c, d, w, z) /\ s.cursor = Clear(d) /\ v = "Done"
    BY <1>12
  <2>2. /\ s.cursor \in Cursors /\ s.cursor.off = d.off /\ s.cursor.chunk = d.chunk
        /\ s.cursor.carry = EmptyCarry
    BY <1>7, <2>1
  <2>3. n > 0
    BY <1>5, <2>1
  <2>4. /\ s.cursor.off > c.off /\ c.off <= s.cursor.off /\ s.cursor.off <= z
        /\ s.cursor.off + Len(s.cursor.chunk) = c.off + Len(c.chunk)
    BY SMTT(60), <1>1, <1>2, <2>2, <2>3
  <2>5. s.value \in Seq(0..127) /\ s.verdict # "More" /\ s.verdict # "Cut"
    BY <1>3, <2>1
  <2> QED BY <1>1, <2>2, <2>4, <2>5
<1> QED BY <1>9, <1>10, <1>11, <1>12

LEMMA CollectFacts ==
  ASSUME NEW c \in Cursors, NEW z \in Nat, NEW need \in {4, 8},
         Width(c) < need, c.off + need - Width(c) <= z
  PROVE  LET d == Collected(c, z, need) IN
         /\ d \in Cursors
         /\ d.off + Len(d.chunk) = c.off + Len(c.chunk)
         /\ d.off <= z
         /\ CollectVerdict(d, z, need) \in {"Done", "More"}
         /\ CollectVerdict(d, z, need) = "More" =>
              /\ d.chunk = << >> /\ Width(d) < need
              /\ d.off + need - Width(d) <= z /\ d.off < z
         /\ CollectVerdict(d, z, need) = "Done" \/ c.chunk # << >> => d.off > c.off
<1> DEFINE n == IF Width(c) = 0 /\ need <= Len(c.chunk) THEN need
                ELSE Least(need - Width(c), Least(z - c.off, Len(c.chunk)))
           d == Collected(c, z, need)
<1>1. /\ c.off \in Nat /\ c.chunk \in Seq(Byte) /\ c.carry.buf \in Seq(Byte)
      /\ c.carry.acc \in Seq(0..127) /\ c.carry = [acc |-> c.carry.acc, buf |-> c.carry.buf]
  BY DEF Cursors
<1>2. Width(c) \in Nat /\ Len(c.chunk) \in Nat /\ Width(c) = Len(c.carry.buf)
  BY <1>1 DEF Width
<1>3. /\ n \in 0..Len(c.chunk) /\ n <= need - Width(c) /\ c.off + n <= z
      /\ n = need - Width(c) \/ n = Len(c.chunk)
  BY <1>1, <1>2, SMTT(30) DEF Least
<1>4. /\ d.off = c.off + n /\ d.chunk = Skip(c.chunk, n)
      /\ d.carry = [acc |-> c.carry.acc, buf |-> c.carry.buf \o SubSeq(c.chunk, 1, n)]
      /\ d = [off |-> d.off, chunk |-> d.chunk, carry |-> d.carry]
  BY <1>1 DEF Collected
<1>a. d.off = c.off + n
  BY <1>4
<1>b. n \in Nat /\ n <= Len(c.chunk) /\ n <= need - Width(c) /\ c.off + n <= z
      /\ (n = need - Width(c) \/ n = Len(c.chunk)) /\ need \in Nat
  BY <1>2, <1>3
<1>c. c.off \in Nat /\ Width(c) \in Nat /\ Len(c.chunk) \in Nat
  BY <1>1, <1>2
<1> HIDE DEF n, d
<1>5. /\ Skip(c.chunk, n) \in Seq(Byte) /\ Len(Skip(c.chunk, n)) = Len(c.chunk) - n
      /\ SubSeq(c.chunk, 1, n) \in Seq(Byte) /\ Len(SubSeq(c.chunk, 1, n)) = n
  BY <1>1, <1>3, SkipFacts
<1>6. c.carry.buf \o SubSeq(c.chunk, 1, n) \in Seq(Byte)
      /\ Len(c.carry.buf \o SubSeq(c.chunk, 1, n)) = Width(c) + n
  BY <1>1, <1>2, <1>5, ConcatFacts, SMTT(30)
<1>d. d.off \in Nat
  BY <1>a, <1>b, <1>c
<1>e. d.chunk \in Seq(Byte)
  BY <1>4, <1>5
<1>7. d.carry \in [acc : Seq(0..127), buf : Seq(Byte)]
  BY <1>1, <1>4, <1>6
<1>8. d \in Cursors
  BY <1>4, <1>d, <1>e, <1>7 DEF Cursors
<1>9. Width(d) = Width(c) + n /\ Len(d.chunk) = Len(c.chunk) - n
  BY <1>4, <1>5, <1>6 DEF Width
<1>10. d.off + Len(d.chunk) = c.off + Len(c.chunk) /\ d.off <= z
  BY SMTT(60), <1>a, <1>b, <1>c, <1>9
<1>11. ASSUME Width(d) # need
       PROVE  /\ d.off + need - Width(d) <= z /\ d.off < z /\ Width(d) < need
              /\ n = Len(c.chunk) /\ Len(d.chunk) = 0
  BY <1>a, <1>b, <1>c, <1>9, <1>11, SMTT(30)
<1>12. c.chunk # << >> => Len(c.chunk) > 0
  BY <1>1, EmptySeq
<1>13. (Width(d) = need \/ c.chunk # << >>) => d.off > c.off
  BY SMTT(60), <1>a, <1>b, <1>c, <1>9, <1>12
<1>14. Len(d.chunk) = 0 => d.chunk = << >>
  BY <1>7, EmptySeq
<1>15. /\ CollectVerdict(d, z, need) \in {"Done", "More"}
       /\ CollectVerdict(d, z, need) = "More" <=> Width(d) # need
       /\ CollectVerdict(d, z, need) = "Done" <=> Width(d) = need
  BY <1>7, <1>11 DEF CollectVerdict
<1>16. CollectVerdict(d, z, need) = "More" =>
         /\ d.chunk = << >> /\ Width(d) < need
         /\ d.off + need - Width(d) <= z /\ d.off < z
  BY <1>11, <1>14, <1>15
<1>17. CollectVerdict(d, z, need) = "Done" \/ c.chunk # << >> => d.off > c.off
  BY <1>13, <1>15
<1> QED BY <1>8, <1>10, <1>15, <1>16, <1>17 DEF d

LEMMA EmptyFacts ==
  /\ EmptyCarry \in [acc : Seq(0..127), buf : Seq(Byte)]
  /\ EmptyCarry.acc = Digits(EmptyCarry.buf)
  /\ Len(EmptyCarry.buf) = 0 /\ EmptyCarry.buf = << >> /\ EmptyCarry.acc = << >>
<1>1. << >> \in Seq(Byte) /\ << >> \in Seq(0..127)
  BY EmptySeq
<1>2. Digits(<< >>) \in Seq(0..127) /\ Len(Digits(<< >>)) = 0
  BY <1>1, DigitsType
<1>3. Digits(<< >>) = << >>
  BY <1>2, EmptySeq
<1> QED BY <1>1, <1>3 DEF EmptyCarry

LEMMA DigitNat == \A x \in 0..127 : x \in Nat
  OBVIOUS

LEMMA AtType ==
  ASSUME NEW v \in Seq(0..127), NEW i \in Nat, i > 0 PROVE At(v, i) \in Nat
<1>1. CASE i <= Len(v)
  <2>1. i \in 1..Len(v)
    BY <1>1, LenProperties
  <2>2. v[i] \in 0..127
    BY <2>1, ElementOfSeq
  <2>3. v[i] \in Nat
    BY <2>2, DigitNat, Zenon
  <2> QED BY <1>1, <2>3 DEF At
<1>2. CASE ~(i <= Len(v))
  BY <1>2 DEF At
<1> QED BY <1>1, <1>2

LEMMA WordTypes ==
  ASSUME NEW v \in Seq(0..127)
  PROVE  FieldOf(v) \in Nat /\ Length(v) \in Nat
<1> DEFINE a == At(v, 1)
           h == HighDigits(v)
<1>1. At(v, 1) \in Nat /\ At(v, 2) \in Nat /\ At(v, 3) \in Nat /\ At(v, 4) \in Nat
      /\ At(v, 5) \in Nat
  BY AtType, SMT
<1>2. h \in Nat
  BY <1>1, SMTT(30) DEF HighDigits
<1>3. a \in Nat
  BY <1>1
<1>4. FieldOf(v) = a \div 8 + 16 * h /\ Length(v) = a + 128 * h
  BY DEF FieldOf, Length
<1> HIDE DEF a, h
<1>5. a \div 8 \in Nat
  BY <1>3, SMT
<1> QED BY <1>2, <1>3, <1>4, <1>5, SMT
=============================================================================
