----------------------------- MODULE RootProofs -----------------------------
(***************************************************************************)
(* Proofs about the groupless verdict machine, for every window, standard, *)
(* offset space, alphabet and bound: it takes only steps of the parser,    *)
(* over a sink that skips every payload, and the seal cut its pump         *)
(* compiles away is unreachable.                                           *)
(***************************************************************************)
EXTENDS RootScan, CarryProofs

----------------------------------------------------------------------------
(* The parser's copy of the kernel is the kernel.                          *)

LEMMA SameCursor ==
  /\ P!Cursor = Cursor
  /\ \A c : P!Width(c) = Width(c) /\ P!ConstructStart(c) = ConstructStart(c) /\ P!Clear(c) = Clear(c)
  /\ \A c : P!Put(c) <=> Put(c)
  BY SMTT(60) DEF P!Cursor, Cursor, P!CursorAt, CursorAt, P!Width, Width, P!ConstructStart, ConstructStart,
         P!Clear, Clear, P!EmptyCarry, EmptyCarry, P!Put, Put

LEMMA SameStep ==
  ASSUME NEW c, NEW w, NEW z, NEW std PROVE P!Step(c, w, z, std) = Step(c, w, z, std)
  BY DEF P!Step, Step, P!Take, Take, P!Taken, Taken, P!StepVerdict, StepVerdict, P!StepValue,
         StepValue, P!Room, Room, P!Hot, Hot, P!Skip, Skip, P!Digits, Digits, P!Width, Width,
         P!Least, Least, P!Clear, Clear, P!EmptyCarry, EmptyCarry, P!EncodedLen, EncodedLen,
         P!BitWidth, BitWidth, P!TopDigit, TopDigit, P!DigitBits, DigitBits

LEMMA SameWord ==
  ASSUME NEW v
  PROVE  /\ P!FieldOf(v) = FieldOf(v) /\ P!Low3(v) = Low3(v) /\ P!Length(v) = Length(v)
         /\ P!Value(v) = Value(v)
  BY DEF P!FieldOf, FieldOf, P!Low3, Low3, P!Length, Length, P!Value, Value, P!HighDigits,
         HighDigits, P!At, At, P!EncodedLen, EncodedLen, P!BitWidth, BitWidth, P!TopDigit, TopDigit,
         P!DigitBits, DigitBits

LEMMA SameCollect ==
  ASSUME NEW c, NEW z, NEW need
  PROVE  /\ P!Collected(c, z, need) = Collected(c, z, need)
         /\ P!CollectVerdict(c, z, need) = CollectVerdict(c, z, need)
  BY DEF P!Collected, Collected, P!CollectVerdict, CollectVerdict, P!Width, Width, P!Least, Least,
         P!Skip, Skip

----------------------------------------------------------------------------
(* The inductive invariant.                                                *)

\* What a live machine is suspended in: a word with room left in its window, a
\* fixed payload the root admitted, or a nonzero count.
Standing(m, c) ==
  \/ m = HeadMode /\ Width(c) < TagWindow.cap
  \/ \E f : m = Waiting("VarintValue", f) /\ Width(c) < ValueWindow.cap
  \/ \E f : m = Waiting("LenWord", f) /\ Width(c) < LenWindow.cap
  \/ \E f : \E kind \in {"I32", "I64"} :
       /\ m = FixedTail(f, kind)
       /\ Width(c) < Need(kind) /\ c.off + Need(kind) - Width(c) <= MaxOff
  \/ \E n \in Nat \ {0} : m = [k |-> "Swallow", remaining |-> n] /\ c.carry = EmptyCarry

\* The residue of the fed chunk stays below the root's own coordinate.
Within(c) == c \in Cursors /\ c.off + Len(c.chunk) < MaxOff

RootInv ==
  /\ pc \in {"idle", "drive", "gone"} /\ terminal \in BOOLEAN
  /\ pc = "drive" => ~terminal
  /\ ~terminal => Within(Cursor) /\ Standing(mode, Cursor)

LEMMA WindowCaps ==
  \A w \in {TagWindow, LenWindow, ValueWindow} : w \in Windows /\ w.cap \in Nat /\ 0 < w.cap
  BY WindowAssumption DEF Windows

LEMMA OffsetSpace == MaxOff \in Nat /\ 0 < MaxOff
  BY RootAssumption

\* A step from within the root never meets the seal: it consumes bytes of the
\* chunk alone, and the chunk ends below it.
LEMMA RootStep ==
  ASSUME NEW c, Within(c), NEW w \in {TagWindow, LenWindow, ValueWindow}, Width(c) < w.cap,
         NEW s \in Step(c, w, MaxOff, Standard)
  PROVE  /\ Within(s.cursor) /\ s.cursor.off < MaxOff
         /\ s.value \in Seq(0..127)
         /\ s.verdict # "Cut"
         /\ s.verdict = "Done" => s.cursor.carry = EmptyCarry
         /\ s.verdict = "More" => Width(s.cursor) < w.cap
<1>1. c \in Cursors /\ c.off \in Nat /\ Len(c.chunk) \in Nat /\ c.off <= MaxOff
  BY OffsetSpace DEF Within, Cursors
<1>2. w \in Windows
  BY WindowCaps
<1>3. /\ s.cursor \in Cursors
      /\ s.cursor.off + Len(s.cursor.chunk) = c.off + Len(c.chunk)
      /\ s.value \in Seq(0..127)
      /\ s.verdict = "Done" => s.cursor.carry = EmptyCarry
      /\ s.verdict = "More" => Width(s.cursor) < w.cap
      /\ s.verdict = "Cut" => s.cursor.off = MaxOff
  BY <1>1, <1>2, OffsetSpace, StepFacts
<1>4. s.cursor.off \in Nat /\ Len(s.cursor.chunk) \in Nat
  BY <1>3 DEF Cursors
<1>5. c.off + Len(c.chunk) < MaxOff
  BY DEF Within
<1>6. s.cursor.off < MaxOff
  BY <1>3, <1>4, <1>5, OffsetSpace
<1> QED BY <1>3, <1>5, <1>6, <1>4 DEF Within

\* The cursor of the next state is the one that was put.
LEMMA PutCursor ==
  ASSUME NEW c \in Cursors, Put(c) PROVE Cursor' = c
  BY DEF Put, Cursor, CursorAt, Cursors

LEMMA HeadStands ==
  ASSUME NEW c, c.carry = EmptyCarry
  PROVE  Width(c) = 0 /\ Standing(HeadMode, c)
<1>1. Width(c) = 0
  BY EmptyFacts DEF Width
<1>2. 0 < TagWindow.cap
  BY WindowCaps
<1> QED BY <1>1, <1>2 DEF Standing

\* A handler entered at a cursor within the root, its word or payload unfinished.
Entered(c) == pc = "drive" /\ terminal = FALSE /\ Within(c)

\* A live machine's invariant, from the cursor that was put and the mode.
LEMMA StaysLive ==
  ASSUME NEW c, NEW m, Within(c), Standing(m, c), Cursor' = c, mode' = m,
         pc' \in {"idle", "drive", "gone"}, terminal' = FALSE
  PROVE  RootInv'
<1>1. Within(Cursor')
  OBVIOUS
<1>2. Standing(mode', Cursor')
  OBVIOUS
<1>3. Within(Cursor)' /\ Standing(mode, Cursor)'
  BY <1>1, <1>2 DEF Within, Standing
<1> QED BY <1>3 DEF RootInv

LEMMA Latched == ASSUME NEW at, NEW kind, Halt(at, kind) PROVE RootInv'
  BY DEF RootInv, Halt

LEMMA VarintKeeps ==
  ASSUME NEW field, NEW c, Entered(c), Width(c) < ValueWindow.cap, VarintValue(field, c)
  PROVE  RootInv'
<1>1. PICK s \in Step(c, ValueWindow, MaxOff, Standard) :
        /\ Put(s.cursor)
        /\ IF s.verdict = "Done"
           THEN mode' = HeadMode /\ Continue
           ELSE /\ mode' = IF s.verdict = "More" THEN Waiting("VarintValue", field) ELSE mode
                /\ Unfinished(s, <<"Value", field>>)
  BY DEF VarintValue
<1>2. /\ Within(s.cursor)
      /\ s.verdict = "Done" => s.cursor.carry = EmptyCarry
      /\ s.verdict = "More" => Width(s.cursor) < ValueWindow.cap
  BY RootStep DEF Entered
<1>3. Cursor' = s.cursor
  BY <1>1, <1>2, PutCursor DEF Within
<1>4. Within(s.cursor)
  BY <1>2
<1>5. CASE s.verdict = "Done"
  <2>1. Standing(HeadMode, s.cursor)
    BY <1>2, <1>5, HeadStands
  <2>2. mode' = HeadMode /\ pc' = "drive" /\ terminal' = FALSE
    BY <1>1, <1>5 DEF Continue, Entered
  <2> QED BY <1>3, <1>4, <2>1, <2>2, StaysLive
<1>6. CASE s.verdict = "More"
  <2>1. Standing(Waiting("VarintValue", field), s.cursor)
    BY <1>2, <1>6 DEF Standing
  <2>2. mode' = Waiting("VarintValue", field) /\ pc' = "idle" /\ terminal' = FALSE
    BY <1>1, <1>6 DEF Unfinished, Suspend, Entered
  <2> QED BY <1>3, <1>4, <2>1, <2>2, StaysLive
<1>7. CASE s.verdict \notin {"Done", "More"}
  BY <1>1, <1>7, Latched DEF Unfinished
<1> QED BY <1>5, <1>6, <1>7

LEMMA SwallowingStands ==
  ASSUME NEW c, c.carry = EmptyCarry, NEW n \in Nat
  PROVE  Standing(Swallowing(n), c)
<1>1. CASE n = 0
  BY <1>1, HeadStands DEF Swallowing
<1>2. CASE n # 0
  BY <1>2 DEF Swallowing, Standing
<1> QED BY <1>1, <1>2

LEMMA LenKeeps ==
  ASSUME NEW field, NEW c, Entered(c), Width(c) < LenWindow.cap, LenWord(field, c)
  PROVE  RootInv'
<1>1. PICK s \in Step(c, LenWindow, MaxOff, Standard) :
        /\ Put(s.cursor)
        /\ IF s.verdict # "Done"
           THEN /\ mode' = IF s.verdict = "More" THEN Waiting("LenWord", field) ELSE mode
                /\ Unfinished(s, <<"LenPrefix", field>>)
           ELSE \/ mode' = Swallowing(Length(s.value)) /\ Continue
                \/ Halt(s.cursor.off, <<"LenUnsatisfiable", field, Length(s.value)>>)
  BY DEF LenWord
<1>2. /\ Within(s.cursor)
      /\ s.value \in Seq(0..127)
      /\ s.verdict = "Done" => s.cursor.carry = EmptyCarry
      /\ s.verdict = "More" => Width(s.cursor) < LenWindow.cap
  BY RootStep DEF Entered
<1>3. Cursor' = s.cursor
  BY <1>1, <1>2, PutCursor DEF Within
<1>4. Within(s.cursor)
  BY <1>2
<1>5. CASE s.verdict = "Done"
  <2>1. CASE mode' = Swallowing(Length(s.value)) /\ Continue
    <3>1. Standing(Swallowing(Length(s.value)), s.cursor)
      BY <1>2, <1>5, WordTypes, SwallowingStands
    <3>2. pc' = "drive" /\ terminal' = FALSE
      BY <2>1 DEF Continue, Entered
    <3> QED BY <1>3, <1>4, <2>1, <3>1, <3>2, StaysLive
  <2>2. CASE Halt(s.cursor.off, <<"LenUnsatisfiable", field, Length(s.value)>>)
    BY <2>2, Latched
  <2> QED BY <1>1, <1>5, <2>1, <2>2
<1>6. CASE s.verdict = "More"
  <2>1. Standing(Waiting("LenWord", field), s.cursor)
    BY <1>2, <1>6 DEF Standing
  <2>2. mode' = Waiting("LenWord", field) /\ pc' = "idle" /\ terminal' = FALSE
    BY <1>1, <1>6 DEF Unfinished, Suspend, Entered
  <2> QED BY <1>3, <1>4, <2>1, <2>2, StaysLive
<1>7. CASE s.verdict \notin {"Done", "More"}
  BY <1>1, <1>7, Latched DEF Unfinished
<1> QED BY <1>5, <1>6, <1>7

LEMMA Needs == \A kind \in {"I32", "I64"} : Need(kind) \in {4, 8}
  BY DEF Need

\* The cursor of a collection the root admitted: never cut by the root's seal.
LEMMA RootCollect ==
  ASSUME NEW c, Within(c), NEW kind \in {"I32", "I64"},
         Width(c) < Need(kind), c.off + Need(kind) - Width(c) <= MaxOff
  PROVE  LET d == Collected(c, MaxOff, Need(kind)) IN
         /\ Within(d) /\ Within(Clear(d)) /\ Clear(d).carry = EmptyCarry
         /\ CollectVerdict(d, MaxOff, Need(kind)) \in {"Done", "More"}
         /\ CollectVerdict(d, MaxOff, Need(kind)) = "More" =>
              Width(d) < Need(kind) /\ d.off + Need(kind) - Width(d) <= MaxOff
<1> DEFINE d == Collected(c, MaxOff, Need(kind))
<1>1. c \in Cursors /\ Need(kind) \in {4, 8} /\ MaxOff \in Nat
  BY Needs, OffsetSpace DEF Within
<1>2. /\ d \in Cursors
      /\ d.off + Len(d.chunk) = c.off + Len(c.chunk)
      /\ CollectVerdict(d, MaxOff, Need(kind)) \in {"Done", "More"}
      /\ CollectVerdict(d, MaxOff, Need(kind)) = "More" =>
           Width(d) < Need(kind) /\ d.off + Need(kind) - Width(d) <= MaxOff
  BY <1>1, CollectFacts
<1> HIDE DEF d
<1>3. Clear(d) \in Cursors /\ Clear(d).off = d.off /\ Clear(d).chunk = d.chunk
      /\ Clear(d).carry = EmptyCarry
  BY <1>2, EmptyFacts DEF Clear, Cursors
<1>4. Within(d) /\ Within(Clear(d))
  BY <1>2, <1>3 DEF Within
<1> QED BY <1>2, <1>3, <1>4 DEF d

LEMMA FixedKeeps ==
  ASSUME NEW field, NEW c, NEW kind \in {"I32", "I64"}, Entered(c),
         Width(c) < Need(kind), c.off + Need(kind) - Width(c) <= MaxOff,
         FixedPayload(field, kind, c)
  PROVE  RootInv'
<1> DEFINE d == Collected(c, MaxOff, Need(kind))
           verdict == CollectVerdict(d, MaxOff, Need(kind))
<1>1. /\ Within(d) /\ Within(Clear(d)) /\ Clear(d).carry = EmptyCarry
      /\ verdict = "More" => Width(d) < Need(kind) /\ d.off + Need(kind) - Width(d) <= MaxOff
      /\ verdict \in {"Done", "More"}
  BY RootCollect DEF Entered
<1>2. IF verdict = "Done" THEN Put(Clear(d)) /\ mode' = HeadMode /\ Continue
      ELSE Put(d) /\ mode' = FixedTail(field, kind) /\ Suspend
  BY DEF FixedPayload
<1> HIDE DEF d, verdict
<1>3. CASE verdict = "Done"
  <2>1. Cursor' = Clear(d)
    BY <1>1, <1>2, <1>3, PutCursor DEF Within
  <2>2. Standing(HeadMode, Clear(d))
    BY <1>1, HeadStands
  <2>3. mode' = HeadMode /\ pc' = "drive" /\ terminal' = FALSE
    BY <1>2, <1>3 DEF Continue, Entered
  <2> QED BY <1>1, <2>1, <2>2, <2>3, StaysLive
<1>4. CASE verdict # "Done"
  <2>1. Cursor' = d
    BY <1>1, <1>2, <1>4, PutCursor DEF Within
  <2>2. Standing(FixedTail(field, kind), d)
    BY <1>1, <1>4 DEF Standing
  <2>3. mode' = FixedTail(field, kind) /\ pc' = "idle" /\ terminal' = FALSE
    BY <1>2, <1>4 DEF Suspend, Entered
  <2> QED BY <1>1, <2>1, <2>2, <2>3, StaysLive
<1> QED BY <1>3, <1>4

\* What the arm of each mode may rely on.
LEMMA ArmStands ==
  ASSUME NEW m, NEW c, Standing(m, c)
  PROVE  /\ m.k \in {"Head", "VarintValue", "LenWord", "FixedTail", "Swallow"}
         /\ m.k = "Head" => m = HeadMode /\ Width(c) < TagWindow.cap
         /\ m.k = "VarintValue" => Width(c) < ValueWindow.cap
         /\ m.k = "LenWord" => Width(c) < LenWindow.cap
         /\ m.k = "FixedTail" =>
              /\ m.kind \in {"I32", "I64"}
              /\ Width(c) < Need(m.kind) /\ c.off + Need(m.kind) - Width(c) <= MaxOff
         /\ m.k = "Swallow" => m.remaining \in Nat \ {0} /\ c.carry = EmptyCarry
  BY DEF Standing, HeadMode, Waiting, FixedTail

LEMMA DriveEntered == ASSUME RootInv, pc = "drive" PROVE Entered(Cursor) /\ Standing(mode, Cursor)
  BY DEF RootInv, Entered

\* A completed tag leaves an empty carry, below every need and every cap.
LEMMA TagTaken ==
  ASSUME RootInv, pc = "drive", mode.k = "Head",
         NEW s \in Step(Cursor, TagWindow, MaxOff, Standard)
  PROVE  /\ Entered(s.cursor) /\ s.cursor.off < MaxOff /\ s.value \in Seq(0..127)
         /\ mode = HeadMode /\ s.verdict # "Cut"
         /\ s.verdict = "More" => Width(s.cursor) < TagWindow.cap
         /\ s.verdict = "Done" =>
              /\ s.cursor.carry = EmptyCarry /\ Width(s.cursor) = 0
              /\ Width(s.cursor) < ValueWindow.cap /\ Width(s.cursor) < LenWindow.cap
<1>1. /\ Entered(Cursor) /\ Within(Cursor)
      /\ mode = HeadMode /\ Width(Cursor) < TagWindow.cap
  BY DriveEntered, ArmStands DEF Entered
<1>2. /\ Within(s.cursor) /\ s.cursor.off < MaxOff /\ s.value \in Seq(0..127)
      /\ s.verdict # "Cut"
      /\ s.verdict = "Done" => s.cursor.carry = EmptyCarry
      /\ s.verdict = "More" => Width(s.cursor) < TagWindow.cap
  BY <1>1, RootStep
<1>3. s.verdict = "Done" => Width(s.cursor) = 0
  BY <1>2, HeadStands
<1>4. 0 < ValueWindow.cap /\ 0 < LenWindow.cap
  BY WindowCaps
<1> QED BY <1>1, <1>2, <1>3, <1>4 DEF Entered

LEMMA RecordHeadKeeps == ASSUME RootInv, RecordHead PROVE RootInv'
<1>1. pc = "drive" /\ mode.k = "Head"
  BY DEF RecordHead, Arm
<1>2. PICK s \in Step(Cursor, TagWindow, MaxOff, Standard) :
        \/ /\ s.verdict # "Done"
           /\ Unfinished(s, <<"Tag">>) /\ Put(s.cursor) /\ UNCHANGED mode
        \/ s.verdict = "Done" /\ VarintValue(FieldOf(s.value), s.cursor)
        \/ s.verdict = "Done" /\ LenWord(FieldOf(s.value), s.cursor)
        \/ \E kind \in {"I32", "I64"} :
             /\ s.verdict = "Done" /\ MaxOff - s.cursor.off >= Need(kind)
             /\ FixedPayload(FieldOf(s.value), kind, s.cursor)
        \/ \E at, kind : Halt(at, kind)
  BY SMTT(30) DEF RecordHead
<1>3. /\ Entered(s.cursor) /\ Within(s.cursor) /\ s.cursor.off < MaxOff
      /\ mode = HeadMode /\ s.verdict # "Cut"
      /\ s.verdict = "More" => Width(s.cursor) < TagWindow.cap
      /\ s.verdict = "Done" =>
           /\ s.cursor.carry = EmptyCarry /\ Width(s.cursor) = 0
           /\ Width(s.cursor) < ValueWindow.cap /\ Width(s.cursor) < LenWindow.cap
  BY <1>1, TagTaken DEF Entered
<1>4. CASE /\ s.verdict # "Done"
           /\ Unfinished(s, <<"Tag">>) /\ Put(s.cursor) /\ UNCHANGED mode
  <2>1. CASE s.verdict = "More"
    <3>1. Cursor' = s.cursor /\ mode' = HeadMode
      BY <1>3, <1>4, PutCursor DEF Within
    <3>2. Standing(HeadMode, s.cursor)
      BY <1>3, <2>1 DEF Standing
    <3>3. pc' = "idle" /\ terminal' = FALSE
      BY <1>3, <1>4, <2>1 DEF Unfinished, Suspend, Entered
    <3> QED BY <1>3, <3>1, <3>2, <3>3, StaysLive
  <2>2. CASE s.verdict # "More"
    BY <1>4, <2>2, Latched DEF Unfinished
  <2> QED BY <2>1, <2>2
<1>5. CASE s.verdict = "Done" /\ VarintValue(FieldOf(s.value), s.cursor)
  BY <1>3, <1>5, VarintKeeps
<1>6. CASE s.verdict = "Done" /\ LenWord(FieldOf(s.value), s.cursor)
  BY <1>3, <1>6, LenKeeps
<1>7. ASSUME NEW kind \in {"I32", "I64"}, s.verdict = "Done",
             MaxOff - s.cursor.off >= Need(kind), FixedPayload(FieldOf(s.value), kind, s.cursor)
      PROVE  RootInv'
  <2>1. Need(kind) \in {4, 8} /\ Width(s.cursor) = 0 /\ s.cursor.off \in Nat
    BY <1>3, <1>7, Needs DEF Within, Cursors
  <2>2. Width(s.cursor) < Need(kind) /\ s.cursor.off + Need(kind) - Width(s.cursor) <= MaxOff
    BY <1>7, <2>1, OffsetSpace
  <2> QED BY <1>3, <1>7, <2>2, FixedKeeps
<1>8. ASSUME NEW at, NEW kind, Halt(at, kind) PROVE RootInv'
  BY <1>8, Latched
<1> QED BY <1>2, <1>4, <1>5, <1>6, <1>7, <1>8

LEMMA SwallowKeeps == ASSUME RootInv, Swallow PROVE RootInv'
<1>1. /\ pc = "drive" /\ Entered(Cursor) /\ Within(Cursor)
      /\ mode.remaining \in Nat \ {0} /\ carry = EmptyCarry
  BY DriveEntered, ArmStands DEF Swallow, Arm, Entered, Cursor, CursorAt
<1> DEFINE n == Least(mode.remaining, Len(chunk))
<1>2. off \in Nat /\ chunk \in Seq(Byte) /\ Len(chunk) \in Nat /\ off + Len(chunk) < MaxOff
  BY <1>1 DEF Within, Cursor, CursorAt, Cursors
<1>3. n \in 0..Len(chunk) /\ mode.remaining - n \in Nat
  BY <1>1, <1>2 DEF Least
<1>4. /\ off' = off + n /\ chunk' = Skip(chunk, n) /\ carry' = EmptyCarry
      /\ mode' = Swallowing(mode.remaining - n) /\ pc' = "drive" /\ terminal' = FALSE
  BY <1>1 DEF Swallow, Entered
<1> HIDE DEF n
<1>5. Skip(chunk, n) \in Seq(Byte) /\ Len(Skip(chunk, n)) = Len(chunk) - n
  BY <1>2, <1>3, SkipFacts
<1> DEFINE c == CursorAt(off + n, Skip(chunk, n), EmptyCarry)
<1>6. Cursor' = c /\ c.carry = EmptyCarry
  BY <1>4 DEF Cursor, CursorAt
<1>7. Within(c)
  <2>1. c \in Cursors /\ c.off = off + n /\ c.chunk = Skip(chunk, n)
    BY <1>2, <1>3, <1>5, EmptyFacts DEF CursorAt, Cursors
  <2>2. c.off + Len(c.chunk) < MaxOff
    BY <1>2, <1>3, <1>5, <2>1, OffsetSpace
  <2> QED BY <2>1, <2>2 DEF Within
<1>8. Standing(Swallowing(mode.remaining - n), c)
  BY <1>3, <1>6, SwallowingStands
<1> HIDE DEF c
<1> QED BY <1>4, <1>6, <1>7, <1>8, StaysLive

LEMMA FeedKeeps == ASSUME RootInv, NEW bytes \in Chunks, Feed(bytes) PROVE RootInv'
<1>1. CASE Admits(bytes)
  <2>1. /\ terminal = FALSE /\ pc' = "drive" /\ terminal' = FALSE
        /\ off' = off /\ carry' = carry /\ mode' = mode /\ chunk' = bytes
    BY <1>1 DEF Feed, RootInv
  <2>2. Within(Cursor) /\ Standing(mode, Cursor)
    BY <2>1 DEF RootInv
  <2>3. off \in Nat /\ carry \in [acc : Seq(0..127), buf : Seq(Byte)]
    BY <2>2 DEF Within, Cursor, CursorAt, Cursors
  <2>4. bytes \in Seq(Byte) /\ Len(bytes) \in Nat
    <3>1. PICK n \in 0..MaxChunk : bytes \in [1..n -> Bytes]
      BY DEF Chunks
    <3>2. bytes \in Seq(Bytes) /\ Len(bytes) = n
      BY <3>1, FunctionIsSeq, RootAssumption
    <3>3. Bytes \subseteq Byte
      BY RootAssumption
    <3> QED BY <3>1, <3>2, <3>3
  <2> DEFINE c == CursorAt(off, bytes, carry)
  <2>5. Cursor' = c
    BY <2>1 DEF Cursor, CursorAt
  <2>6. off + Len(bytes) < MaxOff
    BY <1>1, <2>3, <2>4, OffsetSpace DEF Admits
  <2>7. Within(c)
    BY <2>3, <2>4, <2>6 DEF Within, CursorAt, Cursors
  <2>8. Standing(mode, c)
    <3>1. c.off = Cursor.off /\ c.carry = Cursor.carry /\ Width(c) = Width(Cursor)
      BY DEF CursorAt, Cursor, Width
    <3> HIDE DEF c
    <3> QED BY <2>2, <3>1 DEF Standing
  <2> HIDE DEF c
  <2> QED BY <2>1, <2>5, <2>7, <2>8, StaysLive
<1>2. CASE ~Admits(bytes)
  BY <1>2, Latched DEF Feed
<1> QED BY <1>1, <1>2

LEMMA DriveKeeps == ASSUME RootInv, Drive PROVE RootInv'
<1>1. CASE ChunkSpent
  <2>1. /\ Within(Cursor) /\ Standing(mode, Cursor) /\ terminal = FALSE
    BY <1>1, DriveEntered DEF ChunkSpent, Entered
  <2>2. Cursor' = Cursor /\ mode' = mode /\ pc' = "idle" /\ terminal' = FALSE
    BY <1>1, <2>1 DEF ChunkSpent, Suspend, Cursor, CursorAt
  <2> QED BY <2>1, <2>2, StaysLive
<1>2. CASE RecordHead
  BY <1>2, RecordHeadKeeps
<1>3. CASE ResumeVarint
  <2>1. Entered(Cursor) /\ Width(Cursor) < ValueWindow.cap
    BY <1>3, DriveEntered, ArmStands DEF ResumeVarint, Arm
  <2> QED BY <1>3, <2>1, VarintKeeps DEF ResumeVarint
<1>4. CASE ResumeLen
  <2>1. Entered(Cursor) /\ Width(Cursor) < LenWindow.cap
    BY <1>4, DriveEntered, ArmStands DEF ResumeLen, Arm
  <2> QED BY <1>4, <2>1, LenKeeps DEF ResumeLen
<1>5. CASE ResumeFixed
  <2>1. /\ Entered(Cursor) /\ mode.kind \in {"I32", "I64"}
        /\ Width(Cursor) < Need(mode.kind) /\ Cursor.off + Need(mode.kind) - Width(Cursor) <= MaxOff
    BY <1>5, DriveEntered, ArmStands DEF ResumeFixed, Arm
  <2> QED BY <1>5, <2>1, FixedKeeps DEF ResumeFixed
<1>6. CASE Swallow
  BY <1>6, SwallowKeeps
<1> QED BY <1>1, <1>2, <1>3, <1>4, <1>5, <1>6 DEF Drive

\* The machine's pump is never asked for a seal: what a live machine is
\* suspended in has room, and the fed chunk ends below the root's coordinate.
THEOREM RootInvariant == Spec => []RootInv
<1>1. Init => RootInv
  <2> SUFFICES ASSUME Init PROVE RootInv
    OBVIOUS
  <2>1. Cursor \in Cursors /\ Cursor.carry = EmptyCarry /\ mode = HeadMode
        /\ Cursor.off = 0 /\ Cursor.chunk = << >>
    BY EmptyFacts, EmptySeq DEF Init, Cursor, CursorAt, Cursors
  <2>2. Within(Cursor)
    BY <2>1, EmptySeq, OffsetSpace DEF Within
  <2>3. Standing(mode, Cursor)
    BY <2>1, HeadStands
  <2> QED BY <2>2, <2>3 DEF Init, RootInv
<1>2. RootInv /\ [Next]_vars => RootInv'
  <2> SUFFICES ASSUME RootInv, [Next]_vars PROVE RootInv'
    OBVIOUS
  <2>1. CASE UNCHANGED vars
    BY <2>1 DEF vars, RootInv, Within, Standing, Cursor, CursorAt
  <2>2. ASSUME NEW bytes \in Chunks, Feed(bytes) PROVE RootInv'
    BY <2>2, FeedKeeps
  <2>3. CASE Finish
    BY <2>3 DEF Finish, RootInv, Within, Standing, Cursor, CursorAt
  <2>4. CASE Drive
    BY <2>4, DriveKeeps
  <2> QED BY <2>1, <2>2, <2>3, <2>4 DEF Next, Rest
<1> QED BY <1>1, <1>2, PTL DEF Spec

\* The branches RootPump compiles away are unreachable: for every chunk, no word
\* and no fixed collection of the drive reports the seal cut, and no step starts
\* past the root (RootPump of src/src/pump.rs).
THEOREM SealCutUnreachable == Spec => []CutUnreachable
<1>1. RootInv => CutUnreachable
  <2> SUFFICES ASSUME RootInv, pc = "drive" PROVE CutUnreachable
    BY DEF CutUnreachable
  <2>1. Entered(Cursor) /\ Standing(mode, Cursor) /\ Within(Cursor)
    BY DriveEntered DEF Entered
  <2>2. off < MaxOff
    <3>1. off \in Nat /\ Len(chunk) \in Nat /\ off + Len(chunk) < MaxOff
      BY <2>1 DEF Within, Cursors, Cursor, CursorAt
    <3> QED BY <3>1, OffsetSpace
  <2>3. ASSUME mode.k = "FixedTail"
        PROVE  CollectVerdict(Collected(Cursor, MaxOff, Need(mode.kind)), MaxOff, Need(mode.kind)) # "Cut"
    <3>1. /\ mode.kind \in {"I32", "I64"}
          /\ Width(Cursor) < Need(mode.kind) /\ Cursor.off + Need(mode.kind) - Width(Cursor) <= MaxOff
      BY <2>1, <2>3, ArmStands
    <3>2. CollectVerdict(Collected(Cursor, MaxOff, Need(mode.kind)), MaxOff, Need(mode.kind)) \in {"Done", "More"}
      BY <2>1, <3>1, RootCollect
    <3> QED BY <3>2
  <2>4. ASSUME NEW w \in {TagWindow, LenWindow, ValueWindow}, w.cap > Width(Cursor),
               NEW s \in Step(Cursor, w, MaxOff, Standard)
        PROVE  s.verdict # "Cut"
    <3>1. Width(Cursor) < w.cap
      BY <2>1, <2>4, WindowCaps DEF Within, Cursors, Width
    <3> QED BY <2>1, <3>1, RootStep
  <2> QED BY <2>2, <2>3, <2>4 DEF CutUnreachable
<1> QED BY <1>1, RootInvariant, PTL

----------------------------------------------------------------------------
(* Every step is the parser's.  Its latch, armed for the whole drive, is   *)
(* terminal \/ pc = "drive"; its zone is the root's, its stack empty.      *)

LEMMA FaultHalts ==
  ASSUME NEW at, NEW kind, Halt(at, kind) PROVE P!Halt(at, kind)
<1>1. <<"Fault", at, kind>> # <<"More">>
  OBVIOUS
<1> QED BY <1>1 DEF Halt, P!Halt, P!Return

LEMMA SuspendReturns ==
  ASSUME pc = "drive", terminal = FALSE, Suspend PROVE P!Return(<<"More">>)
  BY DEF Suspend, P!Return

LEMMA UnfinishedMaps ==
  ASSUME pc = "drive", terminal = FALSE, NEW s, NEW stage, s.verdict # "Cut", Unfinished(s, stage)
  PROVE  P!Unfinished(s, stage)
  BY SuspendReturns, FaultHalts, SameCursor DEF Unfinished, P!Unfinished

\* The parser's sink always answers that the stream goes on.
LEMMA PassedIsEvent ==
  ASSUME pc = "drive", terminal = FALSE, Continue, NEW e, passed' = Append(passed, e)
  PROVE  P!Event(e)
  BY DEF Continue, P!Event, P!Answered

LEMMA VarintMaps ==
  ASSUME NEW field, NEW c, Entered(c), Width(c) < ValueWindow.cap, VarintValue(field, c)
  PROVE  P!VarintValue(field, c)
<1>1. PICK s \in Step(c, ValueWindow, MaxOff, Standard) :
        /\ Put(s.cursor)
        /\ IF s.verdict = "Done"
           THEN /\ mode' = HeadMode /\ Continue
                /\ passed' = Append(passed, <<"varint", field, Value(s.value)>>)
           ELSE /\ mode' = IF s.verdict = "More" THEN Waiting("VarintValue", field) ELSE mode
                /\ Unfinished(s, <<"Value", field>>)
                /\ UNCHANGED passed
  BY DEF VarintValue
<1>2. s.verdict # "Cut" /\ pc = "drive" /\ terminal = FALSE
  BY RootStep DEF Entered
<1>3. s \in P!Step(c, ValueWindow, MaxOff, Standard) /\ P!Put(s.cursor)
  BY <1>1, SameStep, SameCursor
<1>4. \/ /\ s.verdict = "Done" /\ mode' = P!HeadMode
         /\ P!Event(<<"varint", field, P!Value(s.value)>>)
      \/ /\ s.verdict # "Done"
         /\ mode' = IF s.verdict = "More" THEN P!Waiting("VarintValue", field) ELSE mode
         /\ P!Unfinished(s, <<"Value", field>>)
         /\ UNCHANGED passed
  <2>1. CASE s.verdict = "Done"
    <3>1. P!Event(<<"varint", field, Value(s.value)>>) /\ mode' = HeadMode
      BY <1>1, <1>2, <2>1, PassedIsEvent
    <3> QED BY <2>1, <3>1, SameWord DEF HeadMode, P!HeadMode
  <2>2. CASE s.verdict # "Done"
    <3>1. P!Unfinished(s, <<"Value", field>>)
      BY <1>1, <1>2, <2>2, UnfinishedMaps
    <3> QED BY <1>1, <2>2, <3>1 DEF Waiting, P!Waiting
  <2> QED BY <2>1, <2>2
<1>5. UNCHANGED <<MaxOff, << >>, fed>>
  BY DEF VarintValue
<1> QED BY <1>3, <1>4, <1>5 DEF P!VarintValue

LEMMA SwallowingCounts == ASSUME NEW n PROVE P!Counting("Swallow", n) = Swallowing(n)
  BY DEF P!Counting, Swallowing, P!HeadMode, HeadMode

LEMMA LenMaps ==
  ASSUME NEW field, NEW c, Entered(c), Width(c) < LenWindow.cap, LenWord(field, c)
  PROVE  P!LenWord(field, c)
<1>1. PICK s \in Step(c, LenWindow, MaxOff, Standard) :
        /\ Put(s.cursor)
        /\ IF s.verdict # "Done"
           THEN /\ mode' = IF s.verdict = "More" THEN Waiting("LenWord", field) ELSE mode
                /\ Unfinished(s, <<"LenPrefix", field>>)
                /\ UNCHANGED passed
           ELSE IF s.cursor.off + Length(s.value) < MaxOff
           THEN /\ mode' = Swallowing(Length(s.value)) /\ Continue
                /\ passed' = Append(passed, <<"len", field, Length(s.value), s.cursor.off, "OpaqueSkip">>)
           ELSE /\ Halt(s.cursor.off, <<"LenUnsatisfiable", field, Length(s.value)>>)
                /\ UNCHANGED <<mode, passed>>
  BY DEF LenWord
<1> DEFINE len == Length(s.value)
           at  == s.cursor.off
<1>2. /\ s.verdict # "Cut" /\ pc = "drive" /\ terminal = FALSE
      /\ at \in Nat /\ at < MaxOff /\ len \in Nat /\ P!Length(s.value) = len
  BY ZenonT(60), RootStep, WordTypes, SameWord DEF Entered, Within, Cursors
<1>3. s \in P!Step(c, LenWindow, MaxOff, Standard) /\ P!Put(s.cursor)
  BY <1>1, SameStep, SameCursor
<1> HIDE DEF len, at
<1>4. P!LenFits(at, len) <=> at + len < MaxOff
  BY <1>2, OffsetSpace DEF P!LenFits
<1>5. \/ /\ s.verdict # "Done"
         /\ mode' = IF s.verdict = "More" THEN P!Waiting("LenWord", field) ELSE mode
         /\ P!Unfinished(s, <<"LenPrefix", field>>)
         /\ UNCHANGED <<MaxOff, << >>, passed>>
      \/ /\ s.verdict = "Done" /\ ~P!LenFits(at, len)
         /\ P!Halt(at, <<IF MaxOff # MaxOff THEN "LenOverrun" ELSE "LenUnsatisfiable", field, len>>)
         /\ UNCHANGED <<MaxOff, mode, << >>, passed>>
      \/ /\ s.verdict = "Done" /\ P!LenFits(at, len)
         /\ P!AskLen(field, len, at)
  <2>1. CASE s.verdict # "Done"
    <3>1. P!Unfinished(s, <<"LenPrefix", field>>)
      BY <1>1, <1>2, <2>1, UnfinishedMaps
    <3> QED BY <1>1, <2>1, <3>1 DEF Waiting, P!Waiting
  <2>2. CASE s.verdict = "Done" /\ ~(at + len < MaxOff)
    <3>1. Halt(at, <<"LenUnsatisfiable", field, len>>) /\ UNCHANGED <<mode, passed>>
      BY <1>1, <2>2 DEF len, at
    <3> QED BY <1>4, <2>2, <3>1, FaultHalts
  <2>3. CASE s.verdict = "Done" /\ at + len < MaxOff
    <3>1. /\ mode' = P!Counting("Swallow", len) /\ Continue
          /\ passed' = Append(passed, <<"len", field, len, at, "OpaqueSkip">>)
      BY <1>1, <2>3, SwallowingCounts DEF len, at
    <3>2. P!Opaque("Swallow", len)
      BY <1>2, <3>1 DEF P!Opaque, Continue
    <3>3. P!AskLen(field, len, at)
      BY <3>1, <3>2 DEF P!AskLen
    <3> QED BY <1>4, <2>3, <3>3
  <2> QED BY <2>1, <2>2, <2>3
<1>6. UNCHANGED fed
  BY DEF LenWord
<1> QED BY <1>2, <1>3, <1>5, <1>6 DEF P!LenWord, at

LEMMA FixedMaps ==
  ASSUME NEW field, NEW c, NEW kind \in {"I32", "I64"}, Entered(c),
         Width(c) < Need(kind), c.off + Need(kind) - Width(c) <= MaxOff,
         FixedPayload(field, kind, c)
  PROVE  P!FixedPayload(field, kind, c)
<1> DEFINE d == Collected(c, MaxOff, Need(kind))
           verdict == CollectVerdict(d, MaxOff, Need(kind))
<1>1. verdict \in {"Done", "More"} /\ pc = "drive" /\ terminal = FALSE
  BY RootCollect DEF Entered
<1>2. /\ IF verdict = "Done"
         THEN /\ Put(Clear(d)) /\ mode' = HeadMode /\ Continue
              /\ passed' = Append(passed, <<"fixed", field, kind, d.carry.buf>>)
         ELSE Put(d) /\ mode' = FixedTail(field, kind) /\ Suspend /\ UNCHANGED passed
      /\ UNCHANGED fed
  BY DEF FixedPayload
<1>3. /\ P!Need(kind) = Need(kind) /\ P!Collected(c, MaxOff, Need(kind)) = d
      /\ P!CollectVerdict(d, MaxOff, Need(kind)) = verdict
      /\ P!Clear(d) = Clear(d)
  BY SameCollect, SameCursor DEF P!Need, Need
<1> HIDE DEF d, verdict
<1>4. CASE verdict = "Done"
  <2>1. P!Put(P!Clear(d)) /\ P!Event(<<"fixed", field, kind, d.carry.buf>>)
    BY <1>1, <1>2, <1>3, <1>4, PassedIsEvent, SameCursor
  <2>2. mode' = IF P!Unwinding THEN mode ELSE P!HeadMode
    BY <1>1, <1>2, <1>4 DEF Continue, P!Unwinding, HeadMode, P!HeadMode
  <2> QED BY <1>2, <1>3, <1>4, <2>1, <2>2 DEF P!FixedPayload
<1>5. CASE verdict = "More"
  <2>1. P!Put(d) /\ P!Return(<<"More">>) /\ mode' = P!FixedTail(field, kind)
    BY <1>1, <1>2, <1>5, SameCursor, SuspendReturns DEF FixedTail, P!FixedTail
  <2> QED BY <1>2, <1>3, <1>5, <2>1 DEF P!FixedPayload
<1> QED BY <1>1, <1>4, <1>5

\* With the chunk below the root's coordinate no endpoint is ever due.
LEMMA ArmMaps ==
  ASSUME RootInv, pc = "drive"
  PROVE  ~P!EndpointDue /\ \A k : Arm(k) => P!Arm(k)
<1>1. off \in Nat /\ Len(chunk) \in Nat /\ off + Len(chunk) < MaxOff
  BY DriveEntered DEF Entered, Within, Cursors, Cursor, CursorAt
<1>2. off # MaxOff
  BY <1>1, OffsetSpace
<1> QED BY <1>2 DEF P!EndpointDue, P!Arm, Arm

LEMMA SameClass ==
  ASSUME NEW low3 PROVE P!Classify(low3) = Classify(low3)
  BY DEF P!Classify, P!ClassifyGroupless, P!ClassifyGrouped, Classify

LEMMA TaggedIs ==
  ASSUME NEW s \in Step(Cursor, TagWindow, MaxOff, Standard), s.verdict = "Done"
  PROVE  s \in P!Tagged(IF FieldOf(s.value) = 0 THEN "FieldZero" ELSE Classify(Low3(s.value)))
  BY SameStep, SameCursor, SameWord, SameClass DEF P!Tagged

LEMMA RecordHeadMaps == ASSUME RootInv, RecordHead PROVE P!Drive
<1>1. pc = "drive" /\ mode.k = "Head" /\ P!Arm("Head")
  BY ArmMaps DEF RecordHead, Arm
<1>2. PICK s \in Step(Cursor, TagWindow, MaxOff, Standard) :
        LET field == FieldOf(s.value)
            class == IF field = 0 THEN "FieldZero" ELSE Classify(Low3(s.value))
            Stand == Put(s.cursor) /\ UNCHANGED <<mode, passed, fed>>
        IN  \/ /\ s.verdict # "Done"
               /\ Unfinished(s, <<"Tag">>) /\ Stand
            \/ /\ s.verdict = "Done" /\ class = "Varint"
               /\ VarintValue(field, s.cursor)
            \/ /\ s.verdict = "Done" /\ class = "Len"
               /\ LenWord(field, s.cursor)
            \/ /\ s.verdict = "Done" /\ class \in {"I32", "I64"}
               /\ MaxOff - s.cursor.off >= Need(class)
               /\ FixedPayload(field, class, s.cursor)
            \/ /\ s.verdict = "Done" /\ class \in {"I32", "I64"}
               /\ MaxOff - s.cursor.off < Need(class)
               /\ Halt(s.cursor.off, <<"FixedOverrun", field>>) /\ Stand
            \/ /\ s.verdict = "Done" /\ class = "FieldZero"
               /\ Halt(ConstructStart(Cursor), <<"FieldZero">>) /\ Stand
            \/ /\ s.verdict = "Done" /\ class \in {"GroupCode", "Unassigned"}
               /\ Halt(ConstructStart(Cursor), <<class, field, Low3(s.value)>>) /\ Stand
  BY DEF RecordHead
<1> DEFINE field == FieldOf(s.value)
           class == IF field = 0 THEN "FieldZero" ELSE Classify(Low3(s.value))
           Stand == Put(s.cursor) /\ UNCHANGED <<mode, passed, fed>>
<1>3. /\ Entered(s.cursor) /\ Within(s.cursor) /\ s.cursor.off < MaxOff
      /\ terminal = FALSE /\ s.verdict # "Cut"
      /\ s.verdict = "Done" =>
           /\ Width(s.cursor) = 0
           /\ Width(s.cursor) < ValueWindow.cap /\ Width(s.cursor) < LenWindow.cap
  BY <1>1, TagTaken DEF Entered
<1>4. P!FieldOf(s.value) = field /\ P!Low3(s.value) = Low3(s.value)
      /\ P!ConstructStart(P!Cursor) = ConstructStart(Cursor)
      /\ (Put(s.cursor) => P!Put(s.cursor))
  BY SameWord, SameCursor
<1>5. s \in P!Step(P!Cursor, TagWindow, MaxOff, Standard)
      /\ (s.verdict = "Done" => s \in P!Tagged(class))
  BY SameStep, SameCursor, TaggedIs
<1> HIDE DEF field, class
<1>6. CASE s.verdict # "Done" /\ Unfinished(s, <<"Tag">>) /\ Stand
  <2>1. P!Unfinished(s, <<"Tag">>)
    BY <1>1, <1>3, <1>6, UnfinishedMaps
  <2>2. P!TagUnfinished
    BY <1>1, <1>4, <1>5, <1>6, <2>1 DEF P!TagUnfinished
  <2> QED BY <2>2 DEF P!Drive
<1>7. CASE s.verdict = "Done" /\ class = "Varint" /\ VarintValue(field, s.cursor)
  <2>1. P!VarintValue(field, s.cursor)
    BY <1>3, <1>7, VarintMaps
  <2>2. P!VarintRecord
    BY <1>1, <1>4, <1>5, <1>7, <2>1 DEF P!VarintRecord
  <2> QED BY <2>2 DEF P!Drive
<1>8. CASE s.verdict = "Done" /\ class = "Len" /\ LenWord(field, s.cursor)
  <2>1. P!LenWord(field, s.cursor)
    BY <1>3, <1>8, LenMaps
  <2>2. P!LenRecord
    BY <1>1, <1>4, <1>5, <1>8, <2>1 DEF P!LenRecord
  <2> QED BY <2>2 DEF P!Drive
<1>9. CASE /\ s.verdict = "Done" /\ class \in {"I32", "I64"}
           /\ MaxOff - s.cursor.off >= Need(class)
           /\ FixedPayload(field, class, s.cursor)
  <2>1. Need(class) \in {4, 8} /\ Width(s.cursor) = 0 /\ s.cursor.off \in Nat
    BY <1>3, <1>9, Needs DEF Within, Cursors
  <2>2. Width(s.cursor) < Need(class) /\ s.cursor.off + Need(class) - Width(s.cursor) <= MaxOff
    BY <1>9, <2>1, OffsetSpace
  <2>3. P!FixedPayload(field, class, s.cursor)
    BY <1>3, <1>9, <2>2, FixedMaps
  <2>4. P!FixedRecord(class)
    <3>1. P!Need(class) = Need(class)
      BY DEF P!Need, Need
    <3> QED BY <1>1, <1>4, <1>5, <1>9, <2>3, <3>1 DEF P!FixedRecord
  <2> QED BY <1>9, <2>4 DEF P!Drive
<1>10. CASE /\ s.verdict = "Done" /\ class \in {"I32", "I64"}
            /\ MaxOff - s.cursor.off < Need(class)
            /\ Halt(s.cursor.off, <<"FixedOverrun", field>>) /\ Stand
  <2>1. P!Halt(s.cursor.off, <<"FixedOverrun", field>>)
    BY <1>10, FaultHalts
  <2>2. P!FixedOverrun(class)
    <3>1. P!Need(class) = Need(class)
      BY DEF P!Need, Need
    <3> QED BY <1>1, <1>4, <1>5, <1>10, <2>1, <3>1 DEF P!FixedOverrun
  <2> QED BY <1>10, <2>2 DEF P!Drive
<1>11. CASE /\ s.verdict = "Done" /\ class = "FieldZero"
            /\ Halt(ConstructStart(Cursor), <<"FieldZero">>) /\ Stand
  <2>1. P!Halt(ConstructStart(Cursor), <<"FieldZero">>)
    BY <1>11, FaultHalts
  <2>2. P!TagRefused("FieldZero")
    BY <1>1, <1>4, <1>5, <1>11, <2>1 DEF P!TagRefused
  <2> QED BY <2>2 DEF P!Drive
<1>12. CASE /\ s.verdict = "Done" /\ class \in {"GroupCode", "Unassigned"}
            /\ Halt(ConstructStart(Cursor), <<class, field, Low3(s.value)>>) /\ Stand
  <2>1. P!Halt(ConstructStart(Cursor), <<class, field, Low3(s.value)>>)
    BY <1>12, FaultHalts
  <2>2. P!TagRefused(class)
    BY <1>1, <1>4, <1>5, <1>12, <2>1 DEF P!TagRefused
  <2> QED BY <1>12, <2>2 DEF P!Drive
<1> QED BY <1>2, <1>6, <1>7, <1>8, <1>9, <1>10, <1>11, <1>12 DEF field, class

LEMMA DriveMaps == ASSUME RootInv, Drive PROVE P!Drive
<1>0. /\ pc = "drive" /\ Entered(Cursor) /\ terminal = FALSE /\ Standing(mode, Cursor)
      /\ ~P!EndpointDue /\ P!Cursor = Cursor
      /\ \A k : Arm(k) => P!Arm(k)
  <2>1. pc = "drive"
    BY DEF Drive, ChunkSpent, RecordHead, ResumeVarint, ResumeLen, ResumeFixed, Swallow, Arm
  <2> QED BY <2>1, DriveEntered, ArmMaps, SameCursor DEF Entered
<1>1. CASE ChunkSpent
  <2>1. P!ChunkSpent
    BY <1>0, <1>1, SuspendReturns DEF ChunkSpent, P!ChunkSpent
  <2> QED BY <2>1 DEF P!Drive
<1>2. CASE RecordHead
  BY <1>2, RecordHeadMaps
<1>3. CASE ResumeVarint
  <2>1. Width(Cursor) < ValueWindow.cap
    BY <1>0, <1>3, ArmStands DEF ResumeVarint, Arm
  <2>2. P!ResumeVarint
    BY <1>0, <1>3, <2>1, VarintMaps DEF ResumeVarint, P!ResumeVarint
  <2> QED BY <2>2 DEF P!Drive
<1>4. CASE ResumeLen
  <2>1. Width(Cursor) < LenWindow.cap
    BY <1>0, <1>4, ArmStands DEF ResumeLen, Arm
  <2>2. P!ResumeLen
    BY <1>0, <1>4, <2>1, LenMaps DEF ResumeLen, P!ResumeLen
  <2> QED BY <2>2 DEF P!Drive
<1>5. CASE ResumeFixed
  <2>1. /\ mode.kind \in {"I32", "I64"}
        /\ Width(Cursor) < Need(mode.kind) /\ Cursor.off + Need(mode.kind) - Width(Cursor) <= MaxOff
    BY <1>0, <1>5, ArmStands DEF ResumeFixed, Arm
  <2>2. P!FixedPayload(mode.field, mode.kind, Cursor)
    BY <1>0, <1>5, <2>1, FixedMaps DEF ResumeFixed
  <2>3. P!ResumeFixed
    BY <1>0, <1>5, <2>2 DEF ResumeFixed, P!ResumeFixed
  <2> QED BY <2>3 DEF P!Drive
<1>6. CASE Swallow
  <2>1. P!Least(mode.remaining, Len(chunk)) = Least(mode.remaining, Len(chunk))
    BY DEF P!Least, Least
  <2>2. mode.k = "Swallow" /\ P!Arm("Swallow")
    BY <1>0, <1>6 DEF Swallow, Arm
  <2>3. P!Counted(Least(mode.remaining, Len(chunk)))
    BY <1>6, <2>2, SwallowingCounts DEF Swallow, P!Counted, P!Skip, Skip
  <2>4. P!Swallow
    BY <1>6, <2>1, <2>2, <2>3 DEF Swallow, P!Swallow
  <2> QED BY <2>4 DEF P!Drive
<1> QED BY <1>1, <1>2, <1>3, <1>4, <1>5, <1>6 DEF Drive

LEMMA FinishMaps == ASSUME RootInv, Finish PROVE P!Finish
<1>1. pc = "idle" /\ terminal = FALSE /\ Standing(mode, Cursor) /\ Cursor \in Cursors
  BY DEF Finish, RootInv, Within
<1>2. P!FinishKind = FinishKind
  <2>1. mode.k \in {"Head", "VarintValue", "LenWord", "FixedTail", "Swallow"}
    BY <1>1, ArmStands
  <2>2. Width(Cursor) \in Nat /\ P!Width(P!Cursor) = Width(Cursor)
    BY <1>1, SameCursor DEF Width, Cursors
  <2>3. CASE mode.k = "Head"
    BY <2>2, <2>3 DEF P!FinishKind, FinishKind
  <2>4. CASE mode.k # "Head"
    BY <2>1, <2>4 DEF P!FinishKind, FinishKind
  <2> QED BY <2>3, <2>4
<1>3. P!FinishVerdict = FinishVerdict
  BY <1>2 DEF P!FinishVerdict, FinishVerdict
<1> QED BY <1>1, <1>3 DEF Finish, P!Finish

LEMMA FeedMaps ==
  ASSUME RootInv, NEW bytes \in Chunks, Feed(bytes)
  PROVE  bytes \in P!Chunks /\ (P!Feed(bytes) \/ P!RefuseFeed(bytes))
<1>1. bytes \in P!Chunks
  BY DEF P!Chunks, Chunks
<1>2. P!Admits(bytes) <=> Admits(bytes)
  BY DEF P!Admits, Admits
<1>3. pc = "idle" /\ terminal = FALSE
  BY DEF Feed, RootInv
<1>4. CASE Admits(bytes)
  BY <1>1, <1>2, <1>3, <1>4 DEF Feed, P!Feed
<1>5. CASE ~Admits(bytes)
  <2>1. P!Halt(off, <<"OffsetExhausted">>)
    BY <1>5, FaultHalts DEF Feed
  <2> QED BY <1>1, <1>2, <1>3, <1>5, <2>1 DEF Feed, P!RefuseFeed
<1> QED BY <1>4, <1>5

\* The validator, the record machine written a second time, takes only steps of
\* the parser over a sink that skips every payload (groupless.rs:941): the
\* same verdicts, at the same offsets, for every window, standard and chunking.
THEOREM RootTakesParserSteps == Spec => P!Init /\ [][P!Next]_(P!vars)
<1>1. Init => P!Init
  BY DEF Init, P!Init, EmptyCarry, P!EmptyCarry, HeadMode, P!HeadMode
<1>2. RootInv /\ [Next]_vars => [P!Next]_(P!vars)
  <2> SUFFICES ASSUME RootInv, [Next]_vars PROVE P!Next \/ UNCHANGED P!vars
    OBVIOUS
  <2>1. CASE UNCHANGED vars
    BY <2>1 DEF vars, P!vars
  <2>2. ASSUME NEW bytes \in Chunks, Feed(bytes) PROVE P!Next
    BY <2>2, FeedMaps DEF P!Next
  <2>3. CASE Finish
    BY <2>3, FinishMaps DEF P!Next
  <2>4. CASE Drive
    BY <2>4, DriveMaps DEF P!Next
  <2> QED BY <2>1, <2>2, <2>3, <2>4 DEF Next, Rest
<1> QED BY <1>1, <1>2, RootInvariant, PTL DEF Spec
=============================================================================
