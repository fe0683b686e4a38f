----------------------------- MODULE ScanProofs -----------------------------
EXTENDS Scan, CarryProofs

----------------------------------------------------------------------------

IInv == TypeOK /\ ZoneDiscipline /\ AccumulatorAgrees

LEMMA DeadResults ==
  /\ \A at, kind : <<"Fault", at, kind>> # <<"More">>
  /\ <<"Stopped">> # <<"More">>
  OBVIOUS

LEMMA ReturnFacts ==
  ASSUME NEW result, Return(result)
  PROVE  pc' = "idle" /\ terminal' \in BOOLEAN /\ (result # <<"More">> => terminal' = TRUE)
<1>1. pc' = "idle" /\ terminal' = (result # <<"More">>)
  BY Zenon DEF Return
<1> QED BY <1>1

LEMMA HaltFacts ==
  ASSUME NEW at, NEW kind, Halt(at, kind) PROVE pc' = "idle" /\ terminal' = TRUE
  BY DeadResults, ReturnFacts DEF Halt

LEMMA AnsweredFacts ==
  ASSUME pc = "drive", terminal = TRUE, Answered
  PROVE  terminal' = TRUE /\ pc' \in {"drive", "idle"}
  BY DeadResults, ReturnFacts DEF Answered, Unwind

LEMMA TypeFacts ==
  ASSUME TypeOK
  PROVE  /\ Cursor \in Cursors /\ Cursor.off = off /\ Cursor.chunk = chunk
         /\ Cursor.carry = carry /\ Width(Cursor) = Len(carry.buf) /\ Width(Cursor) \in Nat
         /\ zone \in Nat /\ MaxOff \in Nat /\ zone <= MaxOff /\ off \in Nat
         /\ stack \in Seq(Extents) /\ Len(stack) \in Nat /\ Len(chunk) \in Nat
  BY ScanAssumption DEF TypeOK, Cursor, CursorAt, Cursors, Width

LEMMA DeadStep ==
  ASSUME pc' = "idle", terminal' = TRUE, TypeOK', CursorInside', ZonesNested'
  PROVE  IInv'
  BY DEF IInv, ZoneDiscipline, ModeAdmitted, EndpointsUnstraddled, EndpointsResolved,
         Armed, AccumulatorAgrees, Live

\* A pass that leaves the machine between two records.
LEMMA QuietStep ==
  ASSUME pc' \in {"drive", "idle"}, terminal' = TRUE, mode' = HeadMode, carry' = EmptyCarry,
         TypeOK', CursorInside', ZonesNested'
  PROVE  IInv'
<1>1. Width(Cursor)' = 0
  BY EmptyFacts DEF Width, Cursor, CursorAt
<1>2. mode'.k = "Head"
  BY DEF HeadMode
<1>3. ModeAdmitted'
  BY <1>1, <1>2, WindowAssumption DEF ModeAdmitted, Windows
<1>4. EndpointsUnstraddled'
  BY <1>1, <1>2 DEF EndpointsUnstraddled, EndpointDue
<1>5. AccumulatorAgrees'
  BY EmptyFacts DEF AccumulatorAgrees
<1>6. EndpointsResolved' /\ Armed'
  BY DEF EndpointsResolved, Armed
<1> QED BY <1>3, <1>4, <1>5, <1>6 DEF IInv, ZoneDiscipline

LEMMA CursorMoves ==
  ASSUME TypeOK, CursorInside, zone' = zone,
         NEW d \in Cursors, Put(d), d.off <= zone,
         d.off + Len(d.chunk) = off + Len(chunk)
  PROVE  /\ off' \in Nat /\ chunk' \in Seq(Byte)
         /\ carry' \in [acc : Seq(0..127), buf : Seq(Byte)]
         /\ CursorInside' /\ zone' \in 0..MaxOff
         /\ off' = d.off /\ carry' = d.carry /\ chunk' = d.chunk
         /\ Width(Cursor)' = Width(d)
<1>1. off' = d.off /\ carry' = d.carry /\ chunk' = d.chunk
  BY DEF Put
<1>2. d.off \in Nat /\ d.chunk \in Seq(Byte) /\ d.carry \in [acc : Seq(0..127), buf : Seq(Byte)]
  BY DEF Cursors
<1>3. zone \in 0..MaxOff /\ off + Len(chunk) < MaxOff
  BY DEF TypeOK, CursorInside
<1>4. CursorInside'
  BY <1>1, <1>3 DEF CursorInside
<1>5. Width(Cursor)' = Width(d)
  BY <1>1 DEF Width, Cursor, CursorAt
<1> QED BY <1>1, <1>2, <1>3, <1>4, <1>5

LEMMA FrontFacts ==
  ASSUME NEW S, NEW t \in Seq(S), Len(t) > 0
  PROVE  /\ SubSeq(t, 1, Len(t) - 1) \in Seq(S) /\ Len(SubSeq(t, 1, Len(t) - 1)) = Len(t) - 1
         /\ \A i \in 1..(Len(t) - 1) : SubSeq(t, 1, Len(t) - 1)[i] = t[i]
<1>1. Len(t) \in Nat
  BY LenProperties
<1>2. \A i \in 1..(Len(t) - 1) : t[i] \in S
  BY <1>1, ElementOfSeq
<1> DEFINE n == Len(t) - 1
<1>3. n \in Nat /\ 1 \in Int /\ n \in Int /\ n - 1 + 1 = n
  BY <1>1
<1>4. \A i \in 1..n : t[i] \in S
  BY <1>2
<1> HIDE DEF n
<1>5. /\ SubSeq(t, 1, n) \in Seq(S) /\ Len(SubSeq(t, 1, n)) = IF 1 <= n THEN n - 1 + 1 ELSE 0
      /\ \A i \in 1..(n - 1 + 1) : SubSeq(t, 1, n)[i] = t[1 + i - 1]
  BY <1>3, <1>4, SubSeqProperties
<1>6. \A i \in 1..n : 1 + i - 1 = i
  OBVIOUS
<1>7. SubSeq(t, 1, n) \in Seq(S) /\ Len(SubSeq(t, 1, n)) = n
      /\ \A i \in 1..n : SubSeq(t, 1, n)[i] = t[i]
  BY <1>3, <1>5, <1>6
<1> QED BY <1>7 DEF n

LEMMA NestedPush ==
  ASSUME NEW z \in 0..MaxOff, NEW s \in Seq(Extents), Nested(z, s), NEW e \in Extents, NEW y \in Nat,
         \/ e.k = "Group" /\ y = z
         \/ e.k = "Len" /\ e.prev_zone = z /\ y <= z /\ y < MaxOff
  PROVE  Nested(y, Append(s, e)) /\ Append(s, e) \in Seq(Extents)
<1> DEFINE t == Append(s, e)
<1>0. z \in Nat /\ MaxOff \in Nat /\ z <= MaxOff
  BY ScanAssumption
<1>1. /\ Len(s) \in Nat /\ t \in Seq(Extents) /\ Len(t) = Len(s) + 1
      /\ \A i \in 1..Len(s) : t[i] = s[i]
      /\ t[Len(s) + 1] = e
  OBVIOUS
<1> HIDE DEF t
<1>2. \A i \in 1..Len(s) : IsLen(t, i) <=> IsLen(s, i)
  BY <1>1 DEF IsLen
<1>3. IsLen(t, Len(s) + 1) <=> e.k = "Len"
  BY <1>1 DEF IsLen
<1>4. \A i \in 1..(Len(s) + 1) : NoLenBelow(t, i) <=> NoLenBelow(s, i)
  BY <1>1, <1>2 DEF NoLenBelow
<1>5. NoLenBelow(t, Len(t) + 1) <=> (NoLenBelow(s, Len(s) + 1) /\ e.k # "Len")
  BY <1>1, <1>2, <1>3 DEF NoLenBelow
<1>6. \A i \in 1..Len(s) : IsLen(s, i) => s[i].prev_zone \in Nat
  BY <1>0, ElementOfSeq DEF IsLen, Extents
<1>7. y = MaxOff <=> NoLenBelow(t, Len(t) + 1)
  BY <1>0, <1>5 DEF Nested
<1>8. ASSUME NEW i \in 1..Len(t), IsLen(t, i)
      PROVE  /\ y <= t[i].prev_zone
             /\ \A j \in 1..(i - 1) : IsLen(t, j) => t[i].prev_zone <= t[j].prev_zone
             /\ t[i].prev_zone = MaxOff <=> NoLenBelow(t, i)
  <2>1. CASE i = Len(s) + 1
    <3>1. t[i] = e /\ e.k = "Len" /\ e.prev_zone = z /\ y <= z
      BY <1>1, <1>3, <1>8, <2>1
    <3>2. \A j \in 1..(i - 1) : IsLen(t, j) => z <= t[j].prev_zone
      BY <1>1, <1>2, <2>1 DEF Nested
    <3>3. z = MaxOff <=> NoLenBelow(t, i)
      BY <1>1, <1>4, <2>1 DEF Nested
    <3> QED BY <3>1, <3>2, <3>3
  <2>2. CASE i \in 1..Len(s)
    <3>1. t[i] = s[i] /\ IsLen(s, i) /\ s[i].prev_zone \in Nat
      BY <1>1, <1>2, <1>6, <1>8, <2>2
    <3>2. z <= s[i].prev_zone /\ (s[i].prev_zone = MaxOff <=> NoLenBelow(s, i))
      BY <2>2, <3>1 DEF Nested
    <3>3. \A j \in 1..(i - 1) : IsLen(s, j) => s[i].prev_zone <= s[j].prev_zone
      BY <2>2, <3>1 DEF Nested
    <3>4. \A j \in 1..(i - 1) : IsLen(t, j) => t[i].prev_zone <= t[j].prev_zone
      BY <1>1, <1>2, <2>2, <3>1, <3>3
    <3>5. y <= z
      BY <1>0
    <3>6. y <= s[i].prev_zone
      BY <1>0, <3>1, <3>2, <3>5
    <3> QED BY <1>1, <1>4, <2>2, <3>1, <3>2, <3>4, <3>6
  <2> QED BY <1>1, <2>1, <2>2
<1> QED BY <1>1, <1>7, <1>8 DEF Nested, t

LEMMA NestedPop ==
  ASSUME NEW z \in 0..MaxOff, NEW t \in Seq(Extents), t # << >>, Nested(z, t), NEW y,
         \/ t[Len(t)].k = "Group" /\ y = z
         \/ t[Len(t)].k = "Len" /\ y = t[Len(t)].prev_zone
  PROVE  LET s == SubSeq(t, 1, Len(t) - 1) IN
         s \in Seq(Extents) /\ Nested(y, s) /\ y \in 0..MaxOff /\ z <= y
<1> DEFINE s == SubSeq(t, 1, Len(t) - 1)
<1>0. z \in Nat /\ MaxOff \in Nat /\ z <= MaxOff
  BY ScanAssumption
<1>1. Len(t) \in Nat /\ Len(t) > 0
  BY EmptySeq
<1>2. /\ s \in Seq(Extents) /\ Len(s) = Len(t) - 1
      /\ \A i \in 1..Len(s) : s[i] = t[i]
  BY <1>1, FrontFacts
<1> HIDE DEF s
<1>3. t[Len(t)] \in Extents
  BY <1>1, ElementOfSeq
<1>4. y \in 0..MaxOff
  BY <1>3 DEF Extents
<1>5. \A i \in 1..Len(s) : IsLen(s, i) <=> IsLen(t, i)
  BY <1>2 DEF IsLen
<1>6. \A i \in 1..Len(t) : NoLenBelow(s, i) <=> NoLenBelow(t, i)
  BY <1>1, <1>2, <1>5 DEF NoLenBelow
<1>7. \A i \in 1..Len(t) : IsLen(t, i) => t[i].prev_zone \in Nat
  BY <1>0, ElementOfSeq DEF IsLen, Extents
<1>8. z <= y
  <2>1. CASE t[Len(t)].k = "Len" /\ y = t[Len(t)].prev_zone
    BY <1>1, <2>1 DEF Nested, IsLen
  <2> QED BY <1>0, <2>1
<1>9. y = MaxOff <=> NoLenBelow(s, Len(s) + 1)
  <2>1. CASE t[Len(t)].k = "Group" /\ y = z
    <3>1. NoLenBelow(t, Len(t) + 1) <=> NoLenBelow(t, Len(t))
      BY <1>1, <2>1 DEF NoLenBelow, IsLen
    <3> QED BY <1>1, <1>2, <1>6, <2>1, <3>1 DEF Nested
  <2>2. CASE t[Len(t)].k = "Len" /\ y = t[Len(t)].prev_zone
    <3>1. y = MaxOff <=> NoLenBelow(t, Len(t))
      BY <1>1, <2>2 DEF Nested, IsLen
    <3> QED BY <1>1, <1>2, <1>6, <3>1
  <2> QED BY <2>1, <2>2
<1>10. ASSUME NEW i \in 1..Len(s), IsLen(s, i)
       PROVE  /\ y <= s[i].prev_zone
              /\ \A j \in 1..(i - 1) : IsLen(s, j) => s[i].prev_zone <= s[j].prev_zone
              /\ s[i].prev_zone = MaxOff <=> NoLenBelow(s, i)
  <2>1. i \in 1..Len(t) /\ i < Len(t) /\ s[i] = t[i] /\ IsLen(t, i)
    BY <1>1, <1>2, <1>5, <1>10
  <2>2. /\ z <= t[i].prev_zone
        /\ \A j \in 1..(i - 1) : IsLen(t, j) => t[i].prev_zone <= t[j].prev_zone
        /\ t[i].prev_zone = MaxOff <=> NoLenBelow(t, i)
    BY <2>1 DEF Nested
  <2>3. \A j \in 1..(i - 1) : IsLen(s, j) => s[i].prev_zone <= s[j].prev_zone
    BY SMTT(60), <1>2, <1>5, <2>1, <2>2
  <2>4. y <= t[i].prev_zone
    <3>1. CASE t[Len(t)].k = "Len" /\ y = t[Len(t)].prev_zone
      BY <1>1, <2>1, <3>1 DEF Nested, IsLen
    <3> QED BY <2>2, <3>1
  <2> QED BY <1>6, <2>1, <2>2, <2>3, <2>4
<1> QED BY <1>2, <1>4, <1>8, <1>9, <1>10 DEF Nested, s

----------------------------------------------------------------------------
(* The word handlers, from any cursor the arm reached.                     *)

\* A cursor within the current pass.
Reached(c) ==
  /\ c \in Cursors /\ c.off <= zone
  /\ c.off + Len(c.chunk) = off + Len(chunk)

LEMMA HaltStep ==
  ASSUME IInv, pc = "drive", NEW d, Reached(d), Put(d), UNCHANGED <<zone, mode, stack>>,
         pc' = "idle", terminal' = TRUE
  PROVE  IInv'
<1>1. TypeOK /\ CursorInside /\ ZonesNested
  BY DEF IInv, ZoneDiscipline
<1>2. TypeOK' /\ CursorInside'
  BY <1>1, CursorMoves DEF TypeOK, Reached
<1>3. ZonesNested'
  BY <1>1 DEF ZonesNested
<1> QED BY <1>2, <1>3, DeadStep

\* A word suspended at the chunk's end.
LEMMA SuspendStep ==
  ASSUME IInv, pc = "drive", NEW d, Reached(d), Put(d), UNCHANGED <<zone, stack>>,
         d.off < zone, Return(<<"More">>), mode' \in Modes,
         \/ /\ \/ mode'.k = "Head" /\ Width(d) < TagWindow.cap
               \/ mode'.k = "VarintValue" /\ Width(d) < ValueWindow.cap
               \/ mode'.k = "LenWord" /\ Width(d) < LenWindow.cap
            /\ d.carry.acc = Digits(d.carry.buf)
         \/ /\ mode'.k = "FixedTail" /\ Width(d) < Need(mode'.kind)
            /\ d.off + Need(mode'.kind) - Width(d) <= zone
  PROVE  IInv'
<1>1. TypeOK /\ CursorInside /\ ZonesNested
  BY DEF IInv, ZoneDiscipline
<1>2. pc' = "idle" /\ terminal' \in BOOLEAN
  BY ReturnFacts
<1>3. /\ off' = d.off /\ carry' = d.carry /\ zone' = zone /\ Width(Cursor)' = Width(d)
      /\ CursorInside'
  BY <1>1, CursorMoves DEF Reached
<1>4. TypeOK'
  BY <1>1, <1>2, CursorMoves DEF TypeOK, Reached
<1>5. ZonesNested'
  BY <1>1 DEF ZonesNested
<1>6. ModeAdmitted'
  BY <1>3 DEF ModeAdmitted
<1>7. EndpointsUnstraddled' /\ EndpointsResolved'
  <2>1. off' < zone' /\ off' # zone'
    BY <1>1, <1>3 DEF TypeOK, Reached, Cursors
  <2> QED BY <2>1 DEF EndpointsUnstraddled, EndpointsResolved
<1>8. AccumulatorAgrees' /\ Armed'
  BY <1>2, <1>3 DEF AccumulatorAgrees, Armed
<1> QED BY <1>3, <1>4, <1>5, <1>6, <1>7, <1>8 DEF IInv, ZoneDiscipline

LEMMA UnfinishedFacts ==
  ASSUME NEW s, NEW stage, Unfinished(s, stage)
  PROVE  \/ s.verdict = "More" /\ Return(<<"More">>)
         \/ s.verdict # "More" /\ pc' = "idle" /\ terminal' = TRUE
  BY HaltFacts DEF Unfinished

LEMMA ValueStep ==
  ASSUME IInv, pc = "drive", NEW f \in Nat, NEW c, Reached(c), VarintValue(f, c),
         Width(c) < ValueWindow.cap, c.carry.acc = Digits(c.carry.buf)
  PROVE  IInv'
<1>1. TypeOK /\ CursorInside /\ ZonesNested /\ terminal = TRUE
  BY DEF IInv, ZoneDiscipline, Armed, TypeOK
<1>2. PICK s \in Step(c, ValueWindow, zone, Standard) :
        /\ Put(s.cursor)
        /\ \/ /\ s.verdict = "Done"
              /\ mode' = HeadMode
              /\ Event(<<"varint", f, Value(s.value)>>)
           \/ /\ s.verdict # "Done"
              /\ mode' = IF s.verdict = "More" THEN Waiting("VarintValue", f) ELSE mode
              /\ Unfinished(s, <<"Value", f>>)
              /\ UNCHANGED events
  BY DEF VarintValue
<1>3. UNCHANGED <<zone, stack>>
  BY DEF VarintValue
<1>4. c \in Cursors /\ c.off <= zone /\ zone \in Nat /\ ValueWindow \in Windows
  BY <1>1, TypeFacts, WindowAssumption DEF Reached
<1>5. /\ Reached(s.cursor)
      /\ s.verdict = "Done" => s.cursor.carry = EmptyCarry
      /\ s.verdict = "More" => s.cursor.off < zone /\ Width(s.cursor) < ValueWindow.cap
           /\ s.cursor.carry.acc = Digits(s.cursor.carry.buf)
  BY <1>4, StepFacts DEF Reached
<1>6. CASE s.verdict = "Done" /\ mode' = HeadMode /\ Event(<<"varint", f, Value(s.value)>>)
  <2>1. terminal' = TRUE /\ pc' \in {"drive", "idle"}
    BY <1>1, <1>6, AnsweredFacts DEF Event
  <2>2. CursorInside' /\ carry' = EmptyCarry
    BY <1>1, <1>2, <1>3, <1>5, <1>6, CursorMoves DEF Reached
  <2>3. TypeOK'
    BY <1>1, <1>2, <1>3, <1>5, <1>6, <2>1, CursorMoves DEF TypeOK, Reached, Modes
  <2>4. ZonesNested'
    BY <1>1, <1>3 DEF ZonesNested
  <2> QED BY <1>6, <2>1, <2>2, <2>3, <2>4, QuietStep
<1>7. CASE s.verdict # "Done" /\ Unfinished(s, <<"Value", f>>)
           /\ mode' = IF s.verdict = "More" THEN Waiting("VarintValue", f) ELSE mode
  <2>1. CASE s.verdict = "More" /\ Return(<<"More">>)
    <3>1. mode' \in Modes /\ mode'.k = "VarintValue"
      BY <1>7, <2>1 DEF Waiting, Modes, Field
    <3> QED BY <1>2, <1>3, <1>5, <2>1, <3>1, SuspendStep
  <2>2. CASE s.verdict # "More" /\ pc' = "idle" /\ terminal' = TRUE
    BY <1>2, <1>3, <1>5, <1>7, <2>2, HaltStep
  <2> QED BY <1>7, <2>1, <2>2, UnfinishedFacts
<1> QED BY <1>2, <1>6, <1>7

LEMMA LenStep ==
  ASSUME IInv, pc = "drive", NEW f \in Nat, NEW c, Reached(c), LenWord(f, c),
         Width(c) < LenWindow.cap, c.carry.acc = Digits(c.carry.buf)
  PROVE  IInv'
<1>1. TypeOK /\ CursorInside /\ ZonesNested /\ terminal = TRUE
  BY DEF IInv, ZoneDiscipline, Armed, TypeOK
<1> PICK s \in Step(c, LenWindow, zone, Standard) :
        LET len == Length(s.value)
            at  == s.cursor.off
        IN  /\ Put(s.cursor)
            /\ \/ /\ s.verdict # "Done"
                  /\ mode' = IF s.verdict = "More" THEN Waiting("LenWord", f) ELSE mode
                  /\ Unfinished(s, <<"LenPrefix", f>>)
                  /\ UNCHANGED <<zone, stack, events>>
               \/ /\ s.verdict = "Done" /\ ~LenFits(at, len)
                  /\ Halt(at, <<IF zone # MaxOff THEN "LenOverrun" ELSE "LenUnsatisfiable",
                                f, len>>)
                  /\ UNCHANGED <<zone, mode, stack, events>>
               \/ /\ s.verdict = "Done" /\ LenFits(at, len)
                  /\ AskLen(f, len, at)
  BY DEF LenWord
<1> DEFINE len == Length(s.value)
           at  == s.cursor.off
<1>2. Put(s.cursor)
  OBVIOUS
<1>3. c \in Cursors /\ c.off <= zone /\ zone \in Nat /\ LenWindow \in Windows /\ MaxOff \in Nat
  BY <1>1, TypeFacts, WindowAssumption DEF Reached
<1>4. /\ Reached(s.cursor) /\ s.value \in Seq(0..127)
      /\ s.verdict = "Done" => s.cursor.carry = EmptyCarry
      /\ s.verdict = "More" => s.cursor.off < zone /\ Width(s.cursor) < LenWindow.cap
           /\ s.cursor.carry.acc = Digits(s.cursor.carry.buf)
  BY <1>3, StepFacts DEF Reached
<1>5. len \in Nat /\ at \in Nat /\ at <= zone
  BY <1>4, WordTypes DEF Reached, Cursors
<1>6. CASE /\ s.verdict # "Done" /\ Unfinished(s, <<"LenPrefix", f>>) /\ UNCHANGED <<zone, stack>>
           /\ mode' = IF s.verdict = "More" THEN Waiting("LenWord", f) ELSE mode
  <2>1. CASE s.verdict = "More" /\ Return(<<"More">>)
    <3>1. mode' \in Modes /\ mode'.k = "LenWord"
      BY <1>6, <2>1 DEF Waiting, Modes, Field
    <3> QED BY <1>2, <1>4, <1>6, <2>1, <3>1, SuspendStep
  <2>2. CASE s.verdict # "More" /\ pc' = "idle" /\ terminal' = TRUE
    BY <1>2, <1>4, <1>6, <2>2, HaltStep
  <2> QED BY <1>6, <2>1, <2>2, UnfinishedFacts
<1>7. CASE UNCHANGED <<zone, mode, stack>> /\ pc' = "idle" /\ terminal' = TRUE
  BY <1>2, <1>4, <1>7, HaltStep
<1>8. CASE s.verdict = "Done" /\ LenFits(at, len) /\ AskLen(f, len, at)
  <2>1. at + len <= zone /\ at + len # MaxOff /\ at + len < MaxOff
    <3>1. len <= zone - at /\ len # MaxOff - at
      BY <1>8 DEF LenFits
    <3>2. zone <= MaxOff
      BY <1>1, TypeFacts
    <3> QED BY <1>3, <1>5, <3>1, <3>2
  <2>2. carry' = EmptyCarry /\ off' = at
    BY <1>2, <1>4, <1>8 DEF Put
  <2>3. ASSUME zone' = zone
        PROVE  CursorInside' /\ off' \in Nat /\ chunk' \in Seq(Byte)
               /\ carry' \in [acc : Seq(0..127), buf : Seq(Byte)]
    BY <1>1, <1>2, <1>4, <2>3, CursorMoves DEF Reached
  <2>4. CASE UNCHANGED <<zone, mode, stack>> /\ pc' = "idle" /\ terminal' = TRUE
    BY <1>2, <1>4, <2>4, HaltStep
  <2>5. CASE /\ stack' = Append(stack, LenExtent(zone, f)) /\ zone' = at + len
             /\ mode' = HeadMode /\ UNCHANGED <<pc, terminal>>
    <3>1. LenExtent(zone, f) \in Extents /\ LenExtent(zone, f).k = "Len"
          /\ LenExtent(zone, f).prev_zone = zone /\ zone \in 0..MaxOff
      BY <1>1 DEF LenExtent, Extents, Field, TypeOK
    <3>2. stack' \in Seq(Extents) /\ ZonesNested' /\ zone' \in 0..MaxOff
      <4>1. Nested(zone, stack) /\ stack \in Seq(Extents) /\ at + len \in Nat
        BY SMTT(60), <1>1, <1>5 DEF ZonesNested, TypeOK
      <4>2. Nested(at + len, Append(stack, LenExtent(zone, f)))
            /\ Append(stack, LenExtent(zone, f)) \in Seq(Extents)
        BY <2>1, <3>1, <4>1, NestedPush
      <4> QED BY SMTT(60), <1>3, <1>5, <2>1, <2>5, <4>2 DEF ZonesNested
    <3>3. /\ off' \in Nat /\ chunk' \in Seq(Byte)
          /\ carry' \in [acc : Seq(0..127), buf : Seq(Byte)]
          /\ off' + Len(chunk') < MaxOff
      BY <1>1, <1>2, <1>4 DEF Put, Reached, Cursors, CursorInside
    <3>4. CursorInside'
      BY <1>5, <2>2, <2>5, <3>3 DEF CursorInside
    <3>5. TypeOK'
      BY <1>1, <2>5, <3>2, <3>3 DEF TypeOK, Modes
    <3> QED BY <1>1, <2>2, <2>5, <3>2, <3>4, <3>5, QuietStep
  <2>6. ASSUME NEW k \in {"Forward", "Swallow"},
               mode' = Counting(k, len), UNCHANGED <<zone, stack, pc, terminal>>
        PROVE  IInv'
    <3>1. ZonesNested'
      BY <1>1, <2>6 DEF ZonesNested
    <3>2. CASE len = 0
      <4>1. mode' = HeadMode
        BY <2>6, <3>2 DEF Counting
      <4>2. TypeOK'
        BY <1>1, <2>3, <2>6, <4>1 DEF TypeOK, Modes
      <4> QED BY <1>1, <2>2, <2>3, <2>6, <3>1, <4>1, <4>2, QuietStep
    <3>3. CASE len # 0
      <4>1. mode' = [k |-> k, remaining |-> len] /\ len \in Nat \ {0}
        BY <1>5, <2>6, <3>3 DEF Counting
      <4>2. mode' \in Modes /\ mode'.k = k /\ mode'.remaining = len
        BY <4>1 DEF Modes
      <4>3. TypeOK'
        BY <1>1, <2>3, <2>6, <4>2 DEF TypeOK
      <4>4. Width(Cursor)' = 0
        BY <2>2, EmptyFacts DEF Width, Cursor, CursorAt
      <4>5. ModeAdmitted'
        BY <2>1, <2>2, <2>6, <4>2, <4>4 DEF ModeAdmitted
      <4>6. off' # zone'
        BY <1>3, <1>5, <2>1, <2>2, <2>6, <4>1
      <4>7. EndpointsUnstraddled' /\ EndpointsResolved' /\ Armed' /\ AccumulatorAgrees'
        BY <1>1, <2>2, <2>6, <4>2, <4>6, EmptyFacts
        DEF EndpointsUnstraddled, EndpointsResolved, Armed, AccumulatorAgrees
      <4> QED BY <2>3, <2>6, <3>1, <4>3, <4>5, <4>7 DEF IInv, ZoneDiscipline
    <3> QED BY <3>2, <3>3
  <2> QED
    <3>1. ASSUME NEW dd \in Dispositions,
                 CASE dd = "Commit"      -> Commit(f, len, at)
                   [] dd = "OpaqueBytes" -> Opaque("Forward", len)
                   [] dd = "OpaqueSkip"  -> Opaque("Swallow", len)
          PROVE  IInv'
      <4>1. CASE Commit(f, len, at)
        BY <2>4, <2>5, <4>1, HaltFacts DEF Commit
      <4>2. CASE Opaque("Forward", len)
        BY <2>6, <4>2 DEF Opaque
      <4>3. CASE Opaque("Swallow", len)
        BY <2>6, <4>3 DEF Opaque
      <4>4. dd \in {"Commit", "OpaqueBytes", "OpaqueSkip"}
        BY ScanAssumption
      <4> QED BY <3>1, <4>1, <4>2, <4>3, <4>4
    <3>2. CASE /\ Return(<<"Stopped">>) \/ Unwind
               /\ UNCHANGED <<zone, mode, stack, events>>
      BY <1>1, <2>4, <3>2, DeadResults, ReturnFacts DEF Unwind
    <3> QED BY <1>8, <3>1, <3>2 DEF AskLen
<1> QED BY <1>6, <1>7, <1>8, HaltFacts

LEMMA FixedStep ==
  ASSUME IInv, pc = "drive", NEW f \in Nat, NEW kind \in FixedKinds, NEW c, Reached(c),
         Width(c) < Need(kind), c.off + Need(kind) - Width(c) <= zone,
         FixedPayload(f, kind, c)
  PROVE  IInv'
<1> DEFINE n == Need(kind)
           d == Collected(c, zone, n)
<1>1. TypeOK /\ CursorInside /\ ZonesNested /\ terminal = TRUE
  BY DEF IInv, ZoneDiscipline, Armed, TypeOK
<1>2. n \in {4, 8}
  BY DEF Need
<1>3. c \in Cursors /\ zone \in Nat
  BY <1>1, TypeFacts DEF Reached
<1>4. /\ d \in Cursors /\ d.off + Len(d.chunk) = c.off + Len(c.chunk) /\ d.off <= zone
      /\ CollectVerdict(d, zone, n) = "More" =>
           Width(d) < n /\ d.off + n - Width(d) <= zone /\ d.off < zone
  BY <1>2, <1>3, CollectFacts
<1>5. Reached(d)
  BY <1>4 DEF Reached
<1>6. UNCHANGED <<zone, stack>>
  BY DEF FixedPayload
<1>7. \/ /\ CollectVerdict(d, zone, n) = "Done"
         /\ Put(Clear(d))
         /\ Event(<<"fixed", f, kind, d.carry.buf>>)
         /\ mode' = IF Unwinding THEN mode ELSE HeadMode
      \/ /\ CollectVerdict(d, zone, n) = "More"
         /\ Put(d)
         /\ mode' = FixedTail(f, kind)
         /\ Return(<<"More">>)
  BY DEF FixedPayload
<1> HIDE DEF d, n
<1>8. CASE /\ CollectVerdict(d, zone, n) = "More" /\ Put(d)
           /\ mode' = FixedTail(f, kind) /\ Return(<<"More">>)
  <2>1. mode' \in Modes /\ mode'.k = "FixedTail" /\ mode'.kind = kind
    BY <1>8 DEF FixedTail, Modes, Field
  <2> QED BY <1>4, <1>5, <1>6, <1>8, <2>1, SuspendStep DEF n
<1>9. CASE /\ Put(Clear(d)) /\ Event(<<"fixed", f, kind, d.carry.buf>>)
           /\ mode' = IF Unwinding THEN mode ELSE HeadMode
  <2>1. Clear(d) \in Cursors /\ Clear(d).off = d.off /\ Clear(d).chunk = d.chunk
        /\ Clear(d).carry = EmptyCarry
    BY <1>4, EmptyFacts DEF Clear, Cursors
  <2>2. Reached(Clear(d))
    BY <1>5, <2>1 DEF Reached
  <2>3. terminal' = TRUE /\ pc' \in {"drive", "idle"}
    BY <1>1, <1>9, AnsweredFacts DEF Event
  <2>4. CursorInside' /\ carry' = EmptyCarry
    BY <1>1, <1>6, <1>9, <2>1, <2>2, CursorMoves DEF Reached
  <2>5. mode' \in Modes
    BY <1>1, <1>9 DEF TypeOK, Modes
  <2>6. TypeOK'
    BY <1>1, <1>6, <1>9, <2>2, <2>3, <2>5, CursorMoves DEF TypeOK, Reached
  <2>7. ZonesNested'
    BY <1>1, <1>6 DEF ZonesNested
  <2>8. CASE Unwinding
    BY <2>3, <2>4, <2>6, <2>7, <2>8, DeadStep DEF Unwinding
  <2>9. CASE ~Unwinding
    BY <1>9, <2>3, <2>4, <2>6, <2>7, <2>9, QuietStep
  <2> QED BY <2>8, <2>9
<1> QED BY <1>7, <1>8, <1>9

----------------------------------------------------------------------------
(* One lemma per action.                                                   *)

LEMMA InitStep == Init => IInv
<1> SUFFICES ASSUME Init PROVE IInv
  OBVIOUS
<1>1. /\ off = 0 /\ zone = MaxOff /\ carry = EmptyCarry /\ mode = HeadMode /\ stack = << >>
      /\ terminal = FALSE /\ pc = "idle" /\ chunk = << >>
  BY DEF Init
<1>2. MaxOff \in Nat /\ MaxOff > 0
  BY ScanAssumption
<1>3. Len(chunk) = 0 /\ Len(stack) = 0 /\ << >> \in Seq(Byte) /\ << >> \in Seq(Extents)
  BY <1>1, EmptySeq
<1>4. TypeOK
  <2>1. carry \in [acc : Seq(0..127), buf : Seq(Byte)]
    BY <1>1, EmptyFacts
  <2>2. mode \in Modes
    BY <1>1 DEF Modes
  <2>3. off \in Nat /\ zone \in 0..MaxOff
    BY <1>1, <1>2
  <2>4. /\ stack \in Seq(Extents) /\ chunk \in Seq(Byte) /\ terminal \in BOOLEAN
        /\ pc \in {"idle", "drive", "gone"}
    BY <1>1, <1>3
  <2> QED BY <2>1, <2>2, <2>3, <2>4 DEF TypeOK
<1>5. CursorInside
  BY <1>1, <1>2, <1>3 DEF CursorInside
<1>6. ZonesNested
  BY <1>1, <1>3 DEF ZonesNested, Nested, NoLenBelow
<1>7. mode.k = "Head" /\ Width(Cursor) = 0
  BY <1>1, EmptyFacts DEF HeadMode, Width, Cursor, CursorAt
<1>8. ModeAdmitted
  BY <1>7, WindowAssumption DEF ModeAdmitted, Windows
<1>9. off # zone /\ off < zone
  BY <1>1, <1>2
<1>10. AccumulatorAgrees
  BY <1>1, EmptyFacts DEF AccumulatorAgrees
<1> QED BY <1>1, <1>4, <1>5, <1>6, <1>8, <1>9, <1>10
        DEF IInv, ZoneDiscipline, EndpointsUnstraddled, EndpointsResolved, Armed

LEMMA FeedStep ==
  ASSUME IInv, NEW bytes \in Chunks, Feed(bytes) PROVE IInv'
<1>1. PICK n \in 0..MaxChunk : bytes \in [1..n -> Bytes]
  BY DEF Chunks
<1>2. bytes \in Seq(Byte) /\ Len(bytes) \in Nat
  <2>1. n \in Nat /\ bytes \in [1..n -> Byte]
    BY <1>1, ScanAssumption
  <2> QED BY <2>1, FunctionIsSeq
<1>3. TypeOK /\ CursorInside /\ ZonesNested /\ ModeAdmitted /\ EndpointsResolved /\ AccumulatorAgrees
  BY DEF IInv, ZoneDiscipline
<1>4. /\ pc = "idle" /\ ~terminal /\ pc' = "drive" /\ terminal' = TRUE /\ chunk' = bytes
      /\ UNCHANGED <<off, zone, carry, mode, stack>>
      /\ Len(bytes) <= MaxOff - 1 - off
  BY DEF Feed, Admits
<1>5. TypeOK'
  BY <1>2, <1>3, <1>4 DEF TypeOK
<1>6. CursorInside'
  <2>1. off \in Nat /\ MaxOff \in Nat /\ off <= zone
    BY <1>3, TypeFacts DEF CursorInside
  <2>2. off + Len(bytes) < MaxOff
    BY <1>2, <1>4, <2>1
  <2> QED BY <1>4, <2>1, <2>2 DEF CursorInside
<1>7. ZonesNested'
  BY <1>3, <1>4 DEF ZonesNested
<1>8. Width(Cursor)' = Width(Cursor)
  BY <1>4 DEF Width, Cursor, CursorAt
<1>9. ModeAdmitted'
  BY <1>3, <1>4, <1>8 DEF ModeAdmitted, Live
<1>10. AccumulatorAgrees'
  BY <1>3, <1>4 DEF AccumulatorAgrees, Live
<1>11. off' # zone'
  BY <1>3, <1>4, TypeFacts DEF EndpointsResolved
<1> QED BY <1>4, <1>5, <1>6, <1>7, <1>9, <1>10, <1>11
        DEF IInv, ZoneDiscipline, EndpointsUnstraddled, EndpointsResolved, Armed

LEMMA RefuseStep ==
  ASSUME IInv, NEW bytes, RefuseFeed(bytes) PROVE IInv'
<1>1. TypeOK /\ CursorInside /\ ZonesNested
  BY DEF IInv, ZoneDiscipline
<1>2. UNCHANGED <<off, zone, carry, mode, stack, chunk>> /\ pc' = "idle" /\ terminal' = TRUE
  BY HaltFacts DEF RefuseFeed
<1>3. TypeOK' /\ CursorInside' /\ ZonesNested'
  BY <1>1, <1>2 DEF TypeOK, CursorInside, ZonesNested
<1> QED BY <1>2, <1>3, DeadStep

LEMMA FinishStep ==
  ASSUME IInv, Finish PROVE IInv'
<1>1. TypeOK /\ CursorInside /\ ZonesNested
  BY DEF IInv, ZoneDiscipline
<1>2. UNCHANGED <<off, zone, carry, mode, stack, terminal, chunk>> /\ pc' = "gone"
  BY DEF Finish
<1>3. TypeOK' /\ CursorInside' /\ ZonesNested'
  BY <1>1, <1>2 DEF TypeOK, CursorInside, ZonesNested
<1> QED BY <1>2, <1>3
        DEF IInv, ZoneDiscipline, ModeAdmitted, EndpointsUnstraddled, EndpointsResolved,
            Armed, AccumulatorAgrees, Live

\* What the invariant gives at an arm of the loop.
LEMMA DriveFacts ==
  ASSUME IInv, pc = "drive"
  PROVE  /\ TypeOK /\ CursorInside /\ ZonesNested /\ Live /\ terminal = TRUE
         /\ Reached(Cursor) /\ ModeAdmitted /\ Armed
         /\ mode.k = "Head" => mode = HeadMode
         /\ mode.k # "FixedTail" => Cursor.carry.acc = Digits(Cursor.carry.buf)
         /\ ~EndpointDue => off < zone
         /\ EndpointDue => /\ stack # << >> /\ carry = EmptyCarry /\ mode = HeadMode
                          /\ off = zone
<1>1. /\ TypeOK /\ CursorInside /\ ZonesNested /\ Live /\ terminal = TRUE
      /\ ModeAdmitted /\ Armed /\ EndpointsUnstraddled /\ AccumulatorAgrees
  BY DEF IInv, ZoneDiscipline, Armed, TypeOK, Live
<1>2. Reached(Cursor)
  BY <1>1, TypeFacts DEF Reached, CursorInside
<1>3. mode.k = "Head" => mode = HeadMode
  BY <1>1 DEF TypeOK, Modes
<1>4. mode.k # "FixedTail" => Cursor.carry.acc = Digits(Cursor.carry.buf)
  BY <1>1, TypeFacts DEF AccumulatorAgrees
<1>5. ~EndpointDue => off < zone
  <2>1. ~EndpointDue => off # zone
    BY <1>1 DEF EndpointsUnstraddled
  <2> QED BY <1>1, <2>1, TypeFacts DEF CursorInside
<1>6. ASSUME EndpointDue
      PROVE  stack # << >> /\ carry = EmptyCarry /\ mode = HeadMode /\ off = zone
  <2>1. off = zone /\ mode.k = "Head" /\ Width(Cursor) = 0
    BY <1>6 DEF EndpointDue
  <2>2. carry.buf = << >> /\ carry.buf \in Seq(Byte)
    BY <1>1, <2>1, TypeFacts, EmptySeq DEF TypeOK
  <2>3. carry.acc = Digits(carry.buf) /\ carry = [acc |-> carry.acc, buf |-> carry.buf]
    BY <1>1, <2>1 DEF TypeOK, AccumulatorAgrees
  <2>4. carry = EmptyCarry
    BY <2>2, <2>3, EmptyFacts DEF EmptyCarry
  <2>5. zone # MaxOff
    BY <1>1, <2>1, TypeFacts DEF CursorInside
  <2>6. stack # << >>
    <3>1. SUFFICES ASSUME stack = << >> PROVE FALSE
      OBVIOUS
    <3>2. Len(stack) = 0
      BY <3>1, EmptySeq
    <3>3. NoLenBelow(stack, Len(stack) + 1)
      BY <3>2 DEF NoLenBelow
    <3> QED BY <1>1, <2>5, <3>3 DEF ZonesNested, Nested
  <2> QED BY <1>3, <2>1, <2>4, <2>6
<1> QED BY <1>1, <1>2, <1>3, <1>4, <1>5, <1>6

LEMMA ChunkSpentStep ==
  ASSUME IInv, ChunkSpent PROVE IInv'
<1>1. pc = "drive" /\ ~EndpointDue /\ UNCHANGED <<off, zone, carry, mode, stack, chunk>>
      /\ Return(<<"More">>)
  BY DEF ChunkSpent
<1>2. /\ TypeOK /\ CursorInside /\ ZonesNested /\ ModeAdmitted /\ AccumulatorAgrees /\ Live
      /\ off < zone /\ off # zone
  BY <1>1, DriveFacts, TypeFacts DEF IInv
<1>3. pc' = "idle" /\ terminal' \in BOOLEAN
  BY <1>1, ReturnFacts
<1>4. TypeOK' /\ CursorInside' /\ ZonesNested'
  BY <1>1, <1>2, <1>3 DEF TypeOK, CursorInside, ZonesNested
<1>5. Width(Cursor)' = Width(Cursor)
  BY <1>1 DEF Width, Cursor, CursorAt
<1>6. ModeAdmitted' /\ AccumulatorAgrees'
  BY <1>1, <1>2, <1>5 DEF ModeAdmitted, AccumulatorAgrees
<1> QED BY <1>1, <1>2, <1>3, <1>4, <1>6
        DEF IInv, ZoneDiscipline, EndpointsUnstraddled, EndpointsResolved, Armed

\* Closing or opening a container between two records.
LEMMA PopStep ==
  ASSUME IInv, pc = "drive", stack # << >>, mode' = HeadMode, carry' = EmptyCarry,
         stack' = Pop,
         \/ Top.k = "Group" /\ zone' = zone
         \/ Top.k = "Len" /\ zone' = Top.prev_zone,
         NEW d, Reached(d), off' = d.off, chunk' = d.chunk,
         pc' \in {"drive", "idle"}, terminal' = TRUE
  PROVE  IInv'
<1>1. TypeOK /\ CursorInside /\ ZonesNested
  BY DEF IInv, ZoneDiscipline
<1>2. /\ stack \in Seq(Extents) /\ zone \in 0..MaxOff /\ Nested(zone, stack)
  BY <1>1 DEF TypeOK, ZonesNested
<1>3. stack' \in Seq(Extents) /\ Nested(zone', stack') /\ zone' \in 0..MaxOff /\ zone <= zone'
  BY <1>2, NestedPop DEF Top, Pop
<1>4. d.off \in Nat /\ d.chunk \in Seq(Byte) /\ d.off <= zone
      /\ d.off + Len(d.chunk) = off + Len(chunk)
  BY DEF Reached, Cursors
<1>5. CursorInside'
  <2>1. off' <= zone'
    BY <1>2, <1>3, <1>4, ScanAssumption
  <2>2. off' + Len(chunk') < MaxOff
    BY <1>1, <1>4 DEF CursorInside
  <2> QED BY <2>1, <2>2 DEF CursorInside
<1>6. TypeOK'
  BY <1>3, <1>4, EmptyFacts DEF TypeOK, Modes
<1>7. ZonesNested'
  BY <1>3 DEF ZonesNested
<1> QED BY <1>5, <1>6, <1>7, QuietStep

LEMMA PushGroupStep ==
  ASSUME IInv, pc = "drive", NEW f \in Nat, mode' = HeadMode, zone' = zone,
         stack' = Append(stack, GroupExtent(f)),
         NEW d, Reached(d), Put(d), d.carry = EmptyCarry,
         pc' \in {"drive", "idle"}, terminal' = TRUE
  PROVE  IInv'
<1>1. TypeOK /\ CursorInside /\ ZonesNested
  BY DEF IInv, ZoneDiscipline
<1>2. stack \in Seq(Extents) /\ zone \in 0..MaxOff /\ Nested(zone, stack) /\ zone \in Nat
  BY <1>1, TypeFacts DEF TypeOK, ZonesNested
<1>3. GroupExtent(f) \in Extents /\ GroupExtent(f).k = "Group"
  BY DEF GroupExtent, Extents, Field
<1>4. stack' \in Seq(Extents) /\ Nested(zone, stack')
  BY <1>2, <1>3, NestedPush
<1>5. /\ off' \in Nat /\ chunk' \in Seq(Byte) /\ carry' = EmptyCarry
      /\ carry' \in [acc : Seq(0..127), buf : Seq(Byte)]
      /\ CursorInside' /\ zone' \in 0..MaxOff
  BY <1>1, CursorMoves DEF Reached
<1>6. TypeOK'
  BY <1>4, <1>5 DEF TypeOK, Modes
<1>7. ZonesNested'
  BY <1>4 DEF ZonesNested
<1> QED BY <1>5, <1>6, <1>7, QuietStep

LEMMA ExitLenStep ==
  ASSUME IInv, ExitLen PROVE IInv'
<1>1. /\ pc = "drive" /\ EndpointDue /\ Top.k = "Len" /\ stack' = Pop /\ zone' = Top.prev_zone
      /\ UNCHANGED <<off, carry, mode, chunk>> /\ Answered
  BY DEF ExitLen, Event
<1>2. /\ Reached(Cursor) /\ stack # << >> /\ carry = EmptyCarry /\ mode = HeadMode
      /\ terminal = TRUE /\ TypeOK
  BY <1>1, DriveFacts
<1>3. pc' \in {"drive", "idle"} /\ terminal' = TRUE
  BY <1>1, <1>2, AnsweredFacts
<1>4. off' = Cursor.off /\ chunk' = Cursor.chunk
  BY <1>1, <1>2, TypeFacts
<1> QED BY <1>1, <1>2, <1>3, <1>4, PopStep

\* A pass that halts with the cursor where it stood.
LEMMA StandStep ==
  ASSUME IInv, UNCHANGED <<off, zone, carry, mode, stack, chunk>>,
         pc' = "idle", terminal' = TRUE
  PROVE  IInv'
<1>1. TypeOK /\ CursorInside /\ ZonesNested
  BY DEF IInv, ZoneDiscipline
<1>2. TypeOK' /\ CursorInside' /\ ZonesNested'
  BY <1>1 DEF TypeOK, CursorInside, ZonesNested
<1> QED BY <1>2, DeadStep

\* The cursor at a tag: what an unfinished and a completed tag leave.
LEMMA TagFacts ==
  ASSUME IInv, Arm("Head"), NEW s \in Step(Cursor, TagWindow, zone, Standard)
  PROVE  /\ Reached(s.cursor) /\ off < s.cursor.off
         /\ FieldOf(s.value) \in Nat
         /\ s.verdict = "Done" =>
              /\ s.cursor.carry = EmptyCarry /\ Width(s.cursor) = 0
              /\ s.cursor.carry.acc = Digits(s.cursor.carry.buf)
         /\ s.verdict = "More" =>
              /\ s.cursor.off < zone /\ Width(s.cursor) < TagWindow.cap
              /\ s.cursor.carry.acc = Digits(s.cursor.carry.buf)
<1>1. pc = "drive" /\ ~EndpointDue /\ chunk # << >> /\ mode.k = "Head"
  BY DEF Arm
<1>2. /\ TypeOK /\ Live /\ ModeAdmitted /\ Reached(Cursor) /\ off < zone
      /\ Cursor.carry.acc = Digits(Cursor.carry.buf)
  BY <1>1, DriveFacts
<1>3. Width(Cursor) < TagWindow.cap
  BY <1>1, <1>2 DEF ModeAdmitted
<1>4. Cursor \in Cursors /\ Cursor.off <= zone /\ zone \in Nat /\ TagWindow \in Windows
      /\ Cursor.off = off /\ Cursor.chunk = chunk /\ Cursor.off + Len(Cursor.chunk) = off + Len(chunk)
  BY <1>2, TypeFacts, WindowAssumption DEF Reached
<1>5. /\ s.cursor \in Cursors
      /\ s.cursor.off <= zone
      /\ s.cursor.off + Len(s.cursor.chunk) = off + Len(chunk)
      /\ s.value \in Seq(0..127)
      /\ s.verdict = "Done" => s.cursor.carry = EmptyCarry
      /\ s.verdict = "More" =>
              /\ s.cursor.off < zone /\ Width(s.cursor) < TagWindow.cap
              /\ s.cursor.carry.acc = Digits(s.cursor.carry.buf)
      /\ s.cursor.off > off
  BY <1>1, <1>2, <1>3, <1>4, StepFacts
<1>6. FieldOf(s.value) \in Nat
  BY <1>5, WordTypes
<1>7. s.verdict = "Done" => Width(s.cursor) = 0 /\ s.cursor.carry.acc = Digits(s.cursor.carry.buf)
  BY <1>5, EmptyFacts DEF Width
<1> QED BY <1>2, <1>4, <1>5, <1>6, <1>7, TypeFacts DEF Reached, Cursors

LEMMA TagUnfinishedStep ==
  ASSUME IInv, TagUnfinished PROVE IInv'
<1>1. PICK s \in Step(Cursor, TagWindow, zone, Standard) :
        s.verdict # "Done" /\ Put(s.cursor) /\ Unfinished(s, <<"Tag">>)
  BY DEF TagUnfinished
<1>2. Arm("Head") /\ pc = "drive" /\ mode.k = "Head" /\ UNCHANGED <<zone, mode, stack>>
  BY DEF TagUnfinished, Arm
<1>3. TypeOK
  BY DEF IInv
<1>4. CASE s.verdict = "More" /\ Return(<<"More">>)
  <2>1. /\ Reached(s.cursor) /\ s.cursor.off < zone /\ Width(s.cursor) < TagWindow.cap
        /\ s.cursor.carry.acc = Digits(s.cursor.carry.buf)
    BY <1>2, <1>4, TagFacts
  <2>2. mode' \in Modes /\ mode'.k = "Head"
    BY <1>2, <1>3 DEF TypeOK
  <2> QED BY <1>1, <1>2, <1>4, <2>1, <2>2, SuspendStep
<1>5. CASE s.verdict # "More" /\ pc' = "idle" /\ terminal' = TRUE
  BY <1>1, <1>2, <1>5, TagFacts, HaltStep
<1> QED BY <1>1, <1>4, <1>5, UnfinishedFacts

\* A completed tag, whatever its class.
LEMMA TaggedFacts ==
  ASSUME IInv, NEW class, Arm("Head"), NEW s \in Tagged(class)
  PROVE  /\ pc = "drive" /\ mode = HeadMode /\ terminal = TRUE
         /\ Reached(s.cursor) /\ off < s.cursor.off /\ FieldOf(s.value) \in Nat
         /\ s.cursor.carry = EmptyCarry /\ Width(s.cursor) = 0
         /\ s.cursor.carry.acc = Digits(s.cursor.carry.buf)
<1>1. pc = "drive" /\ mode.k = "Head"
  BY DEF Arm
<1>2. s \in Step(Cursor, TagWindow, zone, Standard) /\ s.verdict = "Done"
  BY DEF Tagged
<1> QED BY <1>1, <1>2, DriveFacts, TagFacts

LEMMA VarintRecordStep ==
  ASSUME IInv, VarintRecord PROVE IInv'
<1>1. Arm("Head")
  BY DEF VarintRecord
<1>2. PICK s \in Tagged("Varint") : VarintValue(FieldOf(s.value), s.cursor)
  BY DEF VarintRecord
<1>3. Width(s.cursor) < ValueWindow.cap
  <2>1. Width(s.cursor) = 0
    BY <1>1, TaggedFacts
  <2> QED BY <2>1, WindowAssumption DEF Windows
<1> QED BY <1>1, <1>2, <1>3, TaggedFacts, ValueStep

LEMMA LenRecordStep ==
  ASSUME IInv, LenRecord PROVE IInv'
<1>1. Arm("Head")
  BY DEF LenRecord
<1>2. PICK s \in Tagged("Len") : LenWord(FieldOf(s.value), s.cursor)
  BY DEF LenRecord
<1>3. Width(s.cursor) < LenWindow.cap
  <2>1. Width(s.cursor) = 0
    BY <1>1, TaggedFacts
  <2> QED BY <2>1, WindowAssumption DEF Windows
<1> QED BY <1>1, <1>2, <1>3, TaggedFacts, LenStep

LEMMA FixedRecordStep ==
  ASSUME IInv, NEW kind \in FixedKinds, FixedRecord(kind) PROVE IInv'
<1>1. Arm("Head")
  BY DEF FixedRecord
<1>2. PICK s \in Tagged(kind) :
        zone - s.cursor.off >= Need(kind) /\ FixedPayload(FieldOf(s.value), kind, s.cursor)
  BY DEF FixedRecord
<1>3. s.cursor \in Cursors /\ Width(s.cursor) = 0 /\ zone \in Nat
  BY <1>1, TaggedFacts, TypeFacts DEF Reached, IInv
<1>4. Need(kind) \in {4, 8}
  BY DEF Need
<1>5. s.cursor.off \in Nat
  BY <1>3 DEF Cursors
<1>6. Width(s.cursor) < Need(kind) /\ s.cursor.off + Need(kind) - Width(s.cursor) <= zone
  BY <1>2, <1>3, <1>4, <1>5
<1> QED BY <1>1, <1>2, <1>6, TaggedFacts, FixedStep

\* A tag refused as soon as it completed.
LEMMA TagHaltStep ==
  ASSUME IInv, Arm("Head"), NEW class, NEW s \in Tagged(class), Put(s.cursor),
         UNCHANGED <<zone, mode, stack>>, pc' = "idle", terminal' = TRUE
  PROVE  IInv'
  BY TaggedFacts, HaltStep

LEMMA FixedOverrunStep ==
  ASSUME IInv, NEW kind, FixedOverrun(kind) PROVE IInv'
<1>1. Arm("Head") /\ UNCHANGED <<zone, mode, stack>>
  BY DEF FixedOverrun
<1>2. PICK s \in Tagged(kind) :
        Put(s.cursor) /\ Halt(s.cursor.off, <<"FixedOverrun", FieldOf(s.value)>>)
  BY DEF FixedOverrun
<1> QED BY <1>1, <1>2, HaltFacts, TagHaltStep

LEMMA TagRefusedStep ==
  ASSUME IInv, NEW class, TagRefused(class) PROVE IInv'
<1>1. Arm("Head") /\ UNCHANGED <<zone, mode, stack>>
  BY DEF TagRefused
<1>2. PICK s \in Tagged(class) :
        /\ Put(s.cursor)
        /\ Halt(ConstructStart(Cursor),
                IF class = "FieldZero" THEN <<"FieldZero">>
                ELSE <<class, FieldOf(s.value), Low3(s.value)>>)
  BY DEF TagRefused
<1> QED BY <1>1, <1>2, HaltFacts, TagHaltStep

LEMMA GroupRecordStep ==
  ASSUME IInv, GroupRecord PROVE IInv'
<1>1. Arm("Head") /\ UNCHANGED <<zone, mode>>
  BY DEF GroupRecord
<1>2. PICK s \in Tagged("Group") :
        /\ Put(s.cursor)
        /\ \/ /\ Halt(ConstructStart(Cursor), <<"DepthExceeded", FieldOf(s.value)>>)
              /\ stack' = stack
           \/ /\ stack' = Append(stack, GroupExtent(FieldOf(s.value)))
              /\ Event(<<"groupEnter", FieldOf(s.value), s.cursor.off>>)
  BY DEF GroupRecord
<1>3. CASE /\ Halt(ConstructStart(Cursor), <<"DepthExceeded", FieldOf(s.value)>>)
           /\ stack' = stack
  BY <1>1, <1>2, <1>3, HaltFacts, TagHaltStep
<1>4. CASE /\ stack' = Append(stack, GroupExtent(FieldOf(s.value)))
           /\ Event(<<"groupEnter", FieldOf(s.value), s.cursor.off>>)
  <2>1. pc' \in {"drive", "idle"} /\ terminal' = TRUE
    BY <1>1, <1>4, TaggedFacts, AnsweredFacts DEF Event
  <2> QED BY <1>1, <1>2, <1>4, <2>1, TaggedFacts, PushGroupStep
<1> QED BY <1>2, <1>3, <1>4

LEMMA GroupEndStep ==
  ASSUME IInv, GroupEnd PROVE IInv'
<1>1. Arm("Head") /\ UNCHANGED <<zone, mode>>
  BY DEF GroupEnd
<1>2. PICK s \in Tagged("GroupEnd") :
        /\ Put(s.cursor)
        /\ \/ /\ stack # << >> /\ Top = GroupExtent(FieldOf(s.value))
              /\ stack' = Pop
              /\ Event(<<"groupExit", FieldOf(s.value), ConstructStart(Cursor)>>)
           \/ /\ Halt(ConstructStart(Cursor), GroupEndRefusal(FieldOf(s.value)))
              /\ stack' = stack
  BY DEF GroupEnd
<1>3. CASE /\ Halt(ConstructStart(Cursor), GroupEndRefusal(FieldOf(s.value)))
           /\ stack' = stack
  BY <1>1, <1>2, <1>3, HaltFacts, TagHaltStep
<1>4. CASE /\ stack # << >> /\ Top = GroupExtent(FieldOf(s.value))
           /\ stack' = Pop
           /\ Event(<<"groupExit", FieldOf(s.value), ConstructStart(Cursor)>>)
  <2>1. pc' \in {"drive", "idle"} /\ terminal' = TRUE
    BY <1>1, <1>4, TaggedFacts, AnsweredFacts DEF Event
  <2>2. Top.k = "Group"
    BY <1>4 DEF GroupExtent
  <2>3. /\ pc = "drive" /\ mode' = HeadMode /\ Reached(s.cursor)
        /\ s.cursor.carry = EmptyCarry
    BY <1>1, TaggedFacts
  <2>4. off' = s.cursor.off /\ chunk' = s.cursor.chunk /\ carry' = EmptyCarry
    BY <1>2, <2>3 DEF Put
  <2> QED BY <1>1, <1>4, <2>1, <2>2, <2>3, <2>4, PopStep
<1> QED BY <1>2, <1>3, <1>4

LEMMA ResumeVarintStep ==
  ASSUME IInv, ResumeVarint PROVE IInv'
<1>1. Arm("VarintValue") /\ pc = "drive" /\ mode.k = "VarintValue"
      /\ VarintValue(mode.field, Cursor)
  BY DEF ResumeVarint, Arm
<1>2. /\ TypeOK /\ Live /\ ModeAdmitted /\ Reached(Cursor)
      /\ Cursor.carry.acc = Digits(Cursor.carry.buf)
  BY <1>1, DriveFacts
<1>3. mode.field \in Nat
  BY <1>1, <1>2 DEF TypeOK, Modes, HeadMode, Field
<1>4. Width(Cursor) < ValueWindow.cap
  BY <1>1, <1>2 DEF ModeAdmitted
<1> QED BY <1>1, <1>2, <1>3, <1>4, ValueStep

LEMMA ResumeLenStep ==
  ASSUME IInv, ResumeLen PROVE IInv'
<1>1. Arm("LenWord") /\ pc = "drive" /\ mode.k = "LenWord" /\ LenWord(mode.field, Cursor)
  BY DEF ResumeLen, Arm
<1>2. /\ TypeOK /\ Live /\ ModeAdmitted /\ Reached(Cursor)
      /\ Cursor.carry.acc = Digits(Cursor.carry.buf)
  BY <1>1, DriveFacts
<1>3. mode.field \in Nat
  BY <1>1, <1>2 DEF TypeOK, Modes, HeadMode, Field
<1>4. Width(Cursor) < LenWindow.cap
  BY <1>1, <1>2 DEF ModeAdmitted
<1> QED BY <1>1, <1>2, <1>3, <1>4, LenStep

LEMMA ResumeFixedStep ==
  ASSUME IInv, ResumeFixed PROVE IInv'
<1>1. pc = "drive" /\ mode.k = "FixedTail" /\ FixedPayload(mode.field, mode.kind, Cursor)
  BY DEF ResumeFixed, Arm
<1>2. TypeOK /\ Live /\ ModeAdmitted /\ Reached(Cursor)
  BY <1>1, DriveFacts
<1>3. mode.field \in Nat /\ mode.kind \in FixedKinds
  BY <1>1, <1>2 DEF TypeOK, Modes, HeadMode, Field
<1>4. /\ Width(Cursor) < Need(mode.kind)
      /\ Cursor.off + Need(mode.kind) - Width(Cursor) <= zone
  BY <1>1, <1>2, TypeFacts DEF ModeAdmitted
<1> QED BY <1>1, <1>2, <1>3, <1>4, FixedStep

LEMMA LeastFacts ==
  ASSUME NEW a \in Nat, NEW b \in Nat
  PROVE  /\ Least(a, b) \in Nat /\ Least(a, b) <= a /\ Least(a, b) <= b
         /\ Least(a, b) = a \/ Least(a, b) = b
  BY DEF Least

\* A fragment of a counted payload.
LEMMA CountStep ==
  ASSUME IInv, NEW k \in {"Forward", "Swallow"}, Arm(k),
         Counted(Least(mode.remaining, Len(chunk))),
         pc' \in {"drive", "idle"}, terminal' = TRUE
  PROVE  IInv'
<1> DEFINE n == Least(mode.remaining, Len(chunk))
           r == mode.remaining - n
<1>1. pc = "drive" /\ mode.k = k
  BY DEF Arm
<1>2. /\ TypeOK /\ CursorInside /\ ZonesNested /\ Live /\ ModeAdmitted
      /\ Cursor.carry.acc = Digits(Cursor.carry.buf)
  BY <1>1, DriveFacts
<1>3. mode.remaining \in Nat \ {0}
  BY <1>1, <1>2 DEF TypeOK, Modes, HeadMode
<1>4. Width(Cursor) = 0 /\ off + mode.remaining <= zone
  BY <1>1, <1>2 DEF ModeAdmitted
<1>5. carry = EmptyCarry
  <2>1. carry.buf = << >> /\ carry.acc = Digits(carry.buf)
    BY <1>2, <1>4, TypeFacts, EmptySeq DEF TypeOK
  <2>2. carry = [acc |-> carry.acc, buf |-> carry.buf]
    BY <1>2 DEF TypeOK
  <2> QED BY <2>1, <2>2, EmptyFacts DEF EmptyCarry
<1>6. /\ off \in Nat /\ zone \in Nat /\ Len(chunk) \in Nat /\ chunk \in Seq(Byte)
      /\ off + Len(chunk) < MaxOff /\ MaxOff \in Nat
  BY <1>2, TypeFacts DEF TypeOK, CursorInside
<1>7. n \in Nat /\ n <= mode.remaining /\ n <= Len(chunk) /\ (n = mode.remaining \/ n = Len(chunk))
  BY <1>3, <1>6, LeastFacts
<1>8. /\ off' = off + n /\ chunk' = Skip(chunk, n) /\ mode' = Counting(mode.k, r)
      /\ UNCHANGED <<zone, carry, stack>>
  BY DEF Counted
<1> HIDE DEF n
<1>9. r \in Nat /\ off' + r = off + mode.remaining
  BY <1>3, <1>6, <1>7, <1>8, SMTT(30)
<1>10. chunk' \in Seq(Byte) /\ Len(chunk') = Len(chunk) - n
  BY SMTT(60), <1>6, <1>7, <1>8, SkipFacts
<1>11. off' \in Nat /\ off' + r <= zone /\ off' <= zone /\ off' + Len(chunk') < MaxOff
  BY SMTT(60), <1>3, <1>4, <1>6, <1>7, <1>8, <1>9, <1>10
<1> HIDE DEF r
<1>12. CursorInside' /\ ZonesNested'
  BY <1>2, <1>8, <1>11 DEF CursorInside, ZonesNested
<1>13. mode' \in Modes
  BY <1>1, <1>8, <1>9 DEF Counting, Modes
<1>14. TypeOK'
  BY <1>2, <1>8, <1>10, <1>11, <1>13 DEF TypeOK
<1>15. CASE r = 0
  <2>1. mode' = HeadMode
    BY <1>8, <1>15 DEF Counting
  <2> QED BY <1>5, <1>8, <1>12, <1>14, <2>1, QuietStep
<1>16. CASE r # 0
  <2>1. mode'.k = k /\ mode'.remaining = r
    BY <1>1, <1>8, <1>16 DEF Counting
  <2>2. Width(Cursor)' = 0
    BY <1>5, <1>8, EmptyFacts DEF Width, Cursor, CursorAt
  <2>3. ModeAdmitted'
    BY <1>8, <1>11, <2>1, <2>2 DEF ModeAdmitted
  <2>4. off' # zone'
    BY <1>6, <1>8, <1>9, <1>11, <1>16
  <2>5. EndpointsUnstraddled' /\ EndpointsResolved' /\ Armed' /\ AccumulatorAgrees'
    BY <1>5, <1>8, <2>4, EmptyFacts
    DEF EndpointsUnstraddled, EndpointsResolved, Armed, AccumulatorAgrees
  <2> QED BY <1>12, <1>14, <2>3, <2>5 DEF IInv, ZoneDiscipline
<1> QED BY <1>15, <1>16

LEMMA ForwardStep ==
  ASSUME IInv, Forward PROVE IInv'
<1>1. Arm("Forward") /\ Counted(Least(mode.remaining, Len(chunk))) /\ Answered /\ pc = "drive"
  BY DEF Forward, Arm
<1>2. pc' \in {"drive", "idle"} /\ terminal' = TRUE
  BY <1>1, DriveFacts, AnsweredFacts
<1> QED BY <1>1, <1>2, CountStep

LEMMA SwallowStep ==
  ASSUME IInv, Swallow PROVE IInv'
<1>1. /\ Arm("Swallow") /\ Counted(Least(mode.remaining, Len(chunk))) /\ pc = "drive"
      /\ UNCHANGED <<pc, terminal>>
  BY DEF Swallow, Arm
<1>2. pc' \in {"drive", "idle"} /\ terminal' = TRUE
  BY <1>1, DriveFacts
<1> QED BY <1>1, <1>2, CountStep

LEMMA NextStep ==
  ASSUME IInv, [Next]_vars PROVE IInv'
<1>1. ASSUME NEW bytes \in Chunks, Feed(bytes) PROVE IInv'
  BY <1>1, FeedStep
<1>2. ASSUME NEW bytes \in Chunks, RefuseFeed(bytes) PROVE IInv'
  BY <1>2, RefuseStep
<1>3. CASE Finish
  BY <1>3, FinishStep
<1>4. CASE Drive
  <2>1. CASE ExitLen \/ ChunkSpent \/ TagUnfinished
    BY <2>1, ExitLenStep, ChunkSpentStep, TagUnfinishedStep
  <2>2. CASE GroupUnclosedAtLenEnd
    BY <2>2, HaltFacts, StandStep DEF GroupUnclosedAtLenEnd
  <2>3. CASE VarintRecord \/ LenRecord \/ GroupRecord \/ GroupEnd
    BY <2>3, VarintRecordStep, LenRecordStep, GroupRecordStep, GroupEndStep
  <2>4. CASE \E kind \in {"I32", "I64"} : FixedRecord(kind) \/ FixedOverrun(kind)
    BY <2>4, FixedRecordStep, FixedOverrunStep DEF FixedKinds
  <2>5. CASE \E class \in {"FieldZero", "GroupCode", "Unassigned"} : TagRefused(class)
    BY <2>5, TagRefusedStep
  <2>6. CASE ResumeVarint \/ ResumeLen \/ ResumeFixed
    BY <2>6, ResumeVarintStep, ResumeLenStep, ResumeFixedStep
  <2>7. CASE Forward \/ Swallow
    BY <2>7, ForwardStep, SwallowStep
  <2> QED BY <1>4, <2>1, <2>2, <2>3, <2>4, <2>5, <2>6, <2>7 DEF Drive
<1>5. CASE UNCHANGED vars
  <2>1. UNCHANGED <<off, zone, carry, mode, stack, terminal, pc, chunk>>
    BY <1>5 DEF vars
  <2> QED BY <2>1
      DEF IInv, TypeOK, ZoneDiscipline, CursorInside, ZonesNested, ModeAdmitted,
          EndpointsUnstraddled, EndpointsResolved, Armed, AccumulatorAgrees, Live,
          EndpointDue, Cursor, CursorAt
<1> QED BY <1>1, <1>2, <1>3, <1>4, <1>5 DEF Next, Rest

----------------------------------------------------------------------------
(* The theorems.                                                           *)

\* The inductive invariant holds of every reachable state: the types, the zone
\* discipline of feed, drive and finish, and the resumable loop's accumulator.
THEOREM ScanInvariant == Spec => []IInv
<1>1. Init => IInv
  BY InitStep
<1>2. IInv /\ [Next]_vars => IInv'
  BY NextStep
<1> QED BY <1>1, <1>2, PTL DEF Spec

\* The machine's fields stay in the domains of their Rust types, whatever bytes
\* are fed in whatever chunks and whatever the sink answers.
THEOREM ScanTypeCorrect == Spec => []TypeOK
<1>1. IInv => TypeOK
  BY DEF IInv
<1> QED BY <1>1, ScanInvariant, PTL

\* The sealed endpoints nest, the cursor and every admitted count stay inside
\* them, and a feed returns More only with every reached endpoint resolved.
THEOREM ScanZoneDiscipline == Spec => []ZoneDiscipline
<1>1. IInv => ZoneDiscipline
  BY DEF IInv
<1> QED BY <1>1, ScanInvariant, PTL

\* The value a resumed word completes to is the one its held bytes spell.
THEOREM ScanAccumulatorAgrees == Spec => []AccumulatorAgrees
<1>1. IInv => AccumulatorAgrees
  BY DEF IInv
<1> QED BY <1>1, ScanInvariant, PTL

\* None of the branches compiled as unreachable_unchecked is reachable.
THEOREM ScanNoUndefined == Spec => []NoUndefined
<1>1. ASSUME IInv, pc = "drive"
      PROVE  /\ off <= zone
             /\ EndpointDue => stack # << >>
             /\ mode.k = "FixedTail" =>
                  /\ Width(Cursor) <= Need(mode.kind)
                  /\ CollectVerdict(Collected(Cursor, zone, Need(mode.kind)), zone,
                                    Need(mode.kind)) # "Cut"
  <2>1. TypeOK /\ CursorInside /\ Live /\ ModeAdmitted
    BY <1>1, DriveFacts
  <2>2. off <= zone /\ (EndpointDue => stack # << >>)
    BY <1>1, <2>1, DriveFacts DEF CursorInside
  <2>3. ASSUME mode.k = "FixedTail"
        PROVE  /\ Width(Cursor) <= Need(mode.kind)
               /\ CollectVerdict(Collected(Cursor, zone, Need(mode.kind)), zone,
                                 Need(mode.kind)) # "Cut"
    <3>1. Need(mode.kind) \in {4, 8}
      BY DEF Need
    <3>2. Width(Cursor) < Need(mode.kind) /\ Cursor.off + Need(mode.kind) - Width(Cursor) <= zone
      BY <2>1, <2>3, TypeFacts DEF ModeAdmitted
    <3>3. Cursor \in Cursors /\ zone \in Nat /\ Width(Cursor) \in Nat
      BY <2>1, TypeFacts
    <3>4. CollectVerdict(Collected(Cursor, zone, Need(mode.kind)), zone, Need(mode.kind))
            \in {"Done", "More"}
      BY <3>1, <3>2, <3>3, CollectFacts
    <3> QED BY <3>1, <3>2, <3>3, <3>4
  <2> QED BY <2>2, <2>3
<1>2. IInv => NoUndefined
  BY <1>1 DEF NoUndefined
<1> QED BY <1>2, ScanInvariant, PTL

----------------------------------------------------------------------------
(* Progress: no pass of the loop leaves the cursor and the stack alone.    *)

Progress == off' > off \/ Len(stack') < Len(stack)

LEMMA OffTypes ==
  ASSUME NEW c, Reached(c), TypeOK
  PROVE  c \in Cursors /\ c.off \in Nat /\ off \in Nat /\ c.off <= zone /\ zone \in Nat
  BY TypeFacts DEF Reached, Cursors

LEMMA ValueProgress ==
  ASSUME IInv, NEW f, NEW c, Reached(c), off <= c.off, VarintValue(f, c),
         Width(c) < ValueWindow.cap, pc' = "drive"
  PROVE  Progress
<1>1. TypeOK
  BY DEF IInv
<1>2. PICK s \in Step(c, ValueWindow, zone, Standard) :
        Put(s.cursor) /\ (s.verdict = "Done" \/ Unfinished(s, <<"Value", f>>))
  BY DEF VarintValue
<1>3. s.verdict = "Done"
  BY <1>2, UnfinishedFacts, ReturnFacts
<1>4. s.cursor \in Cursors /\ s.cursor.off > c.off
  BY <1>1, <1>3, OffTypes, StepFacts, WindowAssumption
<1>5. off' = s.cursor.off /\ s.cursor.off \in Nat
  BY <1>2, <1>4 DEF Put, Cursors
<1> QED BY <1>1, <1>4, <1>5, OffTypes DEF Progress

LEMMA LenProgress ==
  ASSUME IInv, NEW f, NEW c, Reached(c), off <= c.off, LenWord(f, c),
         Width(c) < LenWindow.cap, pc' = "drive"
  PROVE  Progress
<1>1. TypeOK
  BY DEF IInv
<1>2. PICK s \in Step(c, LenWindow, zone, Standard) :
        Put(s.cursor) /\ (s.verdict = "Done" \/ Unfinished(s, <<"LenPrefix", f>>))
  BY DEF LenWord
<1>3. s.verdict = "Done"
  BY <1>2, UnfinishedFacts, ReturnFacts
<1>4. s.cursor \in Cursors /\ s.cursor.off > c.off
  BY <1>1, <1>3, OffTypes, StepFacts, WindowAssumption
<1>5. off' = s.cursor.off /\ s.cursor.off \in Nat
  BY <1>2, <1>4 DEF Put, Cursors
<1> QED BY <1>1, <1>4, <1>5, OffTypes DEF Progress

LEMMA FixedProgress ==
  ASSUME IInv, NEW f, NEW kind, NEW c, Reached(c), off <= c.off, FixedPayload(f, kind, c),
         Width(c) < Need(kind), c.off + Need(kind) - Width(c) <= zone, pc' = "drive"
  PROVE  Progress
<1> DEFINE n == Need(kind)
           d == Collected(c, zone, n)
<1>1. TypeOK
  BY DEF IInv
<1>2. n \in {4, 8}
  BY DEF Need
<1>3. c \in Cursors /\ c.off \in Nat /\ off \in Nat /\ zone \in Nat
  BY <1>1, OffTypes
<1>4. d \in Cursors /\ (CollectVerdict(d, zone, n) = "Done" => d.off > c.off)
  BY <1>2, <1>3, CollectFacts
<1>5. \/ CollectVerdict(d, zone, n) = "Done" /\ Put(Clear(d))
      \/ Return(<<"More">>)
  BY DEF FixedPayload
<1> HIDE DEF d, n
<1>6. CollectVerdict(d, zone, n) = "Done" /\ Put(Clear(d))
  BY <1>5, ReturnFacts
<1>7. off' = d.off /\ d.off \in Nat
  BY <1>4, <1>6 DEF Put, Clear, Cursors
<1>8. d.off > c.off
  BY <1>4, <1>6
<1> QED BY <1>3, <1>7, <1>8 DEF Progress

LEMMA TagProgress ==
  ASSUME IInv, Arm("Head"), NEW class, NEW s \in Tagged(class), Put(s.cursor) PROVE Progress
<1>1. s.cursor.off > off /\ Reached(s.cursor) /\ TypeOK
  BY TaggedFacts DEF IInv
<1> QED BY <1>1, OffTypes DEF Progress, Put

LEMMA CountProgress ==
  ASSUME IInv, NEW k \in {"Forward", "Swallow"}, Arm(k),
         Counted(Least(mode.remaining, Len(chunk)))
  PROVE  Progress
<1>1. pc = "drive" /\ mode.k = k /\ chunk # << >>
  BY DEF Arm
<1>2. TypeOK /\ off \in Nat /\ chunk \in Seq(Byte)
  BY <1>1 DEF IInv, TypeOK
<1>3. mode.remaining \in Nat \ {0}
  BY <1>1, <1>2 DEF TypeOK, Modes, HeadMode
<1>4. Len(chunk) \in Nat /\ Len(chunk) > 0
  BY <1>1, <1>2, EmptySeq, LenProperties
<1>5. off' = off + Least(mode.remaining, Len(chunk))
  BY DEF Counted
<1> QED BY <1>2, <1>3, <1>4, <1>5 DEF Least, Progress

LEMMA ProgressStep ==
  ASSUME IInv, Next, pc = "drive", pc' = "drive" PROVE Progress
<1>1. Drive
  BY DEF Next, Feed, RefuseFeed, Finish, Rest, Over
<1>2. TypeOK /\ Live /\ ModeAdmitted /\ Reached(Cursor)
  BY DriveFacts
<1>3. CASE ExitLen
  <2>1. stack # << >> /\ stack \in Seq(Extents) /\ stack' = Pop
    BY <1>2, <1>3, DriveFacts DEF ExitLen, TypeOK
  <2>2. Len(stack) \in Nat /\ Len(stack) > 0
    BY <2>1, EmptySeq, LenProperties
  <2>3. Len(stack') = Len(stack) - 1
    BY <2>1, <2>2, FrontFacts DEF Pop
  <2> QED BY <2>2, <2>3 DEF Progress
<1>4. ~(GroupUnclosedAtLenEnd \/ ChunkSpent)
  BY HaltFacts, ReturnFacts DEF GroupUnclosedAtLenEnd, ChunkSpent
<1>5. ~TagUnfinished
  BY UnfinishedFacts, ReturnFacts DEF TagUnfinished
<1>6. CASE VarintRecord
  <2>1. PICK s \in Tagged("Varint") : VarintValue(FieldOf(s.value), s.cursor)
    BY <1>6 DEF VarintRecord
  <2>2. Arm("Head")
    BY <1>6 DEF VarintRecord
  <2>3. Reached(s.cursor) /\ off < s.cursor.off /\ Width(s.cursor) = 0
    BY <2>2, TaggedFacts
  <2>4. off <= s.cursor.off /\ Width(s.cursor) < ValueWindow.cap
    BY <1>2, <2>3, OffTypes, WindowAssumption DEF Windows
  <2> QED BY <2>1, <2>3, <2>4, ValueProgress
<1>7. CASE LenRecord
  <2>1. PICK s \in Tagged("Len") : LenWord(FieldOf(s.value), s.cursor)
    BY <1>7 DEF LenRecord
  <2>2. Arm("Head")
    BY <1>7 DEF LenRecord
  <2>3. Reached(s.cursor) /\ off < s.cursor.off /\ Width(s.cursor) = 0
    BY <2>2, TaggedFacts
  <2>4. off <= s.cursor.off /\ Width(s.cursor) < LenWindow.cap
    BY <1>2, <2>3, OffTypes, WindowAssumption DEF Windows
  <2> QED BY <2>1, <2>3, <2>4, LenProgress
<1>8. ASSUME NEW kind \in FixedKinds, FixedRecord(kind) PROVE Progress
  <2>1. PICK s \in Tagged(kind) :
          zone - s.cursor.off >= Need(kind) /\ FixedPayload(FieldOf(s.value), kind, s.cursor)
    BY <1>8 DEF FixedRecord
  <2>2. Arm("Head")
    BY <1>8 DEF FixedRecord
  <2>3. Reached(s.cursor) /\ off < s.cursor.off /\ Width(s.cursor) = 0
    BY <2>2, TaggedFacts
  <2>4. Need(kind) \in {4, 8}
    BY DEF Need
  <2>5. /\ off <= s.cursor.off /\ Width(s.cursor) < Need(kind)
        /\ s.cursor.off + Need(kind) - Width(s.cursor) <= zone
    BY <1>2, <2>1, <2>3, <2>4, OffTypes
  <2> QED BY <2>1, <2>3, <2>5, FixedProgress
<1>9. ASSUME NEW kind \in FixedKinds PROVE ~FixedOverrun(kind)
  BY HaltFacts DEF FixedOverrun
<1>10. CASE GroupRecord
  BY <1>10, TagProgress DEF GroupRecord
<1>11. CASE GroupEnd
  BY <1>11, TagProgress DEF GroupEnd
<1>12. ASSUME NEW class PROVE ~TagRefused(class)
  BY HaltFacts DEF TagRefused
<1>13. off <= Cursor.off
  BY <1>2, TypeFacts
<1>14. CASE ResumeVarint
  BY <1>2, <1>13, <1>14, ValueProgress DEF ResumeVarint, Arm, ModeAdmitted
<1>15. CASE ResumeLen
  BY <1>2, <1>13, <1>15, LenProgress DEF ResumeLen, Arm, ModeAdmitted
<1>16. CASE ResumeFixed
  <2>1. mode.k = "FixedTail" /\ FixedPayload(mode.field, mode.kind, Cursor)
    BY <1>16 DEF ResumeFixed, Arm
  <2>2. /\ Width(Cursor) < Need(mode.kind)
        /\ Cursor.off + Need(mode.kind) - Width(Cursor) <= zone
    BY <1>2, <2>1, TypeFacts DEF ModeAdmitted
  <2> QED BY <1>2, <1>13, <2>1, <2>2, FixedProgress
<1>17. CASE Forward \/ Swallow
  BY <1>17, CountProgress DEF Forward, Swallow
<1> QED BY <1>1, <1>3, <1>4, <1>5, <1>6, <1>7, <1>8, <1>9, <1>10, <1>11, <1>12, <1>14, <1>15,
           <1>16, <1>17 DEF Drive, FixedKinds

\* Every pass of the drive loop that does not end the feed consumes a byte or
\* closes a container, so a feed cannot spin.
THEOREM ScanProgress == Spec => ProgressPerPass
<1>1. IInv /\ [Next]_vars =>
        [pc = "drive" /\ pc' = "drive" => off' > off \/ Len(stack') < Len(stack)]_vars
  BY ProgressStep DEF Progress
<1> QED BY <1>1, ScanInvariant, PTL DEF Spec, ProgressPerPass
=============================================================================
