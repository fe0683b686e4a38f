-------------------------------- MODULE Scan --------------------------------
(***************************************************************************)
(* The streaming scan machine: Parser of src/src/scan/grouped.rs and of    *)
(* src/src/scan/groupless.rs (Dialect chooses the wire table; everything   *)
(* else the two files share).                                              *)
(*                                                                         *)
(* A caller feeds chunks and at last declares the end.  Inside one feed    *)
(* the drive loop resolves the sealed endpoints at the cursor, then runs   *)
(* the arm of the current mode, until the chunk is spent, the sink stops   *)
(* the stream, a law is violated, or a sink callback unwinds.  Each pass   *)
(* of the loop is one action here; pc tells whether a feed is in progress. *)
(***************************************************************************)
EXTENDS Carry

CONSTANTS
  Dialect,       \* "grouped" or "groupless"
  Standard,      \* "Tolerant" or "CanonicalMinimal"
  Depth,         \* DepthLimit: most containers open at once
  MaxOff,        \* u64::MAX, the root's sealed endpoint
  SinkAnswers,   \* what an event callback may do
  Dispositions,  \* what on_len may answer
  Bytes,         \* the bytes a chunk may hold
  MaxStream,     \* bound: bytes fed in a behaviour
  MaxChunk       \* bound: bytes of one chunk

ASSUME ScanAssumption ==
  /\ Dialect \in {"grouped", "groupless"}
  /\ Standard \in {"Tolerant", "CanonicalMinimal"}
  /\ Depth \in Nat
  /\ MaxOff \in Nat \ {0}
  /\ SinkAnswers \subseteq {"continue", "break", "unwind"}
  /\ Dispositions \subseteq {"Commit", "OpaqueBytes", "OpaqueSkip"}
  /\ Bytes \subseteq Byte
  /\ MaxStream \in Nat /\ MaxChunk \in Nat

VARIABLES
  \* the machine: Pump and Parser
  off,        \* absolute offset of the next byte
  zone,       \* innermost sealed endpoint
  carry,      \* the construct in flight
  mode,       \* where the next chunk resumes
  stack,      \* open containers
  terminal,   \* the latch
  \* the feed in progress
  pc,         \* "idle", "drive", or "gone" once finish consumed the machine
  chunk,      \* residue of the fed chunk
  outcome,    \* what the last call returned
  \* history
  events,     \* what the sink has seen, a payload's fragments joined
  fed         \* every admitted byte

vars == <<off, zone, carry, mode, stack, terminal, pc, chunk, outcome, events, fed>>

----------------------------------------------------------------------------
(* The wire table: classify of each dialect.                               *)

Need(kind) == IF kind = "I64" THEN 8 ELSE 4

ClassifyGrouped(low3) ==
  CASE low3 = 0 -> "Varint" [] low3 = 1 -> "I64"      [] low3 = 2 -> "Len"
    [] low3 = 3 -> "Group"  [] low3 = 4 -> "GroupEnd" [] low3 = 5 -> "I32"
    [] OTHER -> "Unassigned"
ClassifyGroupless(low3) ==
  IF low3 \in {3, 4} THEN "GroupCode" ELSE ClassifyGrouped(low3)
Classify(low3) ==
  IF Dialect = "grouped" THEN ClassifyGrouped(low3) ELSE ClassifyGroupless(low3)

----------------------------------------------------------------------------
(* State.                                                                  *)

HeadMode == [k |-> "Head"]
Waiting(k, field) == [k |-> k, field |-> field]
FixedTail(field, kind) == [k |-> "FixedTail", field |-> field, kind |-> kind]
\* Slip: no zero judgement at the end of a count.
CountingUnjudged(k, remaining) == [k |-> k, remaining |-> remaining]
\* The counting modes are nonzero by construction: zero bytes owed is Head.
Counting(k, remaining) ==
  IF remaining = 0 THEN HeadMode ELSE [k |-> k, remaining |-> remaining]

LenExtent(prev, field) == [k |-> "Len", prev_zone |-> prev, field |-> field]
GroupExtent(field) == [k |-> "Group", field |-> field]
Top == stack[Len(stack)]
Pop == SubSeq(stack, 1, Len(stack) - 1)

Cursor == CursorAt(off, chunk, carry)
Put(c) == off' = c.off /\ chunk' = c.chunk /\ carry' = c.carry

Init ==
  /\ off = 0 /\ zone = MaxOff /\ carry = EmptyCarry
  /\ mode = HeadMode /\ stack = << >> /\ terminal = FALSE
  /\ pc = "idle" /\ chunk = << >> /\ outcome = <<"New">>
  /\ events = << >> /\ fed = << >>

----------------------------------------------------------------------------
(* Leaving the drive loop.                                                 *)

\* A normal return of drive: only More leaves the machine live.
Return(result) ==
  /\ pc' = "idle"
  /\ outcome' = result
  /\ terminal' = (result # <<"More">>)
Halt(at, kind) == Return(<<"Fault", at, kind>>)

\* A callback that unwinds skips the line that restores the latch.
Unwind ==
  /\ pc' = "idle"
  /\ outcome' = <<"Unwound">>
  /\ UNCHANGED terminal
Unwinding == pc' = "idle" /\ outcome' = <<"Unwound">>

\* What follows a callback once the sink has seen its event.
Answered ==
  \/ "continue" \in SinkAnswers /\ UNCHANGED <<pc, outcome, terminal>>
  \/ "break" \in SinkAnswers /\ Return(<<"Stopped">>)
  \/ "unwind" \in SinkAnswers /\ Unwind

Event(e) == events' = Append(events, e) /\ Answered

\* A word that did not complete: suspend at the chunk's end, or refuse it.
\* A seal cut names the endpoint, the others the construct's first byte.
Unfinished(s, stage) ==
  IF s.verdict = "More" THEN Return(<<"More">>)
  ELSE IF s.verdict = "NonMinimal"
  THEN Halt(ConstructStart(s.cursor), <<"NonMinimal", stage>>)
  ELSE Halt(IF s.verdict = "Cut" THEN zone ELSE ConstructStart(s.cursor),
            <<"Read", stage, s.verdict>>)

----------------------------------------------------------------------------
(* feed and finish.                                                        *)

Admits(bytes) == Len(bytes) <= MaxOff - 1 - off

\* Slip: the latch is not armed for the drive.
FeedUnarmed(bytes) ==
  /\ pc = "idle" /\ ~terminal
  /\ Admits(bytes)
  /\ pc' = "drive" /\ chunk' = bytes
  /\ fed' = fed \o bytes
  /\ UNCHANGED <<off, zone, carry, mode, stack, terminal, outcome, events>>

\* The prologue admits the chunk and arms the latch before driving.
Feed(bytes) ==
  /\ pc = "idle" /\ ~terminal
  /\ Admits(bytes)
  /\ pc' = "drive" /\ terminal' = TRUE /\ chunk' = bytes
  /\ fed' = fed \o bytes
  /\ UNCHANGED <<off, zone, carry, mode, stack, outcome, events>>

\* A chunk that does not fit the coordinate space is refused unread.
RefuseFeed(bytes) ==
  /\ pc = "idle" /\ ~terminal
  /\ ~Admits(bytes)
  /\ Halt(off, <<"OffsetExhausted">>)
  /\ UNCHANGED <<off, zone, carry, mode, stack, chunk, events, fed>>

FinishKind ==
  CASE mode.k = "Head" /\ Width(Cursor) > 0 -> <<"Read", <<"Tag">>, "StreamEnd">>
    [] mode.k = "VarintValue" -> <<"Read", <<"Value", mode.field>>, "StreamEnd">>
    [] mode.k = "LenWord" -> <<"Read", <<"LenPrefix", mode.field>>, "StreamEnd">>
    [] mode.k = "FixedTail" -> <<"FixedTruncated", mode.field>>
    [] mode.k \in {"Forward", "Swallow"} -> <<"PayloadTruncated", mode.remaining>>
    [] OTHER -> IF stack = << >> THEN <<"Clean">>
                ELSE IF Top.k = "Len" THEN <<"UnclosedLen", Top.field>>
                ELSE <<"GroupUnclosed", Top.field>>
FinishVerdict ==
  IF FinishKind = <<"Clean">> THEN <<"Clean">> ELSE <<"Fault", off, FinishKind>>

Finish ==
  /\ pc = "idle" /\ ~terminal
  /\ pc' = "gone" /\ outcome' = FinishVerdict
  /\ UNCHANGED <<off, zone, carry, mode, stack, terminal, chunk, events, fed>>

----------------------------------------------------------------------------
(* cascade: endpoints at the cursor resolve before any construct starts.   *)

EndpointDue == off = zone /\ mode.k = "Head" /\ Width(Cursor) = 0

\* Slip: the sink is told of the exit but the frame stays open.
ExitLenUnclosed ==
  /\ pc = "drive" /\ EndpointDue
  /\ Top.k = "Len"
  /\ Event(<<"lenExit", Top.field, off>>)
  /\ UNCHANGED <<off, zone, carry, mode, stack, chunk, fed>>

ExitLen ==
  /\ pc = "drive" /\ EndpointDue
  /\ Top.k = "Len"
  /\ stack' = Pop /\ zone' = Top.prev_zone
  /\ Event(<<"lenExit", Top.field, off>>)
  /\ UNCHANGED <<off, carry, mode, chunk, fed>>

GroupUnclosedAtLenEnd ==
  /\ pc = "drive" /\ EndpointDue
  /\ Top.k = "Group"
  /\ Halt(off, <<"GroupUnclosedAtLenEnd", Top.field>>)
  /\ UNCHANGED <<off, zone, carry, mode, stack, chunk, events, fed>>

ChunkSpent ==
  /\ pc = "drive" /\ ~EndpointDue
  /\ chunk = << >>
  /\ Return(<<"More">>)
  /\ UNCHANGED <<off, zone, carry, mode, stack, chunk, events, fed>>

----------------------------------------------------------------------------
(* The word handlers, entered from a fresh tag or resumed from the mode;   *)
(* c is the cursor the caller reached.                                     *)

VarintValue(field, c) ==
  /\ \E s \in Step(c, ValueWindow, zone, Standard) :
       /\ Put(s.cursor)
       /\ \/ /\ s.verdict = "Done"
             /\ mode' = HeadMode
             /\ Event(<<"varint", field, Value(s.value)>>)
          \/ /\ s.verdict # "Done"
             /\ mode' = IF s.verdict = "More" THEN Waiting("VarintValue", field) ELSE mode
             /\ Unfinished(s, <<"Value", field>>)
             /\ UNCHANGED events
  /\ UNCHANGED <<zone, stack, fed>>

\* Slip: the root's bound alone.
LenFitsRoot(at, len) == len < MaxOff - at

\* The LEN admission: the declared end stays inside the enclosing seal and
\* below the root's reserved coordinate.
LenFits(at, len) == len <= zone - at /\ len # MaxOff - at

\* Slip: an empty committed LEN is taken for complete at its head.
CommitNonEmpty(field, len, at) ==
  IF Len(stack) >= Depth
  THEN /\ Halt(at, <<"DepthExceeded", field>>)
       /\ UNCHANGED <<zone, mode, stack>>
  ELSE /\ IF len = 0 THEN UNCHANGED <<zone, stack>>
          ELSE stack' = Append(stack, LenExtent(zone, field)) /\ zone' = at + len
       /\ mode' = HeadMode
       /\ UNCHANGED <<pc, outcome, terminal>>

Commit(field, len, at) ==
  IF Len(stack) >= Depth
  THEN /\ Halt(at, <<"DepthExceeded", field>>)
       /\ UNCHANGED <<zone, mode, stack>>
  ELSE /\ stack' = Append(stack, LenExtent(zone, field))
       /\ zone' = at + len
       /\ mode' = HeadMode
       /\ UNCHANGED <<pc, outcome, terminal>>

Opaque(k, len) ==
  /\ mode' = Counting(k, len)
  /\ UNCHANGED <<zone, stack, pc, outcome, terminal>>

\* on_len is asked once; its answer disposes of the payload.
AskLen(field, len, at) ==
  \/ \E d \in Dispositions :
       /\ events' = Append(events, <<"len", field, len, at, d>>)
       /\ CASE d = "Commit"      -> Commit(field, len, at)
            [] d = "OpaqueBytes" -> Opaque("Forward", len)
            [] d = "OpaqueSkip"  -> Opaque("Swallow", len)
  \/ /\ \/ "break" \in SinkAnswers /\ Return(<<"Stopped">>)
        \/ "unwind" \in SinkAnswers /\ Unwind
     /\ UNCHANGED <<zone, mode, stack, events>>

LenWord(field, c) ==
  /\ \E s \in Step(c, LenWindow, zone, Standard) :
       LET len == Length(s.value)
           at  == s.cursor.off
       IN  /\ Put(s.cursor)
           /\ \/ /\ s.verdict # "Done"
                 /\ mode' = IF s.verdict = "More" THEN Waiting("LenWord", field) ELSE mode
                 /\ Unfinished(s, <<"LenPrefix", field>>)
                 /\ UNCHANGED <<zone, stack, events>>
              \/ /\ s.verdict = "Done" /\ ~LenFits(at, len)
                 /\ Halt(at, <<IF zone # MaxOff THEN "LenOverrun" ELSE "LenUnsatisfiable",
                               field, len>>)
                 /\ UNCHANGED <<zone, mode, stack, events>>
              \/ /\ s.verdict = "Done" /\ LenFits(at, len)
                 /\ AskLen(field, len, at)
  /\ UNCHANGED fed

\* The mode is written after the callback, so an unwinding sink leaves the
\* suspended mode in place over a spent payload.
FixedPayload(field, kind, c) ==
  LET d == Collected(c, zone, Need(kind))
  IN  /\ \/ /\ CollectVerdict(d, zone, Need(kind)) = "Done"
            /\ Put(Clear(d))
            /\ Event(<<"fixed", field, kind, d.carry.buf>>)
            /\ mode' = IF Unwinding THEN mode ELSE HeadMode
         \/ /\ CollectVerdict(d, zone, Need(kind)) = "More"
            /\ Put(d)
            /\ mode' = FixedTail(field, kind)
            /\ Return(<<"More">>)
            /\ UNCHANGED events
      /\ UNCHANGED <<zone, stack, fed>>

----------------------------------------------------------------------------
(* The drive arms.                                                         *)

Arm(k) == pc = "drive" /\ ~EndpointDue /\ chunk # << >> /\ mode.k = k

TagUnfinished ==
  /\ Arm("Head")
  /\ \E s \in Step(Cursor, TagWindow, zone, Standard) :
       /\ s.verdict # "Done"
       /\ Put(s.cursor)
       /\ Unfinished(s, <<"Tag">>)
  /\ UNCHANGED <<zone, mode, stack, events, fed>>

\* The completed tag at the cursor, when it is of the class.
Tagged(class) ==
  {s \in Step(Cursor, TagWindow, zone, Standard) :
     /\ s.verdict = "Done"
     /\ class = IF FieldOf(s.value) = 0 THEN "FieldZero" ELSE Classify(Low3(s.value))}

VarintRecord ==
  /\ Arm("Head")
  /\ \E s \in Tagged("Varint") : VarintValue(FieldOf(s.value), s.cursor)

LenRecord ==
  /\ Arm("Head")
  /\ \E s \in Tagged("Len") : LenWord(FieldOf(s.value), s.cursor)

\* A fixed width is admitted against the zone before collection starts.
FixedRecord(kind) ==
  /\ Arm("Head")
  /\ \E s \in Tagged(kind) :
       /\ zone - s.cursor.off >= Need(kind)
       /\ FixedPayload(FieldOf(s.value), kind, s.cursor)

FixedOverrun(kind) ==
  /\ Arm("Head")
  /\ \E s \in Tagged(kind) :
       /\ zone - s.cursor.off < Need(kind)
       /\ Put(s.cursor)
       /\ Halt(s.cursor.off, <<"FixedOverrun", FieldOf(s.value)>>)
  /\ UNCHANGED <<zone, mode, stack, events, fed>>

GroupRecord ==
  /\ Arm("Head")
  /\ \E s \in Tagged("Group") :
       /\ Put(s.cursor)
       /\ IF Len(stack) >= Depth
          THEN /\ Halt(ConstructStart(Cursor), <<"DepthExceeded", FieldOf(s.value)>>)
               /\ UNCHANGED <<stack, events>>
          ELSE /\ stack' = Append(stack, GroupExtent(FieldOf(s.value)))
               /\ Event(<<"groupEnter", FieldOf(s.value), s.cursor.off>>)
  /\ UNCHANGED <<zone, mode, fed>>

\* group_end: only the innermost open container can be closed.
GroupEndRefusal(end) ==
  IF stack = << >> THEN <<"GroupEndOrphan", end>>
  ELSE IF Top.k = "Len" THEN <<"GroupEndAcrossLen", end, Top.field>>
  ELSE <<"GroupEndMismatch", end, Top.field>>

GroupEnd ==
  /\ Arm("Head")
  /\ \E s \in Tagged("GroupEnd") :
       LET end == FieldOf(s.value)
       IN  /\ Put(s.cursor)
           /\ IF stack # << >> /\ Top = GroupExtent(end)
              THEN /\ stack' = Pop
                   /\ Event(<<"groupExit", end, ConstructStart(Cursor)>>)
              ELSE /\ Halt(ConstructStart(Cursor), GroupEndRefusal(end))
                   /\ UNCHANGED <<stack, events>>
  /\ UNCHANGED <<zone, mode, fed>>

\* Tags the dialect has no record for.
TagRefused(class) ==
  /\ Arm("Head")
  /\ \E s \in Tagged(class) :
       /\ Put(s.cursor)
       /\ Halt(ConstructStart(Cursor),
               IF class = "FieldZero" THEN <<"FieldZero">>
               ELSE <<class, FieldOf(s.value), Low3(s.value)>>)
  /\ UNCHANGED <<zone, mode, stack, events, fed>>

ResumeVarint == Arm("VarintValue") /\ VarintValue(mode.field, Cursor)
ResumeLen == Arm("LenWord") /\ LenWord(mode.field, Cursor)
ResumeFixed == Arm("FixedTail") /\ FixedPayload(mode.field, mode.kind, Cursor)

\* The counting arms.  Fragments of one payload are joined in the history:
\* where a fragment ends is the chunking's choice.
Counted(n) ==
  /\ off' = off + n /\ chunk' = Skip(chunk, n)
  /\ mode' = Counting(mode.k, mode.remaining - n)
  /\ UNCHANGED <<zone, carry, stack, fed>>

Delivered(bytes) ==
  IF events[Len(events)][1] = "segment"
  THEN [events EXCEPT ![Len(events)] = <<"segment", @[2] \o bytes>>]
  ELSE Append(events, <<"segment", bytes>>)

Forward ==
  /\ Arm("Forward")
  /\ LET n == Least(mode.remaining, Len(chunk))
     IN  Counted(n) /\ events' = Delivered(SubSeq(chunk, 1, n)) /\ Answered

Swallow ==
  /\ Arm("Swallow")
  /\ Counted(Least(mode.remaining, Len(chunk)))
  /\ UNCHANGED <<pc, outcome, terminal, events>>

----------------------------------------------------------------------------

Drive ==
  \/ ExitLen \/ GroupUnclosedAtLenEnd \/ ChunkSpent
  \/ TagUnfinished \/ VarintRecord \/ LenRecord
  \/ \E kind \in {"I32", "I64"} : FixedRecord(kind) \/ FixedOverrun(kind)
  \/ GroupRecord \/ GroupEnd
  \/ \E class \in {"FieldZero", "GroupCode", "Unassigned"} : TagRefused(class)
  \/ ResumeVarint \/ ResumeLen \/ ResumeFixed
  \/ Forward \/ Swallow

\* Bounded input: MaxChunk and MaxStream cap what a behaviour feeds.
Chunks ==
  {bytes \in UNION {[1..n -> Bytes] : n \in 0..MaxChunk} : Len(fed) + Len(bytes) <= MaxStream}

\* A terminal or consumed machine takes no further call.
Over == pc = "gone" \/ (pc = "idle" /\ terminal)
Rest == Over /\ UNCHANGED vars

Next ==
  \/ \E bytes \in Chunks : Feed(bytes) \/ RefuseFeed(bytes)
  \/ Finish
  \/ Drive
  \/ Rest

\* feed is one synchronous call: once entered, its loop keeps running.
Spec == Init /\ [][Next]_vars /\ WF_vars(Drive)

----------------------------------------------------------------------------
(* Types.                                                                  *)

Field == Nat
FixedKinds == {"I32", "I64"}
Modes ==
  {HeadMode}
    \cup [k : {"VarintValue", "LenWord"}, field : Field]
    \cup [k : {"FixedTail"}, field : Field, kind : FixedKinds]
    \cup [k : {"Forward", "Swallow"}, remaining : Nat \ {0}]
Extents ==
  [k : {"Len"}, prev_zone : 0..MaxOff, field : Field] \cup [k : {"Group"}, field : Field]

\* The machine's state stays in the domains of the Rust types.
TypeOK ==
  /\ off \in Nat /\ zone \in 0..MaxOff
  /\ carry \in [acc : Seq(0..127), buf : Seq(Byte)]
  /\ mode \in Modes
  /\ stack \in Seq(Extents)
  /\ terminal \in BOOLEAN
  /\ pc \in {"idle", "drive", "gone"}
  /\ chunk \in Seq(Byte)

----------------------------------------------------------------------------
(* Safety.                                                                 *)

IsLen(s, i) == s[i].k = "Len"
NoLenBelow(s, i) == \A j \in 1..(i - 1) : ~IsLen(s, j)

\* The machine can still be driven: a feed is in progress or may follow.
Live == pc = "drive" \/ (pc = "idle" /\ ~terminal)

\* The cursor never passes the innermost endpoint, and what the fed chunk holds
\* stays below the root sentinel, so no addition to an offset can wrap.
CursorInside == off <= zone /\ off + Len(chunk) < MaxOff

\* The shadowed endpoints grow outwards, and a frame shadows the root sentinel
\* exactly when no LEN is open beneath it.
Nested(z, s) ==
  /\ \A i \in 1..Len(s) :
       IsLen(s, i) =>
         /\ z <= s[i].prev_zone
         /\ \A j \in 1..(i - 1) : IsLen(s, j) => s[i].prev_zone <= s[j].prev_zone
         /\ s[i].prev_zone = MaxOff <=> NoLenBelow(s, i)
  /\ z = MaxOff <=> NoLenBelow(s, Len(s) + 1)
ZonesNested == Nested(zone, stack)

\* What the mode still owes was admitted against the zone, and a suspended word
\* has room left in its window.
ModeAdmitted ==
  Live =>
    CASE mode.k \in {"Forward", "Swallow"} ->
           Width(Cursor) = 0 /\ off + mode.remaining <= zone
      [] mode.k = "FixedTail" ->
           Width(Cursor) < Need(mode.kind) /\ off + Need(mode.kind) - Width(Cursor) <= zone
      [] mode.k = "Head" -> Width(Cursor) < TagWindow.cap
      [] mode.k = "VarintValue" -> Width(Cursor) < ValueWindow.cap
      [] mode.k = "LenWord" -> Width(Cursor) < LenWindow.cap

\* Between two passes of the loop a cursor at the endpoint holds no word in
\* flight: Cut is reported by the very step that meets the seal, so the cascade
\* never has to skip an endpoint a word straddles.
EndpointsUnstraddled == Live /\ off = zone => EndpointDue

\* Every feed that returns More has resolved the endpoints it reached: finish,
\* which runs no cascade, cannot miss an exit event.
EndpointsResolved == pc = "idle" /\ ~terminal => off < zone

\* The latch is armed before the first callback of a feed.
Armed == pc = "drive" => terminal

\* The zone discipline, the invariant behind the unchecked branches.
ZoneDiscipline ==
  /\ CursorInside
  /\ ZonesNested
  /\ ModeAdmitted
  /\ EndpointsUnstraddled
  /\ EndpointsResolved
  /\ Armed

\* The unreachable_unchecked branches and the unchecked subtraction of the
\* kernel: the cascade never meets the root with an empty stack, a fixed
\* collection is never cut by the seal, and no step starts past its seal.
NoUndefined ==
  pc = "drive" =>
    /\ off <= zone
    /\ EndpointDue => stack # << >>
    /\ mode.k = "FixedTail" =>
         /\ Width(Cursor) <= Need(mode.kind)
         /\ CollectVerdict(Collected(Cursor, zone, Need(mode.kind)), zone, Need(mode.kind)) # "Cut"

\* The loop-fed accumulator agrees with the held bytes whenever a word can be
\* resumed: a completion need not re-read the buffer.
AccumulatorAgrees ==
  Live /\ mode.k # "FixedTail" => carry.acc = Digits(carry.buf)

\* Every pass of the drive loop consumes a byte or closes a container, or ends the feed.
ProgressPerPass ==
  [][pc = "drive" /\ pc' = "drive" => off' > off \/ Len(stack') < Len(stack)]_vars

\* A feed returns.
FeedReturns == pc = "drive" ~> pc # "drive"
=============================================================================
