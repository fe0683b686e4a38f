------------------------------ MODULE RootScan ------------------------------
(***************************************************************************)
(* The groupless verdict machine: Validator of src/src/scan/groupless.rs   *)
(* over the RootPump of src/src/pump.rs.  It is the parser without a sink, *)
(* a container stack, a sealed zone and a poison latch, written a second   *)
(* time; the machine it must agree with is Scan, driven by a sink that     *)
(* skips every payload.                                                    *)
(***************************************************************************)
EXTENDS Carry

CONSTANTS
  Standard,      \* "Tolerant" or "CanonicalMinimal"
  MaxOff,        \* u64::MAX, the only endpoint
  Bytes,         \* the bytes a chunk may hold
  MaxStream,     \* bound: bytes fed in a behaviour
  MaxChunk       \* bound: bytes of one chunk

ASSUME RootAssumption ==
  /\ Standard \in {"Tolerant", "CanonicalMinimal"}
  /\ MaxOff \in Nat \ {0}
  /\ Bytes \subseteq Byte
  /\ MaxStream \in Nat /\ MaxChunk \in Nat

VARIABLES
  off, carry, mode, terminal,   \* RootPump and Resume
  pc, chunk, outcome,           \* the feed in progress and the last result
  passed, fed                   \* history: the records met, the bytes admitted

vars == <<off, carry, mode, terminal, pc, chunk, outcome, passed, fed>>

HeadMode == [k |-> "Head"]
Waiting(k, field) == [k |-> k, field |-> field]
FixedTail(field, kind) == [k |-> "FixedTail", field |-> field, kind |-> kind]
\* Slip: no zero judgement at the end of a count.
SwallowingUnjudged(remaining) == [k |-> "Swallow", remaining |-> remaining]
Swallowing(remaining) ==
  IF remaining = 0 THEN HeadMode ELSE [k |-> "Swallow", remaining |-> remaining]

Need(kind) == IF kind = "I64" THEN 8 ELSE 4

\* The groupless wire table.
Classify(low3) ==
  CASE low3 = 0 -> "Varint" [] low3 = 1 -> "I64" [] low3 = 2 -> "Len" [] low3 = 5 -> "I32"
    [] low3 \in {3, 4} -> "GroupCode" [] OTHER -> "Unassigned"

Cursor == CursorAt(off, chunk, carry)
Put(c) == off' = c.off /\ chunk' = c.chunk /\ carry' = c.carry

Init ==
  /\ off = 0 /\ carry = EmptyCarry /\ mode = HeadMode /\ terminal = FALSE
  /\ pc = "idle" /\ chunk = << >> /\ outcome = <<"New">>
  /\ passed = << >> /\ fed = << >>

\* Only a fault latches the machine; an orderly return leaves it live.
Suspend == pc' = "idle" /\ outcome' = <<"More">> /\ UNCHANGED terminal
Halt(at, kind) == pc' = "idle" /\ outcome' = <<"Fault", at, kind>> /\ terminal' = TRUE
Continue == UNCHANGED <<pc, outcome, terminal>>

\* Slip: the root's own coordinate is given away.
AdmitsToTheRoot(bytes) == Len(bytes) <= MaxOff - off
Admits(bytes) == Len(bytes) <= MaxOff - 1 - off

Feed(bytes) ==
  /\ pc = "idle" /\ ~terminal
  /\ fed' = IF Admits(bytes) THEN fed \o bytes ELSE fed
  /\ IF Admits(bytes)
     THEN pc' = "drive" /\ chunk' = bytes /\ UNCHANGED <<outcome, terminal>>
     ELSE Halt(off, <<"OffsetExhausted">>) /\ UNCHANGED chunk
  /\ UNCHANGED <<off, carry, mode, passed>>

FinishKind ==
  CASE mode.k = "Head" -> IF Width(Cursor) = 0 THEN <<"Clean">>
                          ELSE <<"Read", <<"Tag">>, "StreamEnd">>
    [] mode.k = "VarintValue" -> <<"Read", <<"Value", mode.field>>, "StreamEnd">>
    [] mode.k = "LenWord" -> <<"Read", <<"LenPrefix", mode.field>>, "StreamEnd">>
    [] mode.k = "FixedTail" -> <<"FixedTruncated", mode.field>>
    [] mode.k = "Swallow" -> <<"PayloadTruncated", mode.remaining>>
FinishVerdict ==
  IF FinishKind = <<"Clean">> THEN <<"Clean">> ELSE <<"Fault", off, FinishKind>>

Finish ==
  /\ pc = "idle" /\ ~terminal
  /\ pc' = "gone" /\ outcome' = FinishVerdict
  /\ UNCHANGED <<off, carry, mode, terminal, chunk, passed, fed>>

\* A word this machine can be suspended in or refuse, never cut at.
Unfinished(s, stage) ==
  IF s.verdict = "More" THEN Suspend
  ELSE Halt(ConstructStart(s.cursor),
            IF s.verdict = "NonMinimal" THEN <<"NonMinimal", stage>>
            ELSE <<"Read", stage, s.verdict>>)

VarintValue(field, c) ==
  /\ \E s \in Step(c, ValueWindow, MaxOff, Standard) :
       /\ Put(s.cursor)
       /\ IF s.verdict = "Done"
          THEN /\ mode' = HeadMode /\ Continue
               /\ passed' = Append(passed, <<"varint", field, Value(s.value)>>)
          ELSE /\ mode' = IF s.verdict = "More" THEN Waiting("VarintValue", field) ELSE mode
               /\ Unfinished(s, <<"Value", field>>)
               /\ UNCHANGED passed
  /\ UNCHANGED fed

LenWord(field, c) ==
  /\ \E s \in Step(c, LenWindow, MaxOff, Standard) :
       LET len == Length(s.value)
           at  == s.cursor.off
       IN  /\ Put(s.cursor)
           /\ IF s.verdict # "Done"
              THEN /\ mode' = IF s.verdict = "More" THEN Waiting("LenWord", field) ELSE mode
                   /\ Unfinished(s, <<"LenPrefix", field>>)
                   /\ UNCHANGED passed
              ELSE IF at + len < MaxOff
              THEN /\ mode' = Swallowing(len) /\ Continue
                   /\ passed' = Append(passed, <<"len", field, len, at, "OpaqueSkip">>)
              ELSE /\ Halt(at, <<"LenUnsatisfiable", field, len>>)
                   /\ UNCHANGED <<mode, passed>>
  /\ UNCHANGED fed

FixedPayload(field, kind, c) ==
  LET d == Collected(c, MaxOff, Need(kind))
  IN  /\ IF CollectVerdict(d, MaxOff, Need(kind)) = "Done"
         THEN /\ Put(Clear(d)) /\ mode' = HeadMode /\ Continue
              /\ passed' = Append(passed, <<"fixed", field, kind, d.carry.buf>>)
         ELSE /\ Put(d) /\ mode' = FixedTail(field, kind) /\ Suspend
              /\ UNCHANGED passed
      /\ UNCHANGED fed

Arm(k) == pc = "drive" /\ chunk # << >> /\ mode.k = k

ChunkSpent ==
  /\ pc = "drive" /\ chunk = << >>
  /\ Suspend
  /\ UNCHANGED <<off, carry, mode, chunk, passed, fed>>

RecordHead ==
  /\ Arm("Head")
  /\ \E s \in Step(Cursor, TagWindow, MaxOff, Standard) :
       LET field == FieldOf(s.value)
           class == IF field = 0 THEN "FieldZero" ELSE Classify(Low3(s.value))
           Stand == Put(s.cursor) /\ UNCHANGED <<mode, passed, fed>>
       IN  \/ /\ s.verdict # "Done"
              /\ Unfinished(s, <<"Tag">>) /\ Stand
           \/ /\ s.verdict = "Done" /\ class = "Varint"
              /\ VarintValue(field, s.cursor)
           \/ /\ s.verdict = "Done" /\ class = "Len"
              /\ LenWord(field, s.cursor)
           \/ /\ s.verdict = "Done" /\ class \in {"I32", "I64"}
              /\ MaxOff - s.cursor.off >= Need(class)
              /\ FixedPayload(field, class, s.cursor)
           \/ /\ s.verdict = "Done" /\ class \in {"I32", "I64"}
              /\ MaxOff - s.cursor.off < Need(class)
              /\ Halt(s.cursor.off, <<"FixedOverrun", field>>) /\ Stand
           \/ /\ s.verdict = "Done" /\ class = "FieldZero"
              /\ Halt(ConstructStart(Cursor), <<"FieldZero">>) /\ Stand
           \/ /\ s.verdict = "Done" /\ class \in {"GroupCode", "Unassigned"}
              /\ Halt(ConstructStart(Cursor), <<class, field, Low3(s.value)>>) /\ Stand

ResumeVarint == Arm("VarintValue") /\ VarintValue(mode.field, Cursor)
ResumeLen == Arm("LenWord") /\ LenWord(mode.field, Cursor)
ResumeFixed == Arm("FixedTail") /\ FixedPayload(mode.field, mode.kind, Cursor)

Swallow ==
  /\ Arm("Swallow")
  /\ LET n == Least(mode.remaining, Len(chunk))
     IN  /\ off' = off + n /\ chunk' = Skip(chunk, n)
         /\ mode' = Swallowing(mode.remaining - n)
  /\ UNCHANGED <<carry, terminal, pc, outcome, passed, fed>>

Drive == ChunkSpent \/ RecordHead \/ ResumeVarint \/ ResumeLen \/ ResumeFixed \/ Swallow

\* Bounded input: MaxChunk and MaxStream cap what a behaviour feeds.
Chunks ==
  {bytes \in UNION {[1..n -> Bytes] : n \in 0..MaxChunk} : Len(fed) + Len(bytes) <= MaxStream}

\* A terminal or consumed machine takes no further call.
Rest == (pc = "gone" \/ (pc = "idle" /\ terminal)) /\ UNCHANGED vars

Next == (\E bytes \in Chunks : Feed(bytes)) \/ Finish \/ Drive \/ Rest

\* feed is one synchronous call: once entered, its loop keeps running.
Spec == Init /\ [][Next]_vars /\ WF_vars(Drive)

----------------------------------------------------------------------------
(* The parser it must agree with.                                          *)

\* Nothing descends, so the stack is empty and the zone is the root's; the
\* parser's latch is armed for the whole drive.
P == INSTANCE Scan WITH
  Dialect <- "groupless", Depth <- 0, SinkAnswers <- {"continue"},
  Dispositions <- {"OpaqueSkip"}, zone <- MaxOff, stack <- << >>,
  terminal <- terminal \/ pc = "drive", events <- passed

\* The verdicts are the parser's exactly (groupless.rs:941): every pass of the
\* Validator is a pass of the Parser over a sink that skips every payload.
ImplementsParser == P!Spec

\* RootPump compiles the kernel's cut away: with no zone below the root, neither
\* a word nor a fixed collection may report it, nor start past the root.
CutUnreachable ==
  pc = "drive" /\ chunk # << >> =>
    /\ off < MaxOff
    /\ mode.k = "FixedTail" =>
         CollectVerdict(Collected(Cursor, MaxOff, Need(mode.kind)), MaxOff, Need(mode.kind)) # "Cut"
    /\ \A w \in {TagWindow, LenWindow, ValueWindow} :
         w.cap > Width(Cursor) =>
           \A s \in Step(Cursor, w, MaxOff, Standard) : s.verdict # "Cut"
=============================================================================
