--------------------------- MODULE ReplayRewrite ---------------------------
(* The rule-driven rewriter over a source that is read and not held          *)
(* (replay_rewrite/grouped.rs; the groupless twin is the same walk without   *)
(* the group arms). One walk judges the records and compiles the edit script *)
(* of ReplayScript, a second one folds it. An action is one record, one end  *)
(* tag or one container closed.                                              *)
(*                                                                           *)
(* The walk reads job.source, the entries the bytes spell, of which the      *)
(* source still has job.supply bytes: a record the supply cuts is met word   *)
(* by word. A fault stands at the head of the record it is about; which of   *)
(* the record's words it quotes, and the exhaustion of 64-bit offsets, are   *)
(* left out.                                                                 *)
EXTENDS Rewrite, ReplayScript

CONSTANT Entries   \* the records sources hold, at any depth

\* A record as its bytes spell it: a tag, a prefix of at least a byte before a
\* payload, group tags alone, and the payload the extent of what it holds.
ASSUME SourcesAssumption ==
  /\ \A e \in Entries :
       /\ e.tag \in Nat /\ e.prefix \in Nat /\ e.width \in Nat
       /\ e.kind # "Bad" => e.tag > 0 /\ e.tag + e.prefix <= e.width
       /\ e.kind \in {"Enter", "Exit"} => e.width = e.tag
       /\ e.kind = "Len" => /\ e.prefix > 0 /\ e.body \in Seq(Entries)
                            /\ e.tag + e.prefix + Widths(e.body) = e.width
  /\ \A j \in Jobs : j.source \in Seq(Entries) /\ j.supply \in 0..Widths(j.source)
  /\ None \notin Nat

VARIABLES frames,   \* the open containers, groups and LENs on one stack
          rest,     \* what the innermost LEN still holds
          zone,     \* where the innermost LEN ends
          entered,  \* the fields the matcher has entered
          silent,   \* open groups inside the current deletion
          receipt

measureVars == <<frames, rest, zone, entered, silent, receipt>>
replayVars == <<foldVars, measureVars>>

Met == rest[1]
TagEnd == off + Met.tag
PayloadAt == TagEnd + Met.prefix
MetEnd == off + Met.width
WordsEnd ==
  CASE Met.kind = "Len" -> PayloadAt
    [] Met.kind \in {"I32", "I64"} -> TagEnd
    [] OTHER -> MetEnd
PayloadShort == job.supply < MetEnd

Measuring == fate = <<"Measuring">>
OpenLens(stack) == SelectSeq(stack, LAMBDA frame : frame.kind = "Len")
Trail(stack) ==
  LET lens == OpenLens(stack) IN [i \in 1..Len(lens) |-> <<lens[i].field, lens[i].head>>]

\* Slip: a verdict inside an open LEN stands as it was raised.
Unarbitrated(kind, at, stack) == <<"Document", kind, at, Trail(stack)>>
\* The source is probed to the end of the outermost open LEN: a source that
\* falls short makes that record the fault, as the buffered rewriter, which
\* has every byte at hand, would have found it before its interior.
Arbitrated(kind, at, stack) ==
  LET lens == OpenLens(stack)
  IN IF lens # <<>> /\ job.supply < lens[1].end
     THEN <<"Document", "Truncated", lens[1].head, <<>>>>
     ELSE <<"Document", kind, at, Trail(stack)>>

Breaks(kind, at, stack) ==
  /\ fate' = Arbitrated(kind, at, stack)
  /\ UNCHANGED <<script, total, walk, off, step, handed, measureVars>>

\* The record is behind the pump; the compiler booked s, the caller's receipt r.
Books(s, r) ==
  /\ script' = s /\ receipt' = r /\ off' = MetEnd /\ rest' = Tail(rest)
  /\ UNCHANGED <<total, walk, step, handed, fate, frames, zone, entered, silent>>
Passes == Books(script, receipt)
Noted(name) == [receipt EXCEPT ![name] = @ + 1]

EnteredAt(f) == Append(entered, f)
HitsAt(f) == Selecting(Program, EnteredAt(f), {"Target"})
ActAt(f) == IF HitsAt(f) = <<>> THEN "None" ELSE Program[HitsAt(f)[1]].act
RoutedAt(f) == MatchesBelow(Program, EnteredAt(f), Fields)
AtDepthLimit == Len(frames) >= job.limit

Idle == fate = <<"Idle">>

\* No job is mounted yet.
NoReplay ==
  /\ script = NewScript /\ total = 0 /\ walk = 0 /\ off = 0 /\ step = 1 /\ handed = <<>>
  /\ frames = <<>> /\ rest = <<>> /\ zone = None /\ entered = <<>> /\ silent = 0
  /\ receipt = NoTally /\ fate = <<"Idle">>

\* The walk begins at the root.
BeginReplay ==
  /\ Idle /\ rest' = job.source /\ fate' = <<"Measuring">>
  /\ UNCHANGED <<script, total, walk, off, step, handed, frames, zone, entered, silent, receipt>>

-----------------------------------------------------------------------------
\* A LEN whose end is met settles its prefix; a group's end tag never came.
CloseFrame ==
  /\ Measuring /\ off = zone
  /\ LET frame == Last(frames)
         below == Front(frames)
         interior == script.outLen - frame.mark
     IN IF frame.kind # "Len" THEN Breaks("Grouping", off, below)
        ELSE IF interior # frame.declared /\ interior > LenMax
        THEN Breaks("Growth", frame.head, below)
        ELSE /\ script' = SettlePrefix(script, frame.slot, interior = frame.declared,
                                       <<PrefixToken(interior)>>)
             /\ frames' = below /\ rest' = frame.beyond /\ zone' = frame.prevZone
             /\ entered' = Front(entered)
             /\ UNCHANGED <<total, walk, off, step, handed, fate, silent, receipt>>

\* The walk ends where a record would begin: clean only at the root.
SourceEnds ==
  /\ Measuring /\ off # zone /\ off = job.supply
  /\ IF frames = <<>>
     THEN /\ total' = off /\ fate' = <<"Measured">>
          /\ UNCHANGED <<script, walk, off, step, handed, measureVars>>
     ELSE Breaks(IF Last(frames).kind = "Len" THEN "Truncated" ELSE "Grouping", off, frames)

\* A word refuses, or the source ends inside it.
Reading == Measuring /\ off # zone /\ off < job.supply
WordCut == job.supply < WordsEnd
WordBreaks ==
  /\ Reading /\ (Met.kind = "Bad" \/ WordCut)
  /\ Breaks(IF WordCut THEN "Varint" ELSE Met.breach, off, frames)
Reads == Reading /\ Met.kind # "Bad" /\ ~WordCut

-----------------------------------------------------------------------------
\* A group is judged at its head, charged to the one depth account, and opened.
OpenGroup(kind, s, r) ==
  /\ frames' = Append(frames, [kind |-> kind, field |-> Met.field, head |-> off])
  /\ script' = s /\ receipt' = r /\ off' = TagEnd /\ rest' = Tail(rest)
  /\ silent' = IF kind = "Vanish" THEN silent + 1 ELSE silent
  /\ entered' = IF kind = "Vanish" THEN entered ELSE EnteredAt(Met.field)
  /\ UNCHANGED <<total, walk, step, handed, fate, zone>>

GroupOpens ==
  /\ Reads /\ Met.kind = "Enter"
  /\ LET f == Met.field
         act == ActAt(f)
     IN IF silent = 0 /\ Len(HitsAt(f)) > 1 THEN Breaks("Conflict", off, frames)
        ELSE IF silent = 0 /\ act = "Replace" THEN Breaks("KindMismatch", off, frames)
        ELSE IF AtDepthLimit THEN Breaks("Depth", off, frames)
        ELSE IF silent > 0 THEN OpenGroup("Vanish", script, receipt)
        ELSE IF act = "Delete" THEN OpenGroup("Vanish", script, Noted("deleted"))
        ELSE IF act = "Normalize"
        THEN OpenGroup("Normal", Stage(SkipTo(script, TagEnd), <<TagToken(f, "Group")>>),
                   Noted("normalized"))
        ELSE OpenGroup("Group", CopyTo(script, TagEnd), receipt)

\* The pairing is verified; a deleted group's extent is sought past whole when
\* the outermost one closes.
GroupCloses ==
  /\ Reads /\ Met.kind = "Exit"
  /\ IF frames = <<>> \/ Last(frames).kind = "Len" \/ Last(frames).field # Met.field
     THEN Breaks("Grouping", off, frames)
     ELSE LET kind == Last(frames).kind
          IN /\ frames' = Front(frames) /\ off' = TagEnd /\ rest' = Tail(rest)
             /\ silent' = IF kind = "Vanish" THEN silent - 1 ELSE silent
             /\ entered' = IF kind = "Vanish" THEN entered ELSE Front(entered)
             /\ script' = CASE kind = "Vanish" ->
                                 IF silent = 1 THEN SkipTo(script, TagEnd) ELSE script
                            [] kind = "Normal" ->
                                 Stage(SkipTo(script, TagEnd), <<TagToken(Met.field, "End")>>)
                            [] OTHER -> CopyTo(script, TagEnd)
             /\ UNCHANGED <<total, walk, step, handed, fate, zone, receipt>>

-----------------------------------------------------------------------------
\* The record is one rule's. A LEN's payload is sought past before the booking.
Replaced(id) ==
  LET sought == SkipTo(CopyTo(script, TagEnd), MetEnd)
      value == ValueTokens(id)
  IN IF Met.kind = "Len" THEN Borrow(Stage(sought, <<value[1]>>), <<value[2]>>)
     ELSE Stage(sought, value)
Normalized ==
  LET tag == TagToken(Met.field, Met.kind)
  IN CASE Met.kind = "Varint" -> Stage(SkipTo(script, MetEnd), <<tag, <<"Minimal", off, Met.min>>>>)
       [] Met.kind = "Len" ->
            CopyTo(Stage(SkipTo(script, PayloadAt), <<tag, PrefixToken(MetEnd - PayloadAt)>>), MetEnd)
       [] OTHER -> CopyTo(Stage(SkipTo(script, TagEnd), <<tag>>), MetEnd)

Takes(id) ==
  IF Program[id].act = "Replace" /\ Program[id].kind # Met.kind
  THEN Breaks("KindMismatch", off, frames)
  ELSE IF PayloadShort THEN Breaks("Truncated", off, frames)
  ELSE CASE Program[id].act = "Delete" -> Books(SkipTo(script, MetEnd), Noted("deleted"))
         [] Program[id].act = "Replace" -> Books(Replaced(id), Noted("replaced"))
         [] OTHER -> Books(Normalized, Noted("normalized"))

\* A scalar's payload is crossed before any rule is asked.
ScalarRecord ==
  /\ Reads /\ Met.kind \in {"Varint", "I32", "I64"}
  /\ LET hits == HitsAt(Met.field)
     IN IF PayloadShort THEN Breaks("Truncated", off, frames)
        ELSE IF silent > 0 THEN Passes
        ELSE IF Len(hits) > 1 THEN Breaks("Conflict", off, frames)
        ELSE IF hits # <<>> THEN Takes(hits[1])
        ELSE Books(CopyTo(script, MetEnd), receipt)

\* A routed LEN is entered on its word; its payload is not probed.
Commits ==
  LET opened == OpenPrefix(CopyTo(script, TagEnd), PayloadAt)
  IN /\ script' = opened /\ receipt' = Noted("descended")
     /\ frames' = Append(frames, [kind |-> "Len", field |-> Met.field, head |-> off,
                                  slot |-> Len(opened.prefixes), mark |-> opened.outLen,
                                  declared |-> MetEnd - PayloadAt, end |-> MetEnd,
                                  prevZone |-> zone, beyond |-> Tail(rest)])
     /\ zone' = MetEnd /\ off' = PayloadAt /\ rest' = Met.body
     /\ entered' = EnteredAt(Met.field)
     /\ UNCHANGED <<total, walk, step, handed, fate, silent>>

LenIsMet ==
  /\ Reads /\ Met.kind = "Len"
  /\ LET hits == HitsAt(Met.field)
     IN IF silent > 0
        THEN IF PayloadShort THEN Breaks("Truncated", off, frames) ELSE Passes
        ELSE IF Len(hits) > 1 THEN Breaks("Conflict", off, frames)
        ELSE IF hits # <<>> THEN Takes(hits[1])
        ELSE IF RoutedAt(Met.field)
        THEN IF AtDepthLimit THEN Breaks("Depth", off, frames) ELSE Commits
        ELSE IF PayloadShort THEN Breaks("Truncated", off, frames)
        ELSE Books(CopyTo(script, MetEnd), receipt)

\* The source refuses to begin, to lend or to seek: the machine is dropped.
MeasureRefused ==
  /\ Measuring /\ fate' = <<"Source">>
  /\ UNCHANGED <<script, total, walk, off, step, handed, measureVars>>

MeasureNext ==
  CloseFrame \/ SourceEnds \/ WordBreaks \/ GroupOpens \/ GroupCloses \/ ScalarRecord
  \/ LenIsMet \/ MeasureRefused
ReplayNext == MeasureNext \/ (FoldNext /\ UNCHANGED measureVars)

\* The writer alone: a job is mounted, measured and folded.
ReplaySpec ==
  /\ job \in Jobs /\ NoReplay
  /\ [][(BeginReplay \/ ReplayNext) /\ UNCHANGED job]_<<job, replayVars>>
=============================================================================
