------------------------- MODULE TranscodeReference -------------------------
(***************************************************************************)
(* What a transcoding promises, stated over the whole input: what the rule *)
(* is told, what is written and how it ends depend on the bytes fed and on *)
(* the rule's answers, not on where the chunks were cut.  The reference    *)
(* reads the document with random access and copies source slices; a frame *)
(* knows itself whether it was dropped, and there is no stage, no carry    *)
(* and no mode.  Only TLC's runs use this module: it is recursive.         *)
(***************************************************************************)
EXTENDS Transcode, ScanReference

CONSTANT Ample   \* bound: an offset space no output reaches

\* The law the input is read under, and a reader of the output reads under.
Law == [standard |-> job.standard, root |-> MaxOff]
OutputLaw == [standard |-> job.standard, root |-> Ample]

LenFrames(frames) == {i \in DOMAIN frames : frames[i].k = "Len"}
Dropped(frames) == \E i \in DOMAIN frames : frames[i].dropped

\* r is the reading so far: what was told, what was written, the verdict.
Ends(r, verdict) == [r EXCEPT !.verdict = verdict]
Faults(r, at, breach) == Ends(r, <<"Fault", at, breach>>)
Tells(r, e) == [r EXCEPT !.events = Append(@, e)]
Writes(r, bytes) == [r EXCEPT !.written = @ \o bytes]
\* The ruling's bytes, and the breach at the record's head.
Rules(r, ruling, at) ==
  IF Upheld(ruling) THEN Writes(r, ruling.out)
  ELSE Faults(Writes(r, ruling.out), at, ruling.fault)
Faulted(r) == r.verdict # <<"Reading">>

WordBreach(r, pos, end, verdict) ==
  CASE verdict = "StreamEnd"  -> Faults(r, Len(fed), <<"Truncated">>)
    [] verdict = "NonMinimal" -> Faults(r, pos, <<"Minimality">>)
    [] verdict = "Cut"        -> Faults(r, end, <<"Varint">>)
    [] OTHER                  -> Faults(r, pos, <<"Varint">>)

\* The payload at pos that verb a disposes of: the part here, of len bytes.
Payload(r, a, field, at, pos, len) ==
  LET here  == Least(len, Len(fed) - pos)
      bytes == SubSeq(fed, pos + 1, pos + here)
      heard == IF here > 0 THEN Tells(r, <<"segment", bytes>>) ELSE r
      whole == here = len
      spent == IF whole THEN Tells(heard, <<"flush">>) ELSE heard
      Scant == Breaks(Zeros(len - 1), <<"TransformShortfall", field, 1>>)
      Excess == Breaks(<< >>, <<"TransformOverflow", field>>)
  IN  CASE a[2] = "Pass" -> Writes(r, bytes)
        [] a[2] = "Divert" /\ a[3] = "each" -> Writes(spent, bytes)
        [] a[2] = "Divert" /\ a[3] = "flush" -> IF whole THEN Writes(spent, Injected) ELSE spent
        [] a[2] = "Transform" /\ a[3] = "each" -> Writes(spent, Zeros(here))
        [] a[2] = "Transform" /\ a[3] = "flush" -> IF whole THEN Writes(spent, Zeros(len)) ELSE spent
        [] a[2] = "Transform" /\ a[3] = "short" ->
             IF ~whole \/ len = 0 THEN spent ELSE Rules(spent, Scant, at)
        [] a[2] = "Transform" /\ a[3] = "over" ->
             IF ~whole THEN spent ELSE Rules(spent, Excess, at)
        [] a[2] = "Transform" /\ a[3] = "greedy" ->
             IF len = 0 THEN spent ELSE IF here = 0 THEN heard ELSE Rules(heard, Excess, at)
        [] OTHER -> r

RECURSIVE Reading(_, _, _, _)
Reading(pos, frames, answers, r) ==
  LET end   == EndOf(Law, frames)
      tag   == Word(Law, fed, pos, end, TagWindow)
      field == FieldOf(tag.value)
      class == ClassifyGrouped(Low3(tag.value))
      mute  == Dropped(frames)
      sealed == LenFrames(frames) # {}
      a     == Head(answers)
      Source(from, to) == SubSeq(fed, from + 1, to)
      Stuck == Ends(r, <<"Unanswered">>)
      GoOn(to, asked, next) ==
        IF Faulted(next) THEN next
        ELSE Reading(to, frames, IF asked THEN Tail(answers) ELSE answers, next)
      Asked(e) == Rules(Tells(r, Append(e, a)), Before(a[1], field), pos)
      \* What a scalar record becomes.
      Becomes(e, to, rewritten) ==
        LET asked == Asked(e)
        IN  IF mute THEN GoOn(to, FALSE, r)
            ELSE IF answers = << >> THEN Stuck
            ELSE IF Faulted(asked) THEN asked
            ELSE GoOn(to, TRUE,
                      CASE a[2] = "Keep"    -> Writes(asked, Source(pos, to))
                        [] a[2] = "Drop"    -> asked
                        [] a[2] = "Rewrite" -> Rules(asked, rewritten, pos))

      AfterVarint ==
        LET w     == Word(Law, fed, tag.pos, end, ValueWindow)
            width == w.pos - tag.pos
            least == EncodedLen(a[3])
            fits  == least = width \/ (job.standard = "Tolerant" /\ least < width)
            pad   == [i \in 1..(width - least) |-> IF i = width - least THEN 0 ELSE 128]
            body  == [i \in 1..least |->
                        a[3][i] + IF i < least \/ (sealed /\ width > least) THEN 128 ELSE 0]
            rewritten ==
              IF ~sealed THEN Ruling(Source(pos, tag.pos) \o body)
              ELSE IF fits THEN Ruling(Source(pos, tag.pos) \o body \o pad)
              ELSE Breaks(<< >>, <<IF job.standard = "Tolerant" THEN "RewriteOverflow"
                                   ELSE "RewriteWidthMismatch", field, width, least>>)
        IN  IF w.verdict # "Done" THEN WordBreach(r, tag.pos, end, w.verdict)
            ELSE Becomes(<<"varint", pos, field, Value(w.value), width>>, w.pos, rewritten)

      AfterFixed ==
        LET past == tag.pos + Need(class)
        IN  IF past > end THEN Faults(r, tag.pos, <<"Truncated">>)
            ELSE IF past > Len(fed) THEN Faults(r, Len(fed), <<"Truncated">>)
            ELSE Becomes(<<"fixed", pos, field, Source(tag.pos, past)>>, past,
                         Ruling(Source(pos, tag.pos) \o Zeros(Need(class))))

      AfterLen ==
        LET w     == Word(Law, fed, tag.pos, end, LenWindow)
            len   == Length(w.value)
            past  == w.pos + len
            asked == Asked(<<"len", pos, field, len>>)
            frame == Writes(asked, Source(pos, w.pos))
            done  ==
              CASE a[2] \in {"Pass", "Transform"} -> Payload(frame, a, field, pos, w.pos, len)
                [] a[2] \in {"Divert", "Drop"}    -> Payload(asked, a, field, pos, w.pos, len)
                [] a[2] = "Replace" /\ a[3] = "exact" -> Writes(frame, Zeros(len))
                [] a[2] = "Replace" /\ a[3] = "other" ->
                     Faults(asked, pos, <<"ReplaceLenMismatch", field, len, len + 1>>)
                [] a[2] = "ReplaceSource" -> Rules(frame, Pull(Zeros(len), a[3], field), pos)
            Through(next, some) ==
              IF Faulted(next) THEN next
              ELSE IF past > Len(fed) THEN Faults(next, Len(fed), <<"Truncated">>)
              ELSE GoOn(past, some, next)
        IN  IF w.verdict # "Done" THEN WordBreach(r, tag.pos, end, w.verdict)
            ELSE IF sealed /\ past > end THEN Faults(r, w.pos, <<"Truncated">>)
            ELSE IF past >= MaxOff THEN Faults(r, w.pos, <<"OffsetExhausted">>)
            ELSE IF mute THEN Through(r, FALSE)
            ELSE IF answers = << >> THEN Stuck
            ELSE IF Faulted(asked) THEN asked
            ELSE IF a[2] # "Commit" THEN Through(done, TRUE)
            ELSE IF Len(frames) = Depth THEN Faults(asked, w.pos, <<"Depth">>)
            ELSE Reading(w.pos,
                         Append(frames, [k |-> "Len", end |-> past, field |-> field,
                                         dropped |-> FALSE]),
                         Tail(answers), frame)

      AfterGroup ==
        LET asks  == ~mute /\ ~sealed
            asked == IF asks THEN Asked(<<"group", pos, field>>) ELSE r
            drops == asks /\ a[2] = "Drop"
            kept  == Tells(Writes(asked, Source(pos, tag.pos)), <<"groupEnter", field, tag.pos>>)
        IN  IF Len(frames) = Depth THEN Faults(r, pos, <<"Depth">>)
            ELSE IF asks /\ answers = << >> THEN Stuck
            ELSE IF Faulted(asked) THEN asked
            ELSE Reading(tag.pos,
                         Append(frames, [k |-> "Group", field |-> field, dropped |-> drops]),
                         IF asks THEN Tail(answers) ELSE answers,
                         IF mute \/ drops THEN asked ELSE kept)

      AfterGroupEnd ==
        IF frames = << >> \/ Last(frames).k = "Len" \/ Last(frames).field # field
        THEN Faults(r, pos, <<"Grouping">>)
        ELSE Reading(tag.pos, Front(frames), answers,
                     IF mute THEN r
                     ELSE Tells(Writes(r, Source(pos, tag.pos)), <<"groupExit", field, pos>>))

  IN  IF pos = end
      THEN IF Last(frames).k = "Group" THEN Faults(r, pos, <<"Grouping">>)
           ELSE Reading(pos, Front(frames), answers,
                        Tells(r, <<"lenExit", Last(frames).field, pos>>))
      ELSE IF pos = Len(fed)
      THEN IF frames = << >> THEN Ends(r, <<"Clean">>)
           ELSE Faults(r, pos, IF Last(frames).k = "Len" THEN <<"Truncated">> ELSE <<"Grouping">>)
      ELSE IF tag.verdict # "Done" THEN WordBreach(r, pos, end, tag.verdict)
      ELSE IF field = 0 THEN Faults(r, pos, <<"Tag">>)
      ELSE CASE class = "Varint"     -> AfterVarint
             [] class \in FixedKinds -> AfterFixed
             [] class = "Len"        -> AfterLen
             [] class = "Group"      -> AfterGroup
             [] class = "GroupEnd"   -> AfterGroupEnd
             [] OTHER                -> Faults(r, pos, <<"Tag">>)

AskedOf(e) == e[1] \in {"varint", "fixed", "len", "group"}
RuleAnswers == LET asked == SelectSeq(events, AskedOf) IN [i \in DOMAIN asked |-> Last(asked[i])]
WholeReading ==
  Reading(0, << >>, RuleAnswers, [events |-> << >>, written |-> << >>, verdict |-> <<"Reading">>])

Transcoded == job.machine = "transcoder" /\ pc # "drive" /\ outcome # <<"Unwound">>
Exhausted == outcome[1] = "Fault" /\ outcome[3] = <<"OffsetExhausted">>
\* What finish adds to a clean end.
TailNotes == IF pc = "gone" /\ outcome = <<"Clean">> THEN <<Last(events)>> ELSE << >>
TailBytes == IF TailNotes = << >> THEN << >> ELSE TailNotes[1][2]

Agrees(whole) ==
  /\ events = whole.events \o TailNotes
  /\ written = whole.written \o TailBytes
  /\ terminal /\ ~Exhausted => whole.verdict = outcome
  /\ pc = "gone" => whole.verdict = outcome
  /\ pc = "idle" /\ ~terminal => whole.verdict = EndVerdict

\* Wherever the chunks were cut, between feeds the rule has been told exactly
\* what the whole input tells it, exactly the bytes its answers make of the
\* input have left, none of them for a record not yet ruled on or inside a
\* dropped group, and a breach is the whole input's at its coordinate
\* (Transcoder::feed, finish).
TranscodeIsExact == Transcoded => Agrees(WholeReading)

\* How a reader of the output disposes of the LENs in it: the committed ones
\* are entered again, the others skipped.
Reopened ==
  LET Framed(e) == e[1] = "len" /\ e[5][2] \notin {"Drop", "Divert"}
      lens == SelectSeq(events, Framed)
  IN  [i \in DOMAIN lens |-> IF lens[i][5][2] = "Commit" THEN "Commit" ELSE "OpaqueSkip"]

\* A diverted payload echoed at the root is the rule's own declaration.
Echoed == \E i \in DOMAIN events : events[i][1] = "len" /\ Tail(events[i][5]) = <<"Divert", "each">>

\* Output re-ingests (the module's acceptance promise): after a clean finish the
\* whole output is a document under the standard the job declared, down to the
\* ends of every message that was entered, padded rewrites included.
OutputReingests ==
  job.machine = "transcoder" /\ pc = "gone" /\ outcome = <<"Clean">> /\ ~Echoed =>
    Parse(OutputLaw, written, 0, << >>, Reopened, << >>).verdict = <<"Clean">>
=============================================================================
