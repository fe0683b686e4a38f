--------------------------- MODULE ScanReference ----------------------------
(***************************************************************************)
(* What a scan promises, stated over the whole stream: the events and the  *)
(* verdict are a function of the bytes fed and of the sink's answers, not  *)
(* of where the chunks were cut.  The reference reads the concatenated     *)
(* bytes with random access, keeps absolute LEN ends instead of shadowed   *)
(* zones and has no carry, no mode and no notion of a chunk.  It reads     *)
(* under a law, [standard, root]: the acceptance standard and the end of   *)
(* the offset space.  Only TLC's runs use this module: it is recursive.    *)
(***************************************************************************)
EXTENDS Scan, SequencesExt

OwnLaw == [standard |-> Standard, root |-> MaxOff]

\* The end of the innermost open LEN.
EndOf(law, frames) ==
  LET lens == {i \in DOMAIN frames : frames[i].k = "Len"}
  IN  IF lens = {} THEN law.root ELSE frames[CHOOSE i \in lens : \A j \in lens : j <= i].end

\* A varint of s read at pos, before end.
Word(law, s, pos, end, w) ==
  LET limit == Least(w.cap, end - pos)
      stops == {i \in 1..limit : pos + i <= Len(s) /\ s[pos + i] < 128}
      width == CHOOSE i \in stops : \A j \in stops : i <= j
      digits == Digits(SubSeq(s, pos + 1, pos + width))
  IN  IF stops # {}
      THEN IF width = w.cap /\ s[pos + width] > w.last THEN [verdict |-> "OutOfClass"]
           ELSE IF law.standard = "CanonicalMinimal" /\ width > 1 /\ s[pos + width] = 0
           THEN [verdict |-> "NonMinimal"]
           ELSE [verdict |-> "Done", pos |-> pos + width, value |-> digits]
      ELSE IF pos + limit > Len(s) THEN [verdict |-> "StreamEnd"]
      ELSE [verdict |-> IF limit = w.cap THEN "TooWide" ELSE "Cut"]

\* The refusal of a word met at pos.
WordFault(s, pos, end, stage, verdict) ==
  CASE verdict = "StreamEnd"  -> <<"Fault", Len(s), <<"Read", stage, "StreamEnd">>>>
    [] verdict = "NonMinimal" -> <<"Fault", pos, <<"NonMinimal", stage>>>>
    [] verdict = "Cut"        -> <<"Fault", end, <<"Read", stage, "Cut">>>>
    [] OTHER                  -> <<"Fault", pos, <<"Read", stage, verdict>>>>

AtEnd(s, frames) ==
  IF frames = << >> THEN <<"Clean">>
  ELSE <<"Fault", Len(s),
         <<IF Last(frames).k = "Len" THEN "UnclosedLen" ELSE "GroupUnclosed",
           Last(frames).field>>>>

\* Parse the rest of s from pos with `frames` open; `answers` are the
\* dispositions still to be given, `told` the events so far.
RECURSIVE Parse(_, _, _, _, _, _)
Parse(law, s, pos, frames, answers, told) ==
  LET end == EndOf(law, frames)
      tag == Word(law, s, pos, end, TagWindow)
      field == FieldOf(tag.value)
      class == Classify(Low3(tag.value))
      Fault(at, kind) == [events |-> told, verdict |-> <<"Fault", at, kind>>]
      Refuse(at, stage, verdict) ==
        [events |-> told, verdict |-> WordFault(s, at, end, stage, verdict)]

      AfterVarint ==
        LET w == Word(law, s, tag.pos, end, ValueWindow)
        IN  IF w.verdict # "Done" THEN Refuse(tag.pos, <<"Value", field>>, w.verdict)
            ELSE Parse(law, s, w.pos, frames, answers,
                       Append(told, <<"varint", field, Value(w.value)>>))

      AfterFixed ==
        LET past == tag.pos + Need(class)
        IN  IF past > end THEN Fault(tag.pos, <<"FixedOverrun", field>>)
            ELSE IF past > Len(s) THEN Fault(Len(s), <<"FixedTruncated", field>>)
            ELSE Parse(law, s, past, frames, answers,
                       Append(told, <<"fixed", field, class, SubSeq(s, tag.pos + 1, past)>>))

      AfterLen ==
        LET w    == Word(law, s, tag.pos, end, LenWindow)
            len  == Length(w.value)
            past == w.pos + len
            here == Least(past, Len(s))
            d    == Head(answers)
            asked == Append(told, <<"len", field, len, w.pos, d>>)
            heard == IF d = "OpaqueBytes" /\ here > w.pos
                     THEN Append(asked, <<"segment", SubSeq(s, w.pos + 1, here)>>)
                     ELSE asked
        IN  IF w.verdict # "Done" THEN Refuse(tag.pos, <<"LenPrefix", field>>, w.verdict)
            ELSE IF end < law.root /\ past > end THEN Fault(w.pos, <<"LenOverrun", field, len>>)
            ELSE IF past >= law.root THEN Fault(w.pos, <<"LenUnsatisfiable", field, len>>)
            ELSE IF answers = << >> THEN [events |-> told, verdict |-> <<"Unanswered">>]
            ELSE IF d = "Commit"
            THEN IF Len(frames) = Depth
                 THEN [events |-> asked, verdict |-> <<"Fault", w.pos, <<"DepthExceeded", field>>>>]
                 ELSE Parse(law, s, w.pos,
                            Append(frames, [k |-> "Len", end |-> past, field |-> field]),
                            Tail(answers), asked)
            ELSE IF past > Len(s)
            THEN [events |-> heard,
                  verdict |-> <<"Fault", Len(s), <<"PayloadTruncated", past - Len(s)>>>>]
            ELSE Parse(law, s, past, frames, Tail(answers), heard)

      AfterGroup ==
        IF Len(frames) = Depth THEN Fault(pos, <<"DepthExceeded", field>>)
        ELSE Parse(law, s, tag.pos, Append(frames, [k |-> "Group", field |-> field]), answers,
                   Append(told, <<"groupEnter", field, tag.pos>>))

      AfterGroupEnd ==
        IF frames = << >> THEN Fault(pos, <<"GroupEndOrphan", field>>)
        ELSE IF Last(frames).k = "Len"
        THEN Fault(pos, <<"GroupEndAcrossLen", field, Last(frames).field>>)
        ELSE IF Last(frames).field # field
        THEN Fault(pos, <<"GroupEndMismatch", field, Last(frames).field>>)
        ELSE Parse(law, s, tag.pos, Front(frames), answers,
                   Append(told, <<"groupExit", field, pos>>))

  IN  IF pos = end
      THEN IF Last(frames).k = "Group"
           THEN Fault(pos, <<"GroupUnclosedAtLenEnd", Last(frames).field>>)
           ELSE Parse(law, s, pos, Front(frames), answers,
                      Append(told, <<"lenExit", Last(frames).field, pos>>))
      ELSE IF pos = Len(s) THEN [events |-> told, verdict |-> AtEnd(s, frames)]
      ELSE IF tag.verdict # "Done" THEN Refuse(pos, <<"Tag">>, tag.verdict)
      ELSE IF field = 0 THEN Fault(pos, <<"FieldZero">>)
      ELSE CASE class = "Varint"   -> AfterVarint
             [] class \in FixedKinds -> AfterFixed
             [] class = "Len"      -> AfterLen
             [] class = "Group"    -> AfterGroup
             [] class = "GroupEnd" -> AfterGroupEnd
             [] OTHER -> Fault(pos, <<class, field, Low3(tag.value)>>)

Answers == LET Asked(e) == e[1] = "len"
               asked == SelectSeq(events, Asked)
           IN  [i \in DOMAIN asked |-> asked[i][5]]
Whole == Parse(OwnLaw, fed, 0, << >>, Answers, << >>)

\* Whatever the chunking, between feeds the sink has seen exactly the whole
\* stream's events, a fault is the whole stream's fault at the same coordinate,
\* and finish would give the whole stream's verdict.
ChunkingInvisible ==
  pc # "drive" /\ outcome[1] \notin {"Stopped", "Unwound"} =>
    LET exhausted == outcome[1] = "Fault" /\ outcome[3][1] = "OffsetExhausted"
    IN  /\ Whole.events = events
        /\ terminal /\ ~exhausted => Whole.verdict = outcome
        /\ pc = "gone" => Whole.verdict = outcome
        /\ pc = "idle" /\ ~terminal => Whole.verdict = FinishVerdict
=============================================================================
