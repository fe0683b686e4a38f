------------------------------ MODULE Convert ------------------------------
(* The converter out of the grouped language (convert/groupless.rs): every   *)
(* group is re-framed as a LEN record of the same field. A body's length is  *)
(* not known at its start tag. The Vec faces author a one-byte hole and      *)
(* settle it at the end tag; the sink face measures every body into a ledger *)
(* first, seals it, and walks again to emit. The first walk drives the Vec   *)
(* faces and the measuring pass side by side, each until it refuses.         *)
EXTENDS Splice

VARIABLES entries,   \* what the running walk has not delivered
          place,     \* its offset
          groups,    \* the groups it has open
          online,    \* the Vec faces' emitter
          measure,   \* the measuring pass: open bodies, root first, and the ledger
          replay,    \* the emit pass
          vecFate, sinkFate

convertVars == <<entries, place, groups, online, measure, replay, vecFate, sinkFate>>

Entry == entries[1]
EntryEnd == place + Entry.width

-----------------------------------------------------------------------------
\* The Vec faces. Source bytes are held in a run until a group event, so the
\* cap is judged there; a hole is known by the place just past it.
NewOnline == [out |-> <<>>, run |-> <<>>, holes |-> <<>>, over |-> FALSE]

OnlineFlush(o) ==
  IF o.run = <<>> THEN o ELSE Appends([o EXCEPT !.run = <<>>], Source(o.run[1], o.run[2]))
OnlineRides(o) == [o EXCEPT !.run = IF @ = <<>> THEN <<place, EntryEnd>> ELSE <<@[1], EntryEnd>>]
OnlineEnter(o) ==
  LET opened == Appends(OnlineFlush(o), <<TagToken(Entry.field, "Len"), None>>)
  IN IF opened.over THEN opened ELSE [opened EXCEPT !.holes = Append(@, Len(opened.out))]

\* Slip: every body is taken to fit its one-byte hole.
OnlineExitNarrow(o) ==
  LET flushed == OnlineFlush(o)
      past == Last(flushed.holes)
  IN IF flushed.over THEN flushed
     ELSE [flushed EXCEPT !.holes = Front(@),
                          !.out = [@ EXCEPT ![past] = Word(Len(flushed.out) - past)[1]]]
\* A body that needs a wider prefix is slid right.
OnlineExit(o) ==
  LET flushed == OnlineFlush(o)
      past == Last(flushed.holes)
      length == Len(flushed.out) - past
  IN IF flushed.over THEN flushed
     ELSE IF Len(flushed.out) + PrefixWidth(length) - 1 > LenMax THEN [flushed EXCEPT !.over = TRUE]
     ELSE [flushed EXCEPT !.holes = Front(@),
                          !.out = SubSeq(@, 1, past - 1) \o Word(length)
                                  \o SubSeq(@, past + 1, Len(@))]

-----------------------------------------------------------------------------
\* The measuring pass. Slots are claimed at enters and filled at exits.
NewMeasure == [frames |-> <<[total |-> 0, head |-> 0, slot |-> 0]>>, ledger |-> <<>>]

Body == Last(measure.frames)
Counts(m, n) == [m EXCEPT !.frames[Len(m.frames)].total = @ + n]
Claims(m) ==
  [m EXCEPT !.ledger = Append(@, 0),
            !.frames = Append(@, [total |-> 0, head |-> place, slot |-> Len(m.ledger) + 1])]
Fills(m) ==
  Counts([m EXCEPT !.frames = Front(@), !.ledger[Body.slot] = Body.total],
         1 + PrefixWidth(Body.total) + Body.total)

-----------------------------------------------------------------------------
\* The emit pass, over the sealed ledger. Its bodies are pinned to their slots.
NewReplay == [out |-> <<>>, run |-> <<>>, cursor |-> 0, logical |-> 0, open |-> <<>>]

ReplayRides(r) ==
  LET counted == [r EXCEPT !.logical = @ + Entry.width]
  IN IF r.run # <<>> /\ r.run[2] = place THEN [counted EXCEPT !.run[2] = EntryEnd]
     ELSE [Flush(counted) EXCEPT !.run = <<place, EntryEnd>>]
ReplayEnter(r) ==
  LET body == measure.ledger[r.cursor + 1]
      logical == r.logical + 1 + PrefixWidth(body)
  IN [Flush(r) EXCEPT !.out = @ \o <<TagToken(Entry.field, "Len")>> \o Word(body),
                      !.cursor = @ + 1, !.logical = logical, !.open = Append(@, <<logical, body>>)]

-----------------------------------------------------------------------------
\* The walk.
NoConvert ==
  /\ entries = <<>> /\ place = 0 /\ groups = 0
  /\ online = NewOnline /\ measure = NewMeasure /\ replay = NewReplay
  /\ vecFate = <<"Idle">> /\ sinkFate = <<"Idle">>

BeginConvert ==
  /\ sinkFate = <<"Idle">>
  /\ entries' = job.document
  /\ vecFate' = <<"Walking">> /\ sinkFate' = <<"Measuring">>
  /\ UNCHANGED <<place, groups, online, measure, replay>>

Measures == sinkFate = <<"Measuring">>
FirstWalk == vecFate = <<"Walking">> \/ Measures
Emitting == sinkFate = <<"Emitting">>
Barred == Entry.kind = "Bad" \/ (Entry.kind = "Enter" /\ groups = job.limit)
Delivers(kinds) == entries # <<>> /\ ~Barred /\ Entry.kind \in kinds
Deeper(n) == entries' = Tail(entries) /\ place' = EntryEnd /\ groups' = groups + n

\* The Vec faces' cap is a judgment of the whole job.
VecTakes(o) ==
  IF vecFate = <<"Walking">>
  THEN online' = o /\ vecFate' = IF o.over THEN <<"Fault", "Output", 0>> ELSE vecFate
  ELSE UNCHANGED <<online, vecFate>>
SinkTakes(m) == measure' = IF Measures THEN m ELSE measure

ConvertBreach ==
  /\ FirstWalk /\ entries # <<>> /\ Barred
  /\ LET fault == <<"Fault", IF Entry.kind = "Bad" THEN Entry.breach ELSE "Depth", place>>
     IN /\ vecFate' = IF vecFate = <<"Walking">> THEN fault ELSE vecFate
        /\ sinkFate' = IF Measures THEN fault ELSE sinkFate
  /\ UNCHANGED <<entries, place, groups, online, measure, replay>>

ConvertRecord ==
  /\ FirstWalk /\ Delivers({"Varint", "I32", "I64", "Len"})
  /\ VecTakes(OnlineRides(online)) /\ SinkTakes(Counts(measure, Entry.width))
  /\ Deeper(0) /\ UNCHANGED <<replay, sinkFate>>

ConvertEnter ==
  /\ FirstWalk /\ Delivers({"Enter"})
  /\ VecTakes(OnlineEnter(online)) /\ SinkTakes(Claims(measure))
  /\ Deeper(1) /\ UNCHANGED <<replay, sinkFate>>

\* An over-class body is the measuring pass's own refusal, at its start tag.
ConvertExit ==
  /\ FirstWalk /\ Delivers({"Exit"})
  /\ VecTakes(OnlineExit(online))
  /\ IF Measures /\ Body.total > LenMax
     THEN sinkFate' = <<"Fault", "Growth", Body.head>> /\ UNCHANGED measure
     ELSE SinkTakes(Fills(measure)) /\ UNCHANGED sinkFate
  /\ Deeper(-1) /\ UNCHANGED replay

\* The first walk ends: the last run is flushed, the measurement sealed.
ConvertSeal ==
  /\ FirstWalk /\ entries = <<>>
  /\ LET done == OnlineFlush(online)
     IN IF vecFate = <<"Walking">>
        THEN online' = done /\ vecFate' = IF done.over THEN <<"Fault", "Output", 0>> ELSE <<"Done">>
        ELSE UNCHANGED <<online, vecFate>>
  /\ sinkFate' = IF ~Measures THEN sinkFate
                 ELSE IF Body.total > LenMax THEN <<"Fault", "Output", 0>> ELSE <<"Emitting">>
  /\ entries' = IF Measures THEN job.document ELSE <<>>
  /\ place' = 0 /\ groups' = 0
  /\ UNCHANGED <<measure, replay>>

\* The second walk. A breach here, and a slot past the ledger, are undefined.
Undefined ==
  /\ sinkFate' = <<"Undefined">>
  /\ UNCHANGED <<entries, place, groups, online, measure, replay, vecFate>>
Panics ==
  /\ sinkFate' = <<"Panic">>
  /\ UNCHANGED <<entries, place, groups, online, measure, replay, vecFate>>

EmitTurn ==
  /\ Emitting /\ entries # <<>>
  /\ CASE Barred -> Undefined
       [] Delivers({"Varint", "I32", "I64", "Len"}) ->
            replay' = ReplayRides(replay) /\ Deeper(0) /\ UNCHANGED <<online, measure, vecFate, sinkFate>>
       [] Delivers({"Enter"}) ->
            IF replay.cursor = Len(measure.ledger) THEN Undefined
            ELSE replay' = ReplayEnter(replay) /\ Deeper(1)
                 /\ UNCHANGED <<online, measure, vecFate, sinkFate>>
       [] Delivers({"Exit"}) ->
            IF replay.logical - Last(replay.open)[1] # Last(replay.open)[2] THEN Panics
            ELSE replay' = [replay EXCEPT !.open = Front(@)] /\ Deeper(-1)
                 /\ UNCHANGED <<online, measure, vecFate, sinkFate>>

\* The pins: the ledger consumed, every group closed, the measured total handed.
EmitEnds ==
  /\ Emitting /\ entries = <<>>
  /\ LET done == Flush(replay)
     IN /\ replay' = done
        /\ sinkFate' = IF /\ done.cursor = Len(measure.ledger) /\ done.open = <<>>
                          /\ Len(done.out) = Body.total
                       THEN <<"Done">> ELSE <<"Panic">>
  /\ UNCHANGED <<entries, place, groups, online, measure, vecFate>>

ConvertNext ==
  \/ ConvertBreach \/ ConvertRecord \/ ConvertEnter \/ ConvertExit \/ ConvertSeal
  \/ EmitTurn \/ EmitEnds

ConvertEnded ==
  vecFate[1] \in {"Done", "Fault"} /\ sinkFate[1] \in {"Done", "Fault", "Undefined", "Panic"}

-----------------------------------------------------------------------------
\* The document as a tree, every group framed by its length; LEN payloads stay
\* closed.
RECURSIVE Reframed(_, _, _)
Reframed(items, pos, open) ==
  IF items = <<>> THEN Clean(<<>>)
  ELSE
  LET item == items[1]
      after == pos + item.width
      close == CloseOf(items)
      body == SubSeq(items, 2, close - 1)
      interior == Reframed(body, after, open + 1)
      framed == <<TagToken(item.field, "Len")>> \o Word(Len(interior.out)) \o interior.out
      beyond == IF close > Len(items) THEN Clean(<<>>)
                ELSE Reframed(SubSeq(items, close + 1, Len(items)),
                              after + Widths(body) + items[close].width, open)
  IN IF item.kind = "Bad" THEN Faulty(item.breach, pos)
     ELSE IF item.kind # "Enter" THEN Then(Clean(Source(pos, after)), Reframed(Tail(items), after, open))
     ELSE IF open = job.limit THEN Faulty("Depth", pos)
     ELSE IF interior.fault # None THEN interior
     ELSE IF Len(interior.out) > LenMax THEN Faulty("Growth", pos)
     ELSE Then(Clean(framed), beyond)

Converted ==
  LET walked == Reframed(job.document, 0, 0)
  IN IF walked.fault = None /\ Len(walked.out) > LenMax THEN Faulty("Output", 0) ELSE walked

(* The faces accept the same documents and give the same bytes, every group  *)
(* behind a minimal prefix over its body, nested groups settled inside out   *)
(* (convert/groupless.rs:608-623); the sink refuses with the document's      *)
(* first fault, the Vec faces with it or with the cap their output met       *)
(* first; and the emit pass reads only claimed slots, reaches no fault and   *)
(* keeps its pins (convert/groupless.rs:400-413, 812-829).                   *)
ConversionsAgree ==
  /\ sinkFate \notin {<<"Undefined">>, <<"Panic">>}
  /\ ConvertEnded =>
       /\ vecFate = <<"Done">> <=> sinkFate = <<"Done">>
       /\ vecFate = <<"Done">> =>
            Converted = Clean(online.out) /\ replay.out = online.out /\ online.holes = <<>>
       /\ sinkFate[1] = "Fault" => Converted.fault = sinkFate
       /\ vecFate[1] = "Fault" => vecFate \in {Converted.fault, <<"Fault", "Output", 0>>}
=============================================================================
