------------------------------ MODULE Regroup ------------------------------
(* The converter into the grouped language (convert/grouped.rs). The records *)
(* its paths designate must be LENs and are framed as groups; a LEN on the   *)
(* way to one is crossed, and its prefix settled again. Like the rewriter it *)
(* walks twice, pricing the crossed interiors into slots first; what its two *)
(* consumers do at a crossing is what the rewriter's do (Rewrite). Only      *)
(* crossings have slots: a framing changes every container around it.        *)
EXTENDS RewriteReference

CONSTANTS Designations,  \* the programs a caller designates records with
          TagBytes       \* a field's minimal tag width

VARIABLES designating,  \* the program of this job
          ways,         \* the committed layers, root first
          trodden,      \* the fields the matcher has entered
          reckoned,     \* the receipt of the running pass
          pen,          \* the consumer of the running pass
          sealed,       \* the measured total and receipt, once sealed
          regrouping

regroupVars == <<designating, ways, trodden, reckoned, pen, sealed, regrouping>>

Way == ways[Len(ways)]
Facing == Way.rest[1]
FacingAt == Way.pos
FacingEnd == FacingAt + Facing.width
BodyAt == FacingAt + Facing.tag + Facing.prefix

Reached(fields, f) == Append(fields, f)
Designated(fields) == Selecting(designating, fields, {"Target"}) # <<>>
Crossing(fields) == MatchesBelow(designating, fields, DOMAIN TagBytes)
GroupToken(f, end) == <<"Framing", f, end, TagBytes[f]>>

-----------------------------------------------------------------------------
\* The consumers at a record that is framed: the minimal tags are authored, and
\* the container changes. In pass one the body has a frame of its own.
Framed(changed) == [total |-> 0, slot |-> 0, dirty |-> changed]
\* Slip: the container around a framing is not told.
OpensUnnoticed(s, f) ==
  IF s.pass = "Emit" THEN Author(s, <<GroupToken(f, FALSE)>>)
  ELSE [Account(s, TagBytes[f], FALSE) EXCEPT !.frames = Append(@, Framed(FALSE))]
OpensGroup(s, f) ==
  IF s.pass = "Emit" THEN Author(s, <<GroupToken(f, FALSE)>>)
  ELSE [Account(s, TagBytes[f], TRUE) EXCEPT !.frames = Append(@, Framed(FALSE))]
ClosesGroup(s, f) ==
  IF s.pass = "Emit" THEN Author(s, <<GroupToken(f, TRUE)>>)
  ELSE Account([s EXCEPT !.frames = Front(@)], Last(s.frames).total + TagBytes[f], FALSE)

\* At a crossing: a slot claimed or taken back, an interior settled.
CrossingOpens(s) == Descend(s, FacingAt, FacingAt + Facing.tag, BodyAt, FacingEnd)
CrossingCloses(s) == Ascend(s, Way)

-----------------------------------------------------------------------------
\* The walk.
Regroups == regrouping = <<"Walking">>
Unreckoned == [converted |-> 0, descended |-> 0]
RootWay(document, limit) ==
  [rest |-> document, pos |-> 0, field |-> None, head |-> 0, tagEnd |-> 0, start |-> 0, end |-> 0,
   remaining |-> limit, kind |-> "Cross"]

NoRegroup ==
  /\ designating = <<>> /\ ways = <<>> /\ trodden = <<>> /\ reckoned = Unreckoned
  /\ pen = MeasureSink /\ sealed = None /\ regrouping = <<"Idle">>

BeginRegroup ==
  /\ regrouping = <<"Idle">> /\ regrouping' = <<"Walking">>
  /\ designating' \in {p \in Designations : Admitted(p, LenMax)}
  /\ ways' = <<RootWay(job.document, job.limit)>>
  /\ UNCHANGED <<trodden, reckoned, pen, sealed>>

\* Pass two has no fault channel.
Rejects(kind, at) ==
  /\ regrouping' = IF pen.pass = "Measure" THEN <<"Fault", kind, at>> ELSE <<"Undefined">>
  /\ UNCHANGED <<designating, ways, trodden, reckoned, pen, sealed>>

RegroupSeal ==
  /\ Regroups /\ Len(ways) = 1 /\ Way.rest = <<>> /\ pen.pass = "Measure"
  /\ LET total == pen.frames[1].total
     IN IF total > LenMax THEN Rejects("Output", 0)
        ELSE /\ sealed' = [total |-> total, stats |-> reckoned]
             /\ pen' = EmitSink(pen.slots)
             /\ ways' = <<RootWay(job.document, job.limit)>>
             /\ reckoned' = Unreckoned
             /\ UNCHANGED <<designating, trodden, regrouping>>

RegroupEnds ==
  /\ Regroups /\ Len(ways) = 1 /\ Way.rest = <<>> /\ pen.pass = "Emit"
  /\ LET done == Flush(pen)
     IN /\ pen' = done
        /\ regrouping' = IF /\ done.cursor = Len(done.slots) /\ done.ledger = <<>>
                            /\ LengthOf(done.out) = sealed.total
                         THEN <<"Done">> ELSE <<"Panic">>
  /\ UNCHANGED <<designating, ways, trodden, reckoned, sealed>>

\* A layer is spent: a crossing's interior settles, a framed one ends its group.
LayerSpent ==
  /\ Regroups /\ Len(ways) > 1 /\ Way.rest = <<>>
  /\ IF Way.kind = "Cross" /\ Outgrown(pen) THEN Rejects("Growth", Way.head)
     ELSE IF Way.kind = "Cross" /\ Astray(pen)
     THEN /\ regrouping' = <<"Panic">>
          /\ UNCHANGED <<designating, ways, trodden, reckoned, pen, sealed>>
     ELSE /\ pen' = IF Way.kind = "Cross" THEN CrossingCloses(pen) ELSE ClosesGroup(pen, Way.field)
          /\ ways' = Front(ways) /\ trodden' = Front(trodden)
          /\ UNCHANGED <<designating, reckoned, sealed, regrouping>>

\* The cursor of this dialect refuses a group's words at sight.
Foreign == Facing.kind \in {"Enter", "Exit"} \/ (Facing.kind = "Bad" /\ Facing.breach = "Grouping")
RegroupBreach ==
  /\ Regroups /\ Way.rest # <<>> /\ (Facing.kind = "Bad" \/ Foreign)
  /\ Rejects(IF Foreign THEN "GroupCode" ELSE Facing.breach, FacingAt)

Consumed == [ways EXCEPT ![Len(ways)] = [@ EXCEPT !.rest = Tail(@), !.pos = FacingEnd]]
RidesOn ==
  /\ pen' = Verbatim(pen, FacingAt, FacingEnd) /\ ways' = Consumed
  /\ UNCHANGED <<designating, trodden, reckoned, sealed, regrouping>>

\* A designated record of another kind is the caller's schema error.
RegroupScalar ==
  /\ Regroups /\ Way.rest # <<>> /\ Facing.kind \in {"Varint", "I32", "I64"}
  /\ IF Designated(Reached(trodden, Facing.field)) THEN Rejects("KindMismatch", FacingAt) ELSE RidesOn

StepsInto(kind, counted) ==
  /\ ways' = Append(Consumed, [rest |-> Facing.body, pos |-> BodyAt, field |-> Facing.field,
                               head |-> FacingAt, tagEnd |-> FacingAt + Facing.tag, start |-> BodyAt,
                               end |-> FacingEnd, remaining |-> Way.remaining - 1, kind |-> kind])
  /\ trodden' = Reached(trodden, Facing.field)
  /\ reckoned' = [reckoned EXCEPT ![counted] = @ + 1]
  /\ UNCHANGED <<designating, sealed, regrouping>>

SkipsCrossing ==
  /\ pen' = Verbatim([pen EXCEPT !.cursor = @ + 1 + SlotIn(pen).word], FacingAt, FacingEnd)
  /\ ways' = Consumed
  /\ UNCHANGED <<designating, trodden, reckoned, sealed, regrouping>>

\* A slot past the claimed ones is read without a check.
StraySlot ==
  /\ regrouping' = <<"Undefined">>
  /\ UNCHANGED <<designating, ways, trodden, reckoned, pen, sealed>>

RegroupLen ==
  /\ Regroups /\ Way.rest # <<>> /\ Facing.kind = "Len"
  /\ LET fields == Reached(trodden, Facing.field)
     IN IF ~Designated(fields) /\ ~Crossing(fields) THEN RidesOn
        ELSE IF Way.remaining = 0 THEN Rejects("Depth", FacingAt)
        ELSE IF Designated(fields)
        THEN StepsInto("Convert", "converted") /\ pen' = OpensGroup(pen, Facing.field)
        ELSE IF pen.pass = "Emit" /\ pen.cursor >= Len(pen.slots) THEN StraySlot
        ELSE IF Skips(pen) THEN SkipsCrossing
        ELSE StepsInto("Cross", "descended") /\ pen' = CrossingOpens(pen)

RegroupNext ==
  \/ RegroupSeal \/ RegroupEnds \/ LayerSpent \/ RegroupBreach \/ RegroupScalar \/ RegroupLen

RegroupEnded == regrouping[1] \in {"Done", "Fault", "Undefined", "Panic"}

-----------------------------------------------------------------------------
\* The document a program describes, read off the tree. where: the fields
\* crossed and the depth left.
RECURSIVE Regrouped(_, _, _)
Regrouped(items, pos, where) ==
  IF items = <<>> THEN Clean(<<>>)
  ELSE
  LET item == items[1]
      here == Append(where.fields, item.field)
      designated == Selecting(designating, here, {"Target"}) # <<>>
      after == pos + item.width
      start == pos + item.tag + item.prefix
      rest == Regrouped(Tail(items), after, where)
      inner == Regrouped(item.body, start, [fields |-> here, left |-> where.left - 1])
      n == LengthOf(inner.out)
      framing == IF n = after - start THEN Source(pos, start)
                 ELSE Append(Source(pos, pos + item.tag), PrefixToken(n))
  IN
  IF item.kind = "Bad" /\ item.breach # "Grouping" THEN Faulty(item.breach, pos)
  ELSE IF item.kind \in {"Bad", "Enter", "Exit"} THEN Faulty("GroupCode", pos)
  ELSE IF item.kind # "Len" /\ designated THEN Faulty("KindMismatch", pos)
  ELSE IF item.kind # "Len" \/ ~(designated \/ MatchesBelow(designating, here, DOMAIN TagBytes))
  THEN Then(Clean(Source(pos, after)), rest)
  ELSE IF where.left = 0 THEN Faulty("Depth", pos)
  ELSE IF inner.fault # None THEN inner
  ELSE IF designated
  THEN Then(Clean(<<GroupToken(item.field, FALSE)>> \o inner.out \o <<GroupToken(item.field, TRUE)>>), rest)
  ELSE IF n > LenMax THEN Faulty("Growth", pos)
  ELSE Then(Clean(framing \o inner.out), rest)

Described ==
  LET walked == Regrouped(job.document, 0, [fields |-> <<>>, left |-> job.limit])
  IN IF walked.fault = None /\ LengthOf(walked.out) > LenMax THEN Faulty("Output", 0) ELSE walked

(* The job gives the document its program describes - designated messages    *)
(* framed as groups at every depth, crossed prefixes settled again, the rest *)
(* as it was - or refuses with its first fault; the second walk meets no     *)
(* fault, reads only claimed slots and keeps its pins                        *)
(* (convert/grouped.rs:444-456, 972-981, 995-1001).                          *)
RegroupIsExact ==
  RegroupEnded =>
    \/ regrouping = <<"Done">> /\ Described = Clean(pen.out) /\ reckoned.converted = sealed.stats.converted
    \/ regrouping[1] = "Fault" /\ Described.fault = regrouping

(* "The emit pass repeats the measuring pass's judgments": the receipts of   *)
(* the two walks are equal, as the assertion of the code has it              *)
(* (convert/grouped.rs:1232, 1265; it stands in debug builds).               *)
PassesRepeat == regrouping = <<"Done">> => reckoned = sealed.stats
=============================================================================
