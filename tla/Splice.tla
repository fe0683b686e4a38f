------------------------------- MODULE Splice -------------------------------
(* The online splicer (splice/grouped.rs; the groupless twin is the same     *)
(* walk without the group arms) and the two back-ends behind its one walk    *)
(* (splice/back.rs). The caller's rule is asked once for each record met, in *)
(* document order, and what it answers is not asked again. The Vec faces     *)
(* write as they go and settle a committed prefix when its container closes; *)
(* the sink face may not take bytes back, so it books an overlay of the      *)
(* source and hands it over at the end. A step is one turn of the walk.      *)
(*                                                                           *)
(* Both back-ends ride one walk here, each until it refuses: the rule is the *)
(* same caller asked twice. An answer is a verdict and a length; the output  *)
(* is bytes, each named by the source offset it was copied from or by the    *)
(* answer it belongs to.                                                     *)
EXTENDS RewriteReference

CONSTANT Answers   \* the lengths a rule answers with

VARIABLES commits,    \* the committed LEN layers, root first
          riding,     \* open groups below a passed one, itself included
          vanishing,  \* open groups below a dropped one, itself included
          answers,    \* what the rule has answered, by record head
          emit,       \* the Vec faces' back-end
          overlay,    \* the sink face's back-end
          splicing

spliceVars == <<commits, riding, vanishing, answers, emit, overlay, splicing>>

Inner == commits[Len(commits)]
Asked == Inner.rest[1]
AskedAt == Inner.pos
TagEndOf == AskedAt + Asked.tag
StartOf == TagEndOf + Asked.prefix
EndOf == AskedAt + Asked.width

Authored(name, at, n) == [i \in 1..n |-> <<name, at, i>>]
Word(n) == Authored("Prefix", n, PrefixWidth(n))

\* What the walk tells a back-end.
Rides(from, to) == [call |-> "verbatim", from |-> from, to |-> to]
Puts(bytes) == [call |-> "author", bytes |-> bytes]
Dirty == [call |-> "dirty"]
Enters(tail) ==
  [call |-> "commit", head |-> AskedAt, tagEnd |-> TagEndOf, start |-> StartOf, tail |-> tail]
Settles(old) == [call |-> "close", old |-> old]

-----------------------------------------------------------------------------
\* The Vec back-end. The output's end is the append point; a hole is a copied
\* prefix waiting for its container's length; staged tails are a stack.
NewEmit == [out |-> <<>>, holes |-> <<>>, tails |-> <<>>, over |-> FALSE, at |-> 0]

Appends(e, bytes) ==
  IF e.over \/ Len(e.out) + Len(bytes) > LenMax THEN [e EXCEPT !.over = TRUE]
  ELSE [e EXCEPT !.out = @ \o bytes]

EmitCommit(e, c) ==
  LET tagged == Appends(e, Source(c.head, c.tagEnd))
      framed == Appends(tagged, Source(c.tagEnd, c.start))
  IN IF framed.over THEN framed
     ELSE [framed EXCEPT !.tails = @ \o c.tail,
                         !.holes = Append(@, [at |-> Len(tagged.out), interior |-> Len(framed.out),
                                              tail |-> Len(c.tail)])]

\* An interior of its old length keeps its prefix; any other is slid behind a
\* minimal one.
EmitClose(e, old) ==
  LET hole == Last(e.holes)
      kept == Len(e.tails) - hole.tail
      tailed == Appends([e EXCEPT !.holes = Front(@), !.tails = SubSeq(@, 1, kept)],
                        SubSeq(e.tails, kept + 1, Len(e.tails)))
      length == Len(tailed.out) - hole.interior
      grown == Len(tailed.out) - (hole.interior - hole.at) + PrefixWidth(length)
  IN IF tailed.over \/ length = old THEN tailed
     ELSE IF grown > LenMax /\ PrefixWidth(length) > hole.interior - hole.at
     THEN [tailed EXCEPT !.over = TRUE]
     ELSE [tailed EXCEPT !.out = SubSeq(@, 1, hole.at) \o Word(length)
                                 \o SubSeq(@, hole.interior + 1, Len(@))]

EmitDo(e, c) ==
  CASE c.call = "verbatim" -> Appends(e, Source(c.from, c.to))
    [] c.call = "author" -> Appends(e, c.bytes)
    [] c.call = "dirty" -> e
    [] c.call = "commit" -> EmitCommit(e, c)
    [] c.call = "close" -> EmitClose(e, c.old)

-----------------------------------------------------------------------------
\* The sink's back-end. A run of source bytes is held back and grown; an edit
\* first claims the prefixes of the containers around it, which until then lie
\* inside the run.
NewPlan ==
  [ops |-> <<>>, staging |-> <<>>, frames |-> <<>>, claimed |-> 0, run |-> <<>>, total |-> 0,
   over |-> FALSE, at |-> 0]

SrcOp(from, to) == [k |-> "Src", from |-> from, to |-> to]
StagedOp(at, len) == [k |-> "Staged", at |-> at, len |-> len]

Admits(p, n) ==
  IF p.over \/ p.total + n > LenMax THEN [p EXCEPT !.over = TRUE] ELSE [p EXCEPT !.total = @ + n]
RollsUp(p, n) ==
  IF p.frames = <<>> THEN p ELSE [p EXCEPT !.frames[Len(p.frames)].total = @ + n]

Flushed(p) ==
  [p EXCEPT !.run = <<>>,
            !.ops = IF p.run # <<>> /\ p.run[1] < p.run[2]
                    THEN Append(@, SrcOp(p.run[1], p.run[2])) ELSE @]
Ridden(p, from, to) ==
  IF p.run # <<>> /\ p.run[2] = from THEN [p EXCEPT !.run[2] = to]
  ELSE [Flushed(p) EXCEPT !.run = <<from, to>>]

\* The unclaimed frames' prefixes are peeled off the run, outermost first.
Claim(p, i) ==
  LET frame == p.frames[i]
      peeled == IF p.run[1] < frame.tagEnd THEN Append(p.ops, SrcOp(p.run[1], frame.tagEnd))
                ELSE p.ops
  IN IF p.run = <<>> THEN p
     ELSE [p EXCEPT !.ops = Append(peeled, [k |-> "Hole"]), !.frames[i].op = Len(peeled) + 1,
                    !.run = <<frame.start, p.run[2]>>]
Materialized(p) ==
  LET unclaimed == [i \in 1..Len(p.frames) - p.claimed |-> p.claimed + i]
  IN [FoldLeft(Claim, p, unclaimed) EXCEPT !.claimed = Len(p.frames)]

Edited(p, bytes) ==
  LET admitted == Admits(p, Len(bytes))
      ready == Flushed(Materialized(admitted))
  IN IF admitted.over THEN admitted
     ELSE RollsUp([ready EXCEPT !.ops = Append(@, StagedOp(Len(p.staging), Len(bytes))),
                                !.staging = @ \o bytes], Len(bytes))

\* A tail is booked and staged at the commit; the head and the prefix ride.
PlanCommit(p, c) ==
  LET admitted == Admits(Admits(p, c.start - c.head), Len(c.tail))
      ridden == Ridden([admitted EXCEPT !.staging = @ \o c.tail], c.head, c.start)
  IN IF admitted.over THEN admitted
     ELSE [ridden EXCEPT !.frames = Append(@, [total |-> 0, head |-> c.head, tagEnd |-> c.tagEnd,
                                               start |-> c.start, op |-> 0, tailAt |-> Len(p.staging),
                                               tail |-> Len(c.tail)])]

\* A container nothing was edited in stays inside the run. Any other settles
\* its slot: the source's prefix for its old length, else a minimal word.
PlanClose(p, old) ==
  LET ready == IF Len(p.frames) > p.claimed /\ Last(p.frames).tail > 0 THEN Materialized(p) ELSE p
      frame == Last(ready.frames)
      popped == [ready EXCEPT !.frames = Front(@),
                              !.claimed = IF @ > Len(p.frames) - 1 THEN Len(p.frames) - 1 ELSE @]
      tailed == IF frame.tail = 0 THEN popped
                ELSE [Flushed(popped) EXCEPT
                        !.ops = Append(Flushed(popped).ops, StagedOp(frame.tailAt, frame.tail))]
      interior == frame.total + frame.tail
      met == frame.start - frame.tagEnd
      need == PrefixWidth(interior)
      priced == IF need > met THEN Admits(tailed, need - met)
                ELSE [tailed EXCEPT !.total = @ - (met - need)]
  IN IF frame.op = 0 THEN RollsUp(popped, frame.start - frame.head + frame.total)
     ELSE IF interior = old
     THEN RollsUp([tailed EXCEPT !.ops[frame.op] = SrcOp(frame.tagEnd, frame.start)],
                  frame.tagEnd - frame.head + met + interior)
     ELSE RollsUp([priced EXCEPT !.ops[frame.op] = [k |-> "Word", word |-> interior]],
                  frame.tagEnd - frame.head + need + interior)

\* Slip: a drop leaves no trace, as in the other back-end.
PlanForgetsDrops(p, c) ==
  CASE c.call = "verbatim" -> RollsUp(Ridden(Admits(p, c.to - c.from), c.from, c.to), c.to - c.from)
    [] c.call = "author" -> Edited(p, c.bytes)
    [] c.call = "dirty" -> p
    [] c.call = "commit" -> PlanCommit(p, c)
    [] c.call = "close" -> PlanClose(p, c.old)
PlanDo(p, c) ==
  CASE c.call = "verbatim" -> RollsUp(Ridden(Admits(p, c.to - c.from), c.from, c.to), c.to - c.from)
    [] c.call = "author" -> Edited(p, c.bytes)
    [] c.call = "dirty" -> Materialized(p)
    [] c.call = "commit" -> PlanCommit(p, c)
    [] c.call = "close" -> PlanClose(p, c.old)

\* The windows the fold hands over, the held run last.
Window(p, op) ==
  CASE op.k = "Src" -> Source(op.from, op.to)
    [] op.k = "Staged" -> SubSeq(p.staging, op.at + 1, op.at + op.len)
    [] op.k = "Word" -> Word(op.word)
    [] op.k = "Hole" -> <<None>>
Handed(p) == LET all == Flushed(p) IN FoldLeft(LAMBDA out, op : out \o Window(all, op), <<>>, all.ops)

-----------------------------------------------------------------------------
\* The walk. A back-end that refused stays where it was, its fault at the
\* record of the call.
Tell(calls, at) ==
  /\ emit' = FoldLeft(LAMBDA e, c : IF e.over THEN e ELSE EmitDo([e EXCEPT !.at = at], c), emit, calls)
  /\ overlay' = FoldLeft(LAMBDA p, c : IF p.over THEN p ELSE PlanDo([p EXCEPT !.at = at], c), overlay, calls)

Splicing == splicing = <<"Walking">> /\ ~(emit.over /\ overlay.over)
SpliceEnded == splicing[1] \in {"Done", "Fault"} \/ (emit.over /\ overlay.over)

NoSplice ==
  /\ commits = <<>> /\ riding = 0 /\ vanishing = 0 /\ answers = <<>>
  /\ emit = NewEmit /\ overlay = NewPlan /\ splicing = <<"Idle">>

BeginSplice ==
  /\ splicing = <<"Idle">> /\ splicing' = <<"Walking">>
  /\ commits' = <<[rest |-> job.document, pos |-> 0, head |-> 0, old |-> 0,
                   remaining |-> job.limit, groups |-> 0]>>
  /\ UNCHANGED <<riding, vanishing, answers, emit, overlay>>

Stop(kind, at) ==
  /\ splicing' = <<"Fault", kind, at>>
  /\ UNCHANGED <<commits, riding, vanishing, emit, overlay>>

\* The walk moves past the record, into or out of a committed group.
Consumes(groups) ==
  commits' = [commits EXCEPT ![Len(commits)] =
                [@ EXCEPT !.rest = Tail(@), !.pos = EndOf, !.groups = @ + groups]]

Meets == Splicing /\ Inner.rest # <<>>
OpenGroups == Inner.groups + riding + vanishing
Unlawful == Asked.kind = "Bad" \/ (Asked.kind = "Enter" /\ OpenGroups = job.limit)
Asks == Meets /\ ~Unlawful /\ riding = 0 /\ vanishing = 0

SpliceBreach ==
  /\ Meets /\ Unlawful
  /\ Stop(IF Asked.kind = "Bad" THEN Asked.breach ELSE "Depth", AskedAt)
  /\ UNCHANGED answers

Nested(n) == CASE Asked.kind = "Enter" -> n + 1 [] Asked.kind = "Exit" -> n - 1 [] OTHER -> n

\* Below a dropped group nothing is asked and nothing emitted; below a passed
\* one everything rides.
Silenced ==
  /\ Meets /\ ~Unlawful /\ riding + vanishing > 0
  /\ vanishing' = IF vanishing > 0 THEN Nested(vanishing) ELSE 0
  /\ riding' = IF riding > 0 THEN Nested(riding) ELSE 0
  /\ Tell(IF vanishing > 0 THEN <<>> ELSE <<Rides(AskedAt, EndOf)>>, AskedAt)
  /\ Consumes(0)
  /\ UNCHANGED <<answers, splicing>>

\* The end of a group the walk entered is punctuation.
SpliceExit ==
  /\ Asks /\ Asked.kind = "Exit"
  /\ Tell(<<Rides(AskedAt, EndOf)>>, AskedAt)
  /\ Consumes(-1)
  /\ UNCHANGED <<riding, vanishing, answers, splicing>>

Says(name, n) == answers' = answers @@ (AskedAt :> <<name, n>>)

\* The verdicts every kind has: the record rides, vanishes, or rides behind the
\* caller's bytes, which are judged before one of them is copied. A group's
\* whole interior goes its way.
Opened == IF Asked.kind = "Enter" THEN 1 ELSE 0
Keep ==
  /\ Says("Keep", 0)
  /\ Tell(<<Rides(AskedAt, EndOf)>>, AskedAt) /\ Consumes(0)
  /\ riding' = Opened /\ UNCHANGED <<vanishing, splicing>>
Vanish ==
  /\ Says("Drop", 0)
  /\ Tell(<<Dirty>>, AskedAt) /\ Consumes(0)
  /\ vanishing' = Opened /\ UNCHANGED <<riding, splicing>>
InsertBefore(n) ==
  /\ Says("Insert", n)
  /\ IF n > LenMax THEN Stop("Growth", AskedAt)
     ELSE /\ Tell(<<Puts(Authored("Insert", AskedAt, n)), Rides(AskedAt, EndOf)>>, AskedAt) /\ Consumes(0)
          /\ riding' = Opened /\ UNCHANGED <<vanishing, splicing>>
Whole == Keep \/ Vanish \/ \E n \in Answers : InsertBefore(n)

\* A varint takes any width, a fixed word the one it has.
SpliceScalar ==
  /\ Asks /\ Asked.kind \in {"Varint", "I32", "I64"}
  /\ \/ Whole
     \/ \E n \in IF Asked.kind = "Varint" THEN {1, 3} ELSE {Asked.width - Asked.tag} :
          /\ Says("Rewrite", n)
          /\ Tell(<<Rides(AskedAt, TagEndOf), Puts(Authored("Word", AskedAt, n))>>, AskedAt)
          /\ Consumes(0) /\ UNCHANGED <<riding, vanishing, splicing>>

\* Entering spends the depth account, groups and commits alike.
SpliceCommit(n) ==
  /\ Says("Commit", n)
  /\ IF Inner.groups = Inner.remaining THEN Stop("Depth", AskedAt)
     ELSE IF n > LenMax THEN Stop("Growth", AskedAt)
     ELSE /\ Tell(<<Enters(Authored("Tail", AskedAt, n))>>, AskedAt)
          /\ commits' = [commits EXCEPT ![Len(commits)] =
                           [@ EXCEPT !.rest = Tail(@), !.pos = EndOf]]
                        \o <<[rest |-> Asked.body, pos |-> StartOf, head |-> AskedAt,
                              old |-> EndOf - StartOf,
                              remaining |-> Inner.remaining - Inner.groups - 1, groups |-> 0]>>
          /\ UNCHANGED <<riding, vanishing, splicing>>

SpliceReplace(n) ==
  /\ Says("Replace", n)
  /\ IF n > LenMax THEN Stop("Growth", AskedAt)
     ELSE /\ Tell(<<Rides(AskedAt, TagEndOf), Puts(Word(n)), Puts(Authored("Payload", AskedAt, n))>>, AskedAt)
          /\ Consumes(0) /\ UNCHANGED <<riding, vanishing, splicing>>

SpliceLen ==
  /\ Asks /\ Asked.kind = "Len"
  /\ Whole \/ \E n \in Answers \cup {0} : SpliceCommit(n) \/ SpliceReplace(n)

SpliceEnter ==
  /\ Asks /\ Asked.kind = "Enter"
  /\ \/ Whole
     \/ /\ Says("Commit", 0)
        /\ IF Inner.groups = Inner.remaining THEN Stop("Depth", AskedAt)
           ELSE /\ Tell(<<Rides(AskedAt, EndOf)>>, AskedAt)
                /\ Consumes(1) /\ UNCHANGED <<riding, vanishing, splicing>>

\* A committed container ends: its layer goes, then the back-end settles it, a
\* refusal standing at the container's head.
SpliceEnds ==
  /\ Splicing /\ Inner.rest = <<>>
  /\ IF Len(commits) = 1 THEN splicing' = <<"Done">> /\ UNCHANGED <<commits, emit, overlay>>
     ELSE /\ commits' = Front(commits)
          /\ Tell(<<Settles(Inner.old)>>, Inner.head)
          /\ UNCHANGED splicing
  /\ UNCHANGED <<riding, vanishing, answers>>

SpliceNext ==
  \/ SpliceBreach \/ Silenced \/ SpliceExit \/ SpliceScalar \/ SpliceLen \/ SpliceEnter \/ SpliceEnds

-----------------------------------------------------------------------------
\* What the answers mean, read off the document as a tree. where: the depth
\* left to the layer, the committed and all open groups in it, and what becomes
\* of what is not asked.
Said(pos) == IF pos \in DOMAIN answers THEN answers[pos] ELSE <<"Keep", 0>>

RECURSIVE Spliced(_, _, _)
Spliced(items, pos, where) ==
  IF items = <<>> THEN Clean(<<>>)
  ELSE
  LET item == items[1]
      after == pos + item.width
      whole == Clean(Source(pos, after))
      rest == Spliced(Tail(items), after, where)
      said == Said(pos)[1]
      n == Said(pos)[2]
      close == CloseOf(items)
      body == SubSeq(items, 2, close - 1)
      closed == after + Widths(body)
      endTag == IF close > Len(items) THEN Clean(<<>>)
                ELSE Clean(Source(closed, closed + items[close].width))
      beyond == IF close > Len(items) THEN Clean(<<>>)
                ELSE Spliced(SubSeq(items, close + 1, Len(items)), closed + items[close].width, where)
      group(mode, entered) ==
        Spliced(body, after, [where EXCEPT !.mode = mode, !.open = @ + 1, !.entered = @ + entered])
      rideGroup == Then(Then(whole, group("ride", 0)), endTag)
      dropGroup == [group("drop", 0) EXCEPT !.out = <<>>]
      insert == Clean(Authored("Insert", pos, n))
      start == pos + item.tag + item.prefix
      tagged == Clean(Source(pos, pos + item.tag))
      interior == Then(Spliced(item.body, start, [left |-> where.left - where.entered - 1,
                                                  entered |-> 0, open |-> 0, mode |-> "ask"]),
                       Clean(Authored("Tail", pos, n)))
      framing == IF Len(interior.out) = after - start THEN Source(pos, start)
                 ELSE Source(pos, pos + item.tag) \o Word(Len(interior.out))
  IN
  IF item.kind = "Bad" THEN Faulty(item.breach, pos)
  ELSE IF item.kind = "Enter" /\ where.open = job.limit THEN Faulty("Depth", pos)
  ELSE IF item.kind = "Enter" /\ (where.mode = "ride" \/ (said = "Keep" /\ where.mode = "ask"))
  THEN Then(rideGroup, beyond)
  ELSE IF item.kind = "Enter" /\ (where.mode = "drop" \/ said = "Drop") THEN Then(dropGroup, beyond)
  ELSE IF where.mode # "ask" THEN Then(IF where.mode = "ride" THEN whole ELSE Clean(<<>>), rest)
  ELSE IF said = "Commit" /\ where.entered = where.left THEN Faulty("Depth", pos)
  ELSE IF n > LenMax THEN Faulty("Growth", pos)
  ELSE CASE said = "Insert" ->
              IF item.kind = "Enter" THEN Then(Then(insert, rideGroup), beyond)
              ELSE Then(Then(insert, whole), rest)
         [] said = "Drop" -> rest
         [] said = "Keep" -> Then(whole, rest)
         [] said = "Rewrite" -> Then(Then(tagged, Clean(Authored("Word", pos, n))), rest)
         [] said = "Replace" ->
              Then(Then(tagged, Clean(Word(n) \o Authored("Payload", pos, n))), rest)
         [] said = "Commit" /\ item.kind = "Enter" ->
              Then(Then(Then(whole, group("ask", 1)), endTag), beyond)
         [] OTHER -> IF interior.fault # None THEN interior
                     ELSE Then(Clean(framing \o interior.out), rest)

\* No container was given a tail.
Tailless == \A pos \in DOMAIN answers : answers[pos][1] = "Commit" => answers[pos][2] = 0

(* Both back-ends end with the bytes the answers mean: every committed       *)
(* container's prefix is the source's when its length is, minimal otherwise, *)
(* whatever was dropped, inserted, replaced or appended inside it and at     *)
(* whatever depth, and the fold hands over exactly the walk's account, every *)
(* claimed slot settled (splice/back.rs:414-457). A refused document is the  *)
(* answers' first fault. While both live, the sink's account is the Vec      *)
(* faces' physical length and the tails they have staged; so they refuse for *)
(* the output's length at the same record, except that the sink's, which     *)
(* books a tail at its commit, may refuse where the Vec faces do not.        *)
SplicesAgree ==
  /\ ~emit.over /\ ~overlay.over => overlay.total = Len(emit.out) + Len(emit.tails)
  /\ SpliceEnded =>
    LET told == Spliced(job.document, 0, [left |-> job.limit, entered |-> 0, open |-> 0, mode |-> "ask"])
    IN /\ splicing = <<"Done">> => told.fault = None
       /\ splicing[1] = "Fault" => told.fault = splicing
       /\ splicing = <<"Done">> /\ ~emit.over => emit.out = told.out
       /\ splicing = <<"Done">> /\ ~overlay.over =>
            Handed(overlay) = told.out /\ overlay.total = Len(told.out) /\ overlay.frames = <<>>
       /\ emit.over => overlay.over
       /\ Tailless => emit.over = overlay.over /\ (emit.over => emit.at = overlay.at)
=============================================================================
