------------------------------ MODULE Rewrite ------------------------------
(* The rule-driven rewriter (rewrite/grouped.rs; the groupless twin is the   *)
(* same walk without the group arms). One job walks the document twice: the  *)
(* measuring pass judges every record and prices every descended LEN into a  *)
(* slot, the emit pass walks again, skips the interiors the slots call clean *)
(* and writes. The emit pass has no fault channel: a judgment that does not  *)
(* repeat is undefined behaviour. An action is one turn of the walk's loop.  *)
(*                                                                           *)
(* The document is a sequence of entries as the cursor delivers them, each   *)
(* with the widths of its parts; a byte of the source is its offset, so the  *)
(* output shows which bytes were copied and which were authored. What the    *)
(* matcher answers is what the paths mean (Selecting), as Matcher's runs     *)
(* show; the walk moves the matcher by its commits and exits.                *)
EXTENDS PathPrograms, SequencesExt

CONSTANTS Jobs,       \* the jobs: rules, document, depth limit
          Fields,
          LenMax,     \* the LEN class (2^31 - 1 in the code)
          LenStep,    \* lengths a one-byte prefix spells (128 in the code)
          None

VARIABLES job,
          layers,      \* the committed LEN layers, root first
          matched,     \* the fields the matcher has entered
          suppress,    \* open groups below a deleted group, itself included
          normalizing, \* the groups whose end tags are re-authored
          pends,       \* tail inserts waiting for a group's end
          tally,       \* the receipt of the running pass
          sink,        \* the consumer of the running pass
          plan,        \* the measured total and receipt, once sealed
          verdict

vars == <<job, layers, matched, suppress, normalizing, pends, tally, sink, plan, verdict>>

Program == job.rules
Top == layers[Len(layers)]
Item == Top.rest[1]
Here == Top.pos
Past == Top.pos + Item.width
\* What entries take in the source together.
Widths(items) ==
  LET from[i \in 1..Len(items) + 1] ==
        IF i > Len(items) THEN 0 ELSE items[i].width + from[i + 1]
  IN from[1]
LengthOf(tokens) == FoldLeft(LAMBDA n, token : n + token[Len(token)], 0, tokens)

\* Authored tokens end in their width; source bytes are copied one by one.
Source(from, to) == [i \in 1..to - from |-> <<"Byte", from + i - 1, 1>>]
TagToken(field, kind) == <<"Tag", field, kind, 1>>
PrefixWidth(n) == IF n < LenStep THEN 1 ELSE 2
PrefixToken(n) == <<"Prefix", n, PrefixWidth(n)>>

\* A rule's value: a LEN payload rides behind a minimal prefix.
ValueTokens(id) ==
  IF Program[id].kind = "Len"
  THEN <<PrefixToken(Program[id].size), <<"Payload", id, Program[id].size>>>>
  ELSE <<<<"Word", id, Program[id].size>>>>

\* A record's own words at minimal width, its payload bytes as they are.
NormalTokens ==
  <<TagToken(Item.field, Item.kind)>>
  \o CASE Item.kind = "Varint" -> <<<<"Minimal", Here, Item.min>>>>
       [] Item.kind = "Len" -> <<PrefixToken(Item.width - Item.tag - Item.prefix)>>
                               \o Source(Here + Item.tag + Item.prefix, Past)
       [] OTHER -> Source(Here + Item.tag, Past)

-----------------------------------------------------------------------------
\* The two consumers. Measuring sums an interior and notes whether it changed;
\* emitting merges verbatim runs and flushes them before authored bytes.

MeasureSink == [pass |-> "Measure", frames |-> <<[total |-> 0, slot |-> 0, dirty |-> FALSE]>>,
                slots |-> <<>>]
EmitSink(slots) == [pass |-> "Emit", slots |-> slots, cursor |-> 0, logical |-> 0,
                    ledger |-> <<>>, run |-> <<>>, out |-> <<>>]

Account(s, n, changed) ==
  [s EXCEPT !.frames[Len(s.frames)] =
     [@ EXCEPT !.total = @ + n, !.dirty = @ \/ changed]]

Flush(s) ==
  IF s.run = <<>> THEN s
  ELSE [s EXCEPT !.out = @ \o Source(s.run[1], s.run[2]), !.run = <<>>]

Verbatim(s, from, to) ==
  IF s.pass = "Measure" THEN Account(s, to - from, FALSE)
  ELSE LET counted == [s EXCEPT !.logical = @ + (to - from)]
       IN IF s.run # <<>> /\ s.run[2] = from THEN [counted EXCEPT !.run[2] = to]
          ELSE [Flush(counted) EXCEPT !.run = <<from, to>>]

Author(s, tokens) ==
  IF s.pass = "Measure" THEN Account(s, LengthOf(tokens), TRUE)
  ELSE LET flushed == Flush(s)
       IN [flushed EXCEPT !.out = @ \o tokens, !.logical = @ + LengthOf(tokens)]

DeleteIn(s) == IF s.pass = "Measure" THEN Account(s, 0, TRUE) ELSE s

\* Pass two: the slot under the cursor says whether the interior is clean.
SlotIn(s) == s.slots[s.cursor + 1]
Skips(s) == s.pass = "Emit" /\ ~SlotIn(s).dirty

\* A claimed slot in pass one; in pass two the frame of a dirty interior.
Descend(s, head, tagEnd, start, end) ==
  IF s.pass = "Measure"
  THEN [s EXCEPT !.slots = Append(@, [dirty |-> FALSE, word |-> 0]),
                 !.frames = Append(@, [total |-> 0, slot |-> Len(s.slots) + 1, dirty |-> FALSE])]
  ELSE LET read == [s EXCEPT !.cursor = @ + 1]
           framed == IF SlotIn(s).word = end - start THEN Verbatim(read, head, start)
                     ELSE Author(Verbatim(read, head, tagEnd), <<PrefixToken(SlotIn(s).word)>>)
       IN [framed EXCEPT !.ledger = Append(@, <<framed.logical, SlotIn(s).word>>)]

\* The prefix of a changed interior is kept when its length is.
Priced(child, done) ==
  IF child.total = done.end - done.start THEN done.start - done.tagEnd
  ELSE PrefixWidth(child.total)

\* Slip: a clean interior counts its own slot among its descendants'.
SettleSpan(s, child) ==
  IF child.dirty THEN [dirty |-> TRUE, word |-> child.total]
  ELSE [dirty |-> FALSE, word |-> Len(s.slots) - child.slot + 1]
\* A dirty slot carries the new length, a clean one its descendants' count.
Settle(s, child) ==
  IF child.dirty THEN [dirty |-> TRUE, word |-> child.total]
  ELSE [dirty |-> FALSE, word |-> Len(s.slots) - child.slot]

Ascend(s, done) ==
  IF s.pass = "Emit" THEN [s EXCEPT !.ledger = Front(@)]
  ELSE LET child == Last(s.frames)
           closed == [s EXCEPT !.frames = Front(@), !.slots[child.slot] = Settle(s, child)]
       IN Account(closed,
                  IF child.dirty THEN done.tagEnd - done.head + Priced(child, done) + child.total
                  ELSE done.end - done.head, child.dirty)

\* An interior past the LEN class faults in pass one; in pass two a dirty
\* interior must have emitted its slot's length.
Outgrown(s) == s.pass = "Measure" /\ Last(s.frames).total > LenMax
Astray(s) == s.pass = "Emit" /\ s.logical - Last(s.ledger)[1] # Last(s.ledger)[2]

-----------------------------------------------------------------------------
\* The rules at a record and at the gaps of a container.
At(f) == Append(matched, f)
Hits(f) == Selecting(Program, At(f), {"Target"})
Routed(f) == MatchesBelow(Program, At(f), Fields)
LaneRules(f, lane) == Selecting(Program, At(f), {lane})
InteriorGaps(f) == Selecting(Program, At(f), {"Head", "Tail"})
RootInserts(lane) ==
  SelectSeq([id \in 1..Len(Program) |-> id],
            LAMBDA id : Program[id].steps = <<>> /\ Program[id].lane = lane)

\* Insert rules fire in order, each a whole authored record.
Fire(s, ids) ==
  FoldLeft(LAMBDA to, id :
             Author(to, <<TagToken(Program[id].field, Program[id].kind)>> \o ValueTokens(id)),
           s, ids)
Counted(name, n) == [tally EXCEPT ![name] = @ + n]

\* Pass two has no fault channel.
Refuse(kind, at) ==
  /\ verdict' = IF sink.pass = "Measure" THEN <<"Fault", kind, at>> ELSE <<"Undefined">>
  /\ UNCHANGED <<job, layers, matched, suppress, normalizing, pends, tally, sink, plan>>

Advance == layers' = [layers EXCEPT ![Len(layers)] = [@ EXCEPT !.rest = Tail(@), !.pos = Past]]

NoTally == [deleted |-> 0, replaced |-> 0, normalized |-> 0, inserted |-> 0, descended |-> 0]
RootLayer(document, limit) ==
  [rest |-> document, pos |-> 0, field |-> None, head |-> 0, tagEnd |-> 0, start |-> 0,
   end |-> 0, remaining |-> limit, groups |-> 0, tails |-> FALSE]

\* The walk's entry: the root's head inserts fire before any record.
Begins(s) ==
  /\ layers' = <<RootLayer(job.document, job.limit)>>
  /\ matched' = <<>> /\ suppress' = 0 /\ normalizing' = <<>> /\ pends' = <<>>
  /\ sink' = Fire(s, RootInserts("Head"))
  /\ tally' = [NoTally EXCEPT !.inserted = Len(RootInserts("Head"))]

Init ==
  /\ job \in {j \in Jobs : Admitted(j.rules, LenMax)}
  /\ verdict = <<"Walking">> /\ plan = None
  /\ layers = <<RootLayer(job.document, job.limit)>>
  /\ matched = <<>> /\ suppress = 0 /\ normalizing = <<>> /\ pends = <<>>
  /\ sink = Fire(MeasureSink, RootInserts("Head"))
  /\ tally = [NoTally EXCEPT !.inserted = Len(RootInserts("Head"))]

\* Pass one ends: a sealed plan is the whole admission of pass two.
Seal ==
  /\ verdict = <<"Walking">> /\ Len(layers) = 1 /\ Top.rest = <<>> /\ sink.pass = "Measure"
  /\ LET total == Fire(sink, RootInserts("Tail")).frames[1].total
     IN IF total > LenMax THEN Refuse("Output", 0)
        ELSE /\ plan' = [total |-> total, tally |-> Counted("inserted", Len(RootInserts("Tail")))]
             /\ Begins(EmitSink(sink.slots))
             /\ UNCHANGED <<job, verdict>>

\* Pass two ends behind its pins: the slots consumed, the ledger closed, the
\* measured total written.
Finish ==
  /\ verdict = <<"Walking">> /\ Len(layers) = 1 /\ Top.rest = <<>> /\ sink.pass = "Emit"
  /\ LET done == Flush(Fire(sink, RootInserts("Tail")))
     IN /\ sink' = done
        /\ verdict' = IF /\ done.cursor = Len(done.slots) /\ done.ledger = <<>>
                         /\ LengthOf(done.out) = plan.total
                      THEN <<"Done">> ELSE <<"Panic">>
  /\ tally' = Counted("inserted", Len(RootInserts("Tail")))
  /\ UNCHANGED <<job, layers, matched, suppress, normalizing, pends, plan>>

\* A layer ends: the matcher leaves it first, its tail inserts fire inside it,
\* then the consumer settles the interior.
LayerEnds ==
  /\ verdict = <<"Walking">> /\ Len(layers) > 1 /\ Top.rest = <<>>
  /\ LET tails == IF Top.tails
                  THEN Selecting(Program, Append(Front(matched), Top.field), {"Tail"})
                  ELSE <<>>
         fired == Fire(sink, tails)
     IN IF Outgrown(fired) THEN Refuse("Growth", Top.head)
        ELSE IF Astray(fired)
        THEN /\ verdict' = <<"Panic">>
             /\ UNCHANGED <<job, layers, matched, suppress, normalizing, pends, tally, sink, plan>>
        ELSE /\ sink' = Ascend(fired, Top)
             /\ tally' = Counted("inserted", Len(tails))
             /\ layers' = Front(layers) /\ matched' = Front(matched)
             /\ UNCHANGED <<job, suppress, normalizing, pends, plan, verdict>>

-----------------------------------------------------------------------------
\* One entry of the innermost layer. The cursor counts the open groups of the
\* layer too, against the whole limit.
Stepping == verdict = <<"Walking">> /\ Top.rest # <<>>
CursorRefuses ==
  \/ Item.kind = "Bad"
  \/ Item.kind = "Enter" /\ Top.groups + suppress = job.limit
Delivered == Stepping /\ ~CursorRefuses

WireBreach ==
  /\ Stepping /\ CursorRefuses
  /\ Refuse(IF Item.kind = "Bad" THEN Item.breach ELSE "Depth", Here)

\* Slip: an entry below a deleted group is judged and not consumed.
SuppressedStays ==
  /\ Delivered /\ suppress > 0
  /\ IF Item.kind = "Enter" /\ Top.groups + suppress = Top.remaining
     THEN Refuse("Depth", Here)
     ELSE UNCHANGED vars
\* Below a deleted group only pairing and depth are judged.
Suppressed ==
  /\ Delivered /\ suppress > 0
  /\ IF Item.kind = "Enter" /\ Top.groups + suppress = Top.remaining
     THEN Refuse("Depth", Here)
     ELSE /\ suppress' = CASE Item.kind = "Enter" -> suppress + 1
                           [] Item.kind = "Exit" -> suppress - 1
                           [] OTHER -> suppress
          /\ Advance
          /\ UNCHANGED <<job, matched, normalizing, pends, tally, sink, plan, verdict>>

\* Slip: pending tail inserts are matched by group depth alone.
DepthPend(pend) == pend.depth = Top.groups
\* The closing group's own tail inserts are the pending stack's matching suffix.
OwnPend(pend) == pend.layer = Len(layers) /\ pend.depth = Top.groups
FirstOwn ==
  CHOOSE k \in 1..Len(pends) + 1 :
    /\ \A i \in k..Len(pends) : OwnPend(pends[i])
    /\ k > 1 => ~OwnPend(pends[k - 1])

Reauthored == normalizing # <<>> /\ Last(normalizing) = <<Len(layers), Top.groups>>

GroupExit ==
  /\ Delivered /\ suppress = 0 /\ Item.kind = "Exit"
  /\ LET ids == [i \in 1..Len(pends) + 1 - FirstOwn |-> pends[FirstOwn + i - 1].rule]
         fired == Fire(sink, ids)
     IN /\ sink' = IF Reauthored THEN Author(fired, <<TagToken(Item.field, "End")>>)
                   ELSE Verbatim(fired, Here, Past)
        /\ tally' = Counted("inserted", Len(ids))
        /\ pends' = SubSeq(pends, 1, FirstOwn - 1)
  /\ normalizing' = IF Reauthored THEN Front(normalizing) ELSE normalizing
  /\ matched' = Front(matched)
  /\ layers' = [layers EXCEPT ![Len(layers)] =
                  [@ EXCEPT !.rest = Tail(@), !.pos = Past, !.groups = @ - 1]]
  /\ UNCHANGED <<job, suppress, plan, verdict>>

\* What the rules make of a group: KindMismatch and conflicts never reach here.
VanishGroup ==
  /\ sink' = DeleteIn(sink) /\ tally' = Counted("deleted", 1)
  /\ suppress' = 1 /\ Advance
  /\ UNCHANGED <<job, matched, normalizing, pends, plan, verdict>>

\* A walked group is entered by syntax, routed or not. Its head inserts fire
\* behind its start tag; its tail inserts wait for its end.
WalkGroup(reauthor) ==
  LET f == Item.field
      depth == Top.groups + 1
      opened == IF reauthor THEN Author(sink, <<TagToken(f, "Group")>>)
                ELSE Verbatim(sink, Here, Past)
      heads == LaneRules(f, "Head")
      tails == LaneRules(f, "Tail")
      counted == Counted("inserted", Len(heads))
  IN /\ sink' = Fire(opened, heads)
     /\ tally' = IF reauthor THEN [counted EXCEPT !.normalized = @ + 1] ELSE counted
     /\ pends' = pends \o [i \in 1..Len(tails) |->
                             [layer |-> Len(layers), depth |-> depth, rule |-> tails[i]]]
     /\ normalizing' = IF reauthor THEN Append(normalizing, <<Len(layers), depth>>)
                       ELSE normalizing
     /\ matched' = At(f)
     /\ layers' = [layers EXCEPT ![Len(layers)] =
                     [@ EXCEPT !.rest = Tail(@), !.pos = Past, !.groups = depth]]
     /\ UNCHANGED <<job, suppress, plan, verdict>>

ActOf(f) == IF Hits(f) = <<>> THEN "None" ELSE Program[Hits(f)[1]].act

GroupEnter ==
  /\ Delivered /\ suppress = 0 /\ Item.kind = "Enter"
  /\ LET act == ActOf(Item.field)
     IN IF Len(Hits(Item.field)) > 1 THEN Refuse("Conflict", Here)
        ELSE IF act = "Replace" THEN Refuse("KindMismatch", Here)
        ELSE IF Top.groups = Top.remaining THEN Refuse("Depth", Here)
        ELSE IF act = "Delete" THEN VanishGroup
        ELSE WalkGroup(act = "Normalize")

-----------------------------------------------------------------------------
\* The record is one rule's: deleted, replaced in kind, or normalized.
Owned(rule) ==
  LET act == Program[rule].act
      name == CASE act = "Delete" -> "deleted" [] act = "Replace" -> "replaced"
                [] OTHER -> "normalized"
  IN IF act = "Replace" /\ Program[rule].kind # Item.kind THEN Refuse("KindMismatch", Here)
     ELSE /\ sink' = CASE act = "Delete" -> DeleteIn(sink)
                       [] act = "Replace" ->
                            Author(Verbatim(sink, Here, Here + Item.tag), ValueTokens(rule))
                       [] OTHER -> Author(sink, NormalTokens)
          /\ tally' = Counted(name, 1)
          /\ Advance
          /\ UNCHANGED <<job, matched, suppress, normalizing, pends, plan, verdict>>

Copied ==
  /\ sink' = Verbatim(sink, Here, Past)
  /\ Advance
  /\ UNCHANGED <<job, matched, suppress, normalizing, pends, tally, plan, verdict>>

\* A scalar where an insert rule anchors is the caller's schema error.
Scalar ==
  /\ Delivered /\ suppress = 0 /\ Item.kind \in {"Varint", "I32", "I64"}
  /\ LET hits == Hits(Item.field)
     IN IF Len(hits) > 1 THEN Refuse("Conflict", Here)
        ELSE IF InteriorGaps(Item.field) # <<>> THEN Refuse("KindMismatch", Here)
        ELSE IF hits # <<>> THEN Owned(hits[1])
        ELSE Copied

\* The matcher enters the layer after the head inserts, which are the parent's.
WalkLen ==
  LET f == Item.field
      start == Here + Item.tag + Item.prefix
      heads == LaneRules(f, "Head")
  IN /\ sink' = Fire(Descend(sink, Here, Here + Item.tag, start, Past), heads)
     /\ tally' = [Counted("inserted", Len(heads)) EXCEPT !.descended = @ + 1]
     /\ matched' = At(f)
     /\ layers' = [layers EXCEPT ![Len(layers)] = [@ EXCEPT !.rest = Tail(@), !.pos = Past]]
                  \o <<[rest |-> Item.body, pos |-> start, field |-> f, head |-> Here,
                        tagEnd |-> Here + Item.tag, start |-> start, end |-> Past,
                        remaining |-> Top.remaining - Top.groups - 1, groups |-> 0,
                        tails |-> LaneRules(f, "Tail") # <<>>]>>
     /\ UNCHANGED <<job, suppress, normalizing, pends, plan, verdict>>

\* A clean interior is copied with its record, its descendants' slots passed.
SkipLen ==
  /\ sink' = Verbatim([sink EXCEPT !.cursor = @ + 1 + SlotIn(sink).word], Here, Past)
  /\ Advance
  /\ UNCHANGED <<job, matched, suppress, normalizing, pends, tally, plan, verdict>>

\* A slot read past the claimed ones is read without a check.
Unclaimed ==
  /\ verdict' = <<"Undefined">>
  /\ UNCHANGED <<job, layers, matched, suppress, normalizing, pends, tally, sink, plan>>

LenRecord ==
  /\ Delivered /\ suppress = 0 /\ Item.kind = "Len"
  /\ LET hits == Hits(Item.field)
     IN IF Len(hits) > 1 THEN Refuse("Conflict", Here)
        ELSE IF hits # <<>> THEN Owned(hits[1])
        ELSE IF InteriorGaps(Item.field) = <<>> /\ ~Routed(Item.field) THEN Copied
        ELSE IF Top.groups = Top.remaining THEN Refuse("Depth", Here)
        ELSE IF sink.pass = "Emit" /\ sink.cursor >= Len(sink.slots) THEN Unclaimed
        ELSE IF Skips(sink) THEN SkipLen
        ELSE WalkLen

Next ==
  \/ Seal \/ Finish \/ LayerEnds \/ WireBreach \/ Suppressed
  \/ GroupExit \/ GroupEnter \/ Scalar \/ LenRecord
Spec == Init /\ [][Next]_vars /\ WF_vars(Next)
=============================================================================
