------------------------------ MODULE Transcode ------------------------------
(***************************************************************************)
(* The streaming transcoder: Transcoder of                                 *)
(* src/src/transcode/grouped.rs, over the shared vocabulary of             *)
(* src/src/transcode.rs and the pump's held step faces.                    *)
(*                                                                         *)
(* It drives the same pump as the parser of Scan - same feed prologue,     *)
(* same endpoints, same words - and writes: every record is put to a rule, *)
(* and its bytes leave when the verdict settles, never before.  The tag    *)
(* waits in stage, the word in the carry; a payload is never buffered.     *)
(* Below an entered LEN (Locked) only length-preserving verbs exist; below *)
(* a dropped group (Suppressed) nothing is asked and nothing is written.   *)
(*                                                                         *)
(* Mode::Redirect is Scan's Forward mode with the rule's account beside it *)
(* in redirect.  A rule's answer is the triple <<before, verb, argument>>: *)
(* at most one insertion precedes a verdict (a bound; the code's ask loop  *)
(* takes any number), handed over whole or pulled from the rule's source.  *)
(***************************************************************************)
EXTENDS Scan, SequencesExt

CONSTANTS
  Streams,    \* bound: the documents fed, as byte sequences
  Injected,   \* the bytes a rule injects: one encoded record
  Rewrites    \* the varints a rule rewrites to, as digits

VARIABLES
  job,        \* [machine, standard, doc]: who reads what, under which law
  stage,      \* StagedHead: the record's tag bytes
  floor,      \* the dropped group's frame, 0 when none is
  redirect,   \* [start, field, framed, owed, style] of a redirected payload
  written     \* every byte emitted

ruleVars == <<stage, floor, redirect, written>>

Jobs ==
  {[machine |-> "parser", standard |-> Standard, doc |-> << >>]}
    \cup [machine : {"transcoder"}, standard : {"Tolerant", "CanonicalMinimal"}, doc : Streams]

NoRedirect == [style |-> "none"]

TranscoderInit == stage = << >> /\ floor = 0 /\ redirect = NoRedirect /\ written = << >>

----------------------------------------------------------------------------
(* The held face of a step: a completed construct stays in the carry, so   *)
(* that its source bytes can be emitted before it is cleared.              *)

Held(c, w) ==
  {IF s.verdict = "Done"
   THEN [s EXCEPT !.cursor.carry.buf = c.carry.buf \o SubSeq(c.chunk, 1, s.cursor.off - c.off)]
   ELSE s
   : s \in Step(c, w, zone, job.standard)}

Locked == zone # MaxOff
Suppressed == floor # 0
HeadAt(c, head) == ConstructStart(c) - Len(head)

\* Slip: only an empty stage is filled.
StagedOnce(c) == IF stage # << >> THEN stage ELSE c.carry.buf
\* stage_head: nothing inside a dropped tree has a use for its head.
Staged(c) == IF Suppressed THEN stage ELSE c.carry.buf

\* A word that did not complete, the breaches summarized.
WordStops(s) ==
  CASE s.verdict = "More"       -> Return(<<"More">>)
    [] s.verdict = "Cut"        -> Halt(zone, <<"Varint">>)
    [] s.verdict = "NonMinimal" -> Halt(ConstructStart(s.cursor), <<"Minimality">>)
    [] OTHER                    -> Halt(ConstructStart(s.cursor), <<"Varint">>)

----------------------------------------------------------------------------
(* What an answer emits, and the breach it may be.                         *)

Ruling(out) == [out |-> out, fault |-> << >>]
Breaks(out, fault) == [out |-> out, fault |-> fault]
Upheld(r) == r.fault = << >>
Then(r, next) == IF Upheld(r) THEN [next EXCEPT !.out = r.out \o @] ELSE r
Zeros(n) == [i \in 1..n |-> 0]

\* pump_source: chunks until the account settles; the source closes on time,
\* one byte early, or hands its last chunk one byte too large.
Pull(bytes, source, field) ==
  CASE source = "exact" \/ bytes = << >> -> Ruling(bytes)
    [] source = "short" -> Breaks(Front(bytes), <<"SourceShort", field, 1>>)
    [] source = "over"  -> Breaks(Front(bytes), <<"SourceOverrun", field>>)

Before(b, field) ==
  CASE b = "none"   -> Ruling(<< >>)
    [] b = "insert" -> Ruling(Injected)
    [] OTHER        -> Pull(Injected, b, field)

\* Every insertion goes before a kept record, a whole one before a drop too.
Preceded(keep, drop, none) ==
  ({"none", "insert", "exact", "short", "over"} \X {keep} \X {none})
    \cup ({"none", "insert"} \X {drop} \X {none})
FreeScalar(values) == Preceded("Keep", "Drop", << >>) \cup ({"none"} \X {"Rewrite"} \X values)
LockedScalar(values) == {<<"none", "Keep", << >>>>} \cup ({"none"} \X {"Rewrite"} \X values)
FreeGroup == Preceded("Keep", "Drop", "")
LockedLen ==
  {<<"none", "Pass", "">>, <<"none", "Commit", "">>}
    \cup ({"none"} \X {"Replace"} \X {"exact", "other"})
    \cup ({"none"} \X {"Transform"} \X {"each", "flush", "short", "over", "greedy"})
FreeLen ==
  LockedLen \cup Preceded("Pass", "Drop", "")
    \cup ({"none"} \X {"ReplaceSource"} \X {"exact", "short", "over"})
    \cup ({"none"} \X {"Divert"} \X {"each", "flush"})

Spell(v, width) == [i \in 1..width |-> At(v, i) + IF i < width THEN 128 ELSE 0]
\* Slip: the value's own width, whatever the record's.
EqualWidthMinimal(v, width, field, head) == Ruling(head \o Spell(v, EncodedLen(v)))
\* emit_equal_width: padded under Tolerant, exact under CanonicalMinimal.
EqualWidth(v, width, field, head) ==
  LET need == EncodedLen(v)
  IN  IF job.standard = "CanonicalMinimal" /\ need # width
      THEN Breaks(<< >>, <<"RewriteWidthMismatch", field, width, need>>)
      ELSE IF need > width THEN Breaks(<< >>, <<"RewriteOverflow", field, width, need>>)
      ELSE Ruling(head \o Spell(v, width))

VarintRuling(a, field, head, word) ==
  Then(Before(a[1], field),
       CASE a[2] = "Keep" -> Ruling(head \o word)
         [] a[2] = "Drop" -> Ruling(<< >>)
         [] a[2] = "Rewrite" /\ Locked  -> EqualWidth(a[3], Len(word), field, head)
         [] a[2] = "Rewrite" /\ ~Locked -> Ruling(head \o Spell(a[3], EncodedLen(a[3]))))

FixedRuling(a, field, head, bytes) ==
  Then(Before(a[1], field),
       Ruling(CASE a[2] = "Keep"    -> head \o bytes
                [] a[2] = "Drop"    -> << >>
                [] a[2] = "Rewrite" -> head \o Zeros(Len(bytes))))

\* What the rule hands back for a fragment and at the flush, in each style.
OnFragment(red, fragment) ==
  CASE red.style = "each"   -> IF red.framed THEN Zeros(Len(fragment)) ELSE fragment
    [] red.style = "greedy" -> Zeros(red.owed + 1)
    [] OTHER                -> << >>
OnFlush(red) ==
  CASE red.style = "flush" -> IF red.framed THEN Zeros(red.owed) ELSE Injected
    [] red.style = "short" -> IF red.owed = 0 THEN << >> ELSE Zeros(red.owed - 1)
    [] red.style = "over"  -> Zeros(red.owed + 1)
    [] OTHER               -> << >>

\* account: an overflow is judged before its bytes are emitted.
Paid(red, bytes) ==
  IF red.framed /\ Len(bytes) > red.owed THEN Breaks(<< >>, <<"TransformOverflow", red.field>>)
  ELSE Ruling(bytes)
\* Slip: what a fragment's answer emitted is not debited.
Undebited(red, bytes) == red
Debited(red, bytes) == IF red.framed THEN [red EXCEPT !.owed = @ - Len(bytes)] ELSE red

\* flush_redirect: the last answers, then the shortfall judgement.
FlushRedirect(red) ==
  LET paid == Paid(red, OnFlush(red))
      left == Debited(red, OnFlush(red)).owed
  IN  IF Upheld(paid) /\ red.framed /\ left # 0
      THEN Breaks(paid.out, <<"TransformShortfall", red.field, left>>)
      ELSE paid

\* settle_len, Commit's frame apart.  frame is the tag and the prefix.
LenRuling(a, red, len, frame) ==
  Then(Before(a[1], red.field),
       CASE a[2] \in {"Pass", "Commit"} -> Ruling(frame)
         [] a[2] = "Drop"               -> Ruling(<< >>)
         [] a[2] = "Replace" ->
              IF a[3] = "exact" THEN Ruling(frame \o Zeros(len))
              ELSE Breaks(<< >>, <<"ReplaceLenMismatch", red.field, len, len + 1>>)
         [] a[2] = "ReplaceSource" -> Then(Ruling(frame), Pull(Zeros(len), a[3], red.field))
         [] a[2] \in {"Transform", "Divert"} ->
              Then(Ruling(IF red.framed THEN frame ELSE << >>),
                   IF len = 0 THEN FlushRedirect(red) ELSE Ruling(<< >>)))

LenMode(verb, len) ==
  CASE verb = "Commit" -> HeadMode
    [] verb \in {"Pass", "Transform", "Divert"} -> Counting("Forward", len)
    [] OTHER -> Counting("Swallow", len)

\* A pass ends with the ruling's bytes out, and halts at head if it broke a law.
Settle(r, head) ==
  /\ written' = written \o r.out
  /\ IF Upheld(r) THEN UNCHANGED <<pc, outcome, terminal>> ELSE Halt(head, r.fault)

\* A callback of the rule or of the output unwound: nothing more is written.
Unwinds == "unwind" \in SinkAnswers /\ Unwind /\ UNCHANGED written

----------------------------------------------------------------------------
(* The endpoints, the words and the payloads.                              *)

Notify(notes) ==
  \/ events' = events \o notes /\ UNCHANGED <<pc, outcome, terminal>>
  \/ "unwind" \in SinkAnswers /\ Unwind /\ UNCHANGED events

EndLen ==
  /\ pc = "drive" /\ EndpointDue
  /\ Top.k = "Len"
  /\ stack' = Pop /\ zone' = Top.prev_zone
  /\ Notify(<<<<"lenExit", Top.field, off>>>>)
  /\ UNCHANGED <<off, carry, mode, chunk, ruleVars>>

GroupOpenAtLenEnd ==
  /\ pc = "drive" /\ EndpointDue
  /\ Top.k = "Group"
  /\ Halt(off, <<"Grouping">>)
  /\ UNCHANGED <<off, zone, carry, mode, stack, chunk, events, ruleVars>>

\* varint_value: c is the cursor the caller reached, head the staged tag.
WriteVarint(field, c, head) ==
  /\ \E s \in Held(c, ValueWindow) :
       LET at   == HeadAt(c, head)
           word == s.cursor.carry.buf
           done == s.verdict = "Done"
       IN  \/ /\ ~done
              /\ Put(s.cursor) /\ WordStops(s)
              /\ mode' = IF s.verdict = "More" THEN Waiting("VarintValue", field) ELSE mode
              /\ UNCHANGED <<events, written>>
           \/ /\ done /\ Suppressed
              /\ Put(Clear(s.cursor)) /\ mode' = HeadMode
              /\ UNCHANGED <<events, written, pc, outcome, terminal>>
           \/ /\ done /\ ~Suppressed
              /\ \E a \in IF Locked THEN LockedScalar(Rewrites) ELSE FreeScalar(Rewrites) :
                   LET r == VarintRuling(a, field, head, word)
                   IN  /\ events' =
                            Append(events, <<"varint", at, field, Value(s.value), Len(word), a>>)
                       /\ Settle(r, at)
                       /\ Put(IF Upheld(r) THEN Clear(s.cursor) ELSE s.cursor)
                       /\ mode' = IF Upheld(r) THEN HeadMode ELSE mode
           \/ /\ done /\ ~Suppressed /\ Unwinds
              /\ Put(s.cursor) /\ UNCHANGED <<mode, events>>
  /\ stage' = head
  /\ UNCHANGED <<zone, stack, floor, redirect>>

WriteFixed(field, kind, c, head) ==
  LET d  == Collected(c, zone, Need(kind))
      at == HeadAt(c, head)
      verdict == CollectVerdict(d, zone, Need(kind))
  IN  /\ \/ /\ verdict = "More"
            /\ Put(d) /\ mode' = FixedTail(field, kind) /\ Return(<<"More">>)
            /\ UNCHANGED <<events, written>>
         \/ /\ verdict = "Done" /\ Suppressed
            /\ Put(Clear(d)) /\ mode' = HeadMode
            /\ UNCHANGED <<events, written, pc, outcome, terminal>>
         \/ /\ verdict = "Done" /\ ~Suppressed
            /\ Put(Clear(d))
            /\ \E a \in IF Locked THEN LockedScalar({<< >>}) ELSE FreeScalar({<< >>}) :
                 LET r == FixedRuling(a, field, head, d.carry.buf)
                 IN  /\ events' = Append(events, <<"fixed", at, field, d.carry.buf, a>>)
                     /\ Settle(r, at)
                     /\ mode' = IF Upheld(r) THEN HeadMode ELSE mode
         \/ /\ verdict = "Done" /\ ~Suppressed /\ Unwinds
            /\ Put(Clear(d)) /\ UNCHANGED <<mode, events>>
      /\ stage' = head
      /\ UNCHANGED <<zone, stack, floor, redirect>>

\* The ask and the settling of an admitted LEN; held still holds its prefix.
AskLenVerb(field, len, held, head, at) ==
  \E a \in IF Locked THEN LockedLen ELSE FreeLen :
    LET red     == [start |-> at, field |-> field, framed |-> a[2] = "Transform",
                    owed |-> len, style |-> a[3]]
        r       == LenRuling(a, red, len, head \o held.carry.buf)
        deep    == a[2] = "Commit" /\ Len(stack) >= Depth
        refused == deep \/ (~Upheld(r) /\ a[2] \in {"Pass", "Replace"})
        routed  == a[2] \in {"Transform", "Divert"}
        asked   == <<<<"len", at, field, len, a>>>>
    IN  /\ events' = events \o asked \o IF routed /\ len = 0 THEN <<<<"flush">>>> ELSE << >>
        /\ IF deep THEN Halt(held.off, <<"Depth">>) /\ UNCHANGED written ELSE Settle(r, at)
        /\ Put(IF refused THEN held ELSE Clear(held))
        /\ mode' = IF refused THEN mode ELSE LenMode(a[2], len)
        /\ redirect' = IF routed /\ len > 0 THEN red ELSE NoRedirect
        /\ IF a[2] = "Commit" /\ ~deep
           THEN stack' = Append(stack, LenExtent(zone, field)) /\ zone' = held.off + len
           ELSE UNCHANGED <<stack, zone>>

WriteLen(field, c, head) ==
  /\ \E s \in Held(c, LenWindow) :
       LET len  == Length(s.value)
           fits == LenFits(s.cursor.off, len)
           done == s.verdict = "Done"
       IN  \/ /\ ~done
              /\ Put(s.cursor) /\ WordStops(s)
              /\ mode' = IF s.verdict = "More" THEN Waiting("LenWord", field) ELSE mode
              /\ UNCHANGED <<zone, stack, events, written, redirect>>
           \/ /\ done /\ ~fits
              /\ Put(s.cursor)
              /\ Halt(s.cursor.off, IF Locked THEN <<"Truncated">> ELSE <<"OffsetExhausted">>)
              /\ UNCHANGED <<zone, mode, stack, events, written, redirect>>
           \/ /\ done /\ fits /\ Suppressed
              /\ Put(Clear(s.cursor)) /\ mode' = Counting("Swallow", len)
              /\ UNCHANGED <<zone, stack, events, written, redirect, pc, outcome, terminal>>
           \/ /\ done /\ fits /\ ~Suppressed
              /\ AskLenVerb(field, len, s.cursor, head, HeadAt(c, head))
           \/ /\ done /\ fits /\ ~Suppressed /\ Unwinds
              /\ Put(s.cursor) /\ UNCHANGED <<zone, mode, stack, events, redirect>>
  /\ stage' = head
  /\ UNCHANGED floor

----------------------------------------------------------------------------
(* The record heads.                                                       *)

HeadStops ==
  /\ Arm("Head")
  /\ \E s \in Held(Cursor, TagWindow) :
       /\ s.verdict # "Done"
       /\ Put(s.cursor) /\ WordStops(s)
  /\ UNCHANGED <<zone, mode, stack, events, ruleVars>>

\* The completed tag, still held, when it is of the class.
Heads(class) ==
  {s \in Held(Cursor, TagWindow) :
     /\ s.verdict = "Done"
     /\ class = IF FieldOf(s.value) = 0 THEN "FieldZero" ELSE ClassifyGrouped(Low3(s.value))}

UnknownHead ==
  /\ Arm("Head")
  /\ \E s \in Heads("FieldZero") \cup Heads("Unassigned") :
       Put(s.cursor) /\ Halt(ConstructStart(s.cursor), <<"Tag">>)
  /\ UNCHANGED <<zone, mode, stack, events, ruleVars>>

VarintHead ==
  /\ Arm("Head")
  /\ \E s \in Heads("Varint") :
       WriteVarint(FieldOf(s.value), Clear(s.cursor), Staged(s.cursor))

LenHead ==
  /\ Arm("Head")
  /\ \E s \in Heads("Len") : WriteLen(FieldOf(s.value), Clear(s.cursor), Staged(s.cursor))

FixedHead(kind) ==
  /\ Arm("Head")
  /\ \E s \in Heads(kind) :
       /\ zone - s.cursor.off >= Need(kind)
       /\ WriteFixed(FieldOf(s.value), kind, Clear(s.cursor), Staged(s.cursor))

FixedTruncated(kind) ==
  /\ Arm("Head")
  /\ \E s \in Heads(kind) :
       /\ zone - s.cursor.off < Need(kind)
       /\ Put(s.cursor) /\ Halt(s.cursor.off, <<"Truncated">>)
  /\ UNCHANGED <<zone, mode, stack, events, ruleVars>>

\* group_open.  A locked walk keeps every group unasked.
GroupHead ==
  /\ Arm("Head")
  /\ \E s \in Heads("Group") :
       LET field == FieldOf(s.value)
           at    == ConstructStart(s.cursor)
           kept  == <<<<"groupEnter", field, s.cursor.off>>>>
           Pushed == stack' = Append(stack, GroupExtent(field)) /\ Put(Clear(s.cursor))
           Running == UNCHANGED <<pc, outcome, terminal>>
       IN  \/ /\ Len(stack) >= Depth
              /\ Put(s.cursor) /\ Halt(at, <<"Depth">>)
              /\ UNCHANGED <<stack, events, written, floor>>
           \/ /\ Len(stack) < Depth /\ Suppressed
              /\ Pushed /\ Running
              /\ UNCHANGED <<events, written, floor>>
           \/ /\ Len(stack) < Depth /\ ~Suppressed /\ Locked
              /\ Pushed /\ Running
              /\ written' = written \o s.cursor.carry.buf
              /\ events' = events \o kept
              /\ UNCHANGED floor
           \/ /\ Len(stack) < Depth /\ ~Suppressed /\ ~Locked
              /\ \E a \in FreeGroup :
                   LET drop  == a[2] = "Drop"
                       r     == Then(Before(a[1], field),
                                     Ruling(IF drop THEN << >> ELSE s.cursor.carry.buf))
                       asked == <<<<"group", at, field, a>>>>
                   IN  /\ Settle(r, at)
                       /\ events' = events \o asked \o IF drop \/ ~Upheld(r) THEN << >> ELSE kept
                       /\ floor' = IF drop THEN Len(stack) + 1 ELSE floor
                       /\ IF Upheld(r) THEN Pushed ELSE Put(s.cursor) /\ UNCHANGED stack
           \/ /\ Len(stack) < Depth /\ ~Suppressed /\ Unwinds
              /\ Put(s.cursor) /\ UNCHANGED <<stack, events, floor>>
  /\ UNCHANGED <<zone, mode, stage, redirect>>

\* Slip: any group's end lifts the suppression.
LiftsAlways == TRUE
\* Suppression ends, silently, with the dropped group's own end tag.
Lifts == floor = Len(stack)

GroupTail ==
  /\ Arm("Head")
  /\ \E s \in Heads("GroupEnd") :
       LET end == FieldOf(s.value)
           at  == ConstructStart(s.cursor)
       IN  IF stack = << >> \/ Top # GroupExtent(end)
           THEN /\ Put(s.cursor) /\ Halt(at, <<"Grouping">>)
                /\ UNCHANGED <<stack, events, floor, written>>
           ELSE /\ stack' = Pop /\ Put(Clear(s.cursor))
                /\ IF Suppressed
                   THEN /\ floor' = IF Lifts THEN 0 ELSE floor
                        /\ UNCHANGED <<events, written, pc, outcome, terminal>>
                   ELSE /\ written' = written \o s.cursor.carry.buf
                        /\ Notify(<<<<"groupExit", end, at>>>>)
                        /\ UNCHANGED floor
  /\ UNCHANGED <<zone, mode, stage, redirect>>

----------------------------------------------------------------------------
(* The other arms, the calls, and the end.                                 *)

VarintGoesOn == Arm("VarintValue") /\ WriteVarint(mode.field, Cursor, stage)
LenGoesOn == Arm("LenWord") /\ WriteLen(mode.field, Cursor, stage)
FixedGoesOn == Arm("FixedTail") /\ WriteFixed(mode.field, mode.kind, Cursor, stage)

Redirecting == redirect # NoRedirect
Fragment == SubSeq(chunk, 1, Least(mode.remaining, Len(chunk)))

ForwardOn ==
  /\ Arm("Forward") /\ ~Redirecting
  /\ Counted(Len(Fragment))
  /\ \/ written' = written \o Fragment /\ UNCHANGED <<pc, outcome, terminal>>
     \/ Unwinds
  /\ UNCHANGED <<events, stage, floor, redirect>>

SwallowOn ==
  /\ Arm("Swallow")
  /\ Counted(Least(mode.remaining, Len(chunk)))
  /\ UNCHANGED <<pc, outcome, terminal, events, ruleVars>>

RedirectOn ==
  /\ Arm("Forward") /\ Redirecting
  /\ LET returned == OnFragment(redirect, Fragment)
         paid     == Paid(redirect, returned)
         debited  == Debited(redirect, returned)
         left     == mode.remaining - Len(Fragment)
         flushed  == Upheld(paid) /\ left = 0
         r        == IF flushed THEN Then(paid, FlushRedirect(debited)) ELSE paid
     IN  /\ off' = off + Len(Fragment) /\ chunk' = Skip(chunk, Len(Fragment))
         /\ \/ /\ Settle(r, redirect.start)
               /\ events' = Delivered(Fragment) \o IF flushed THEN <<<<"flush">>>> ELSE << >>
               /\ mode' = IF Upheld(paid) THEN Counting("Forward", left) ELSE mode
               /\ redirect' = IF ~Upheld(paid) THEN redirect
                              ELSE IF flushed THEN NoRedirect ELSE debited
            \/ Unwinds /\ UNCHANGED <<events, mode, redirect>>
  /\ UNCHANGED <<zone, carry, stack, stage, floor>>

TranscoderSpent == ChunkSpent /\ UNCHANGED ruleVars

TranscoderDrive ==
  /\ \/ EndLen \/ GroupOpenAtLenEnd \/ TranscoderSpent
     \/ HeadStops \/ UnknownHead \/ VarintHead \/ LenHead \/ GroupHead \/ GroupTail
     \/ \E kind \in {"I32", "I64"} : FixedHead(kind) \/ FixedTruncated(kind)
     \/ VarintGoesOn \/ LenGoesOn \/ FixedGoesOn
     \/ ForwardOn \/ SwallowOn \/ RedirectOn
  /\ UNCHANGED <<fed, job>>

EndVerdict ==
  CASE mode # HeadMode \/ Width(Cursor) > 0  -> <<"Fault", off, <<"Truncated">>>>
    [] stack # << >> /\ Top.k = "Len"        -> <<"Fault", off, <<"Truncated">>>>
    [] stack # << >> /\ Top.k = "Group"      -> <<"Fault", off, <<"Grouping">>>>
    [] OTHER                                 -> <<"Clean">>

\* finish: the verdict, and on a clean end the rule's tail at the root.
TranscoderFinish ==
  /\ pc = "idle" /\ ~terminal
  /\ pc' = "gone" /\ outcome' = EndVerdict
  /\ IF EndVerdict = <<"Clean">>
     THEN \E tail \in {<< >>, Injected} :
            written' = written \o tail /\ events' = Append(events, <<"end", tail>>)
     ELSE UNCHANGED <<written, events>>
  /\ UNCHANGED <<off, zone, carry, mode, stack, terminal, chunk, fed, stage, floor, redirect>>

\* feed shares the parser's prologue; the document arrives cut anywhere.
TranscoderFeed ==
  \E n \in 0..Least(MaxChunk, Len(job.doc) - Len(fed)) :
    LET bytes == SubSeq(job.doc, Len(fed) + 1, Len(fed) + n)
    IN  (Feed(bytes) \/ RefuseFeed(bytes)) /\ UNCHANGED ruleVars

TranscoderNext ==
  TranscoderFeed \/ TranscoderFinish \/ TranscoderDrive \/ (Rest /\ UNCHANGED ruleVars)

----------------------------------------------------------------------------
(* Both readers of the pump, one job each.                                 *)

Parses == job.machine = "parser" /\ UNCHANGED <<job, ruleVars>>
Transcodes == job.machine = "transcoder" /\ UNCHANGED job

StreamInit == Init /\ job \in Jobs /\ TranscoderInit

StreamNext == (Parses /\ Next) \/ (Transcodes /\ TranscoderNext)

allVars == <<vars, job, ruleVars>>

\* Each feed is one synchronous call, whichever machine is fed.
StreamSpec ==
  StreamInit /\ [][StreamNext]_allVars
    /\ WF_allVars(Parses /\ Drive) /\ WF_allVars(Transcodes /\ TranscoderDrive)
=============================================================================
