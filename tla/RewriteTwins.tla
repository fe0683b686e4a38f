---------------------------- MODULE RewriteTwins ----------------------------
(* The two rewriters side by side: the buffered one over the bytes a source  *)
(* has, then the replay one over that source. Their receipts, outputs and    *)
(* faults must agree (tests/replay_rewrite_judges.rs:461-570). The replay    *)
(* rewriter takes no insert rules. Only TLC's runs use this module: it is    *)
(* recursive.                                                                *)
EXTENDS RewriteReference, ReplayRewrite, Splice, Convert, Regroup

\* What a cursor delivers of the first n bytes of these entries: it looks at a
\* whole record before it delivers it and at the groups still open at the end.
BadEntry(breach) ==
  [kind |-> "Bad", field |-> 0, tag |-> 0, prefix |-> 0, width |-> 0, breach |-> breach]
RECURSIVE CursorView(_, _)
CursorView(items, n) ==
  LET ends(view, breach) == [view EXCEPT !.out = Append(@, BadEntry(breach)), !.over = TRUE]
      takes(view, item) == [view EXCEPT !.out = Append(@, item), !.pos = @ + item.width]
      deliver(view, item) ==
        IF view.over \/ view.pos = n THEN view
        ELSE IF view.pos + item.width > n THEN ends(view, "Truncated")
        ELSE CASE item.kind = "Bad" -> [takes(view, item) EXCEPT !.over = TRUE]
               [] item.kind = "Enter" -> [takes(view, item) EXCEPT !.open = Append(@, item.field)]
               [] item.kind = "Exit" ->
                    IF view.open = <<>> \/ Last(view.open) # item.field
                    THEN ends(view, "Grouping")
                    ELSE [takes(view, item) EXCEPT !.open = Front(@)]
               [] item.kind = "Len" ->
                    takes(view, [item EXCEPT !.body = CursorView(@, Widths(@))])
               [] OTHER -> takes(view, item)
      seen == FoldLeft(deliver, [out |-> <<>>, pos |-> 0, open |-> <<>>, over |-> FALSE], items)
  IN IF seen.over \/ seen.open = <<>> THEN seen.out ELSE Append(seen.out, BadEntry("Grouping"))

\* A job's document is what a cursor makes of the bytes its source has, and
\* within the admission cap.
ASSUME JobsAssumption ==
  \A j \in Jobs : /\ j.document = CursorView(j.source, j.supply)
                  /\ Widths(j.source) <= LenMax

onlineVars == <<spliceVars, convertVars>>
twinVars == <<vars, replayVars, onlineVars, regroupVars>>
ruleVars == <<vars, replayVars>>
Repeatable == \A id \in 1..Len(Program) : Program[id].lane = "Target"

TwinInit == Init /\ NoReplay /\ NoSplice /\ NoConvert /\ NoRegroup

Mount ==
  /\ verdict # <<"Walking">> /\ Repeatable /\ Program # <<>> /\ BeginReplay
  /\ UNCHANGED <<vars, onlineVars, regroupVars>>

\* A job without rules is the splicer's, whose caller answers record by record,
\* or a converter's.
Ruleless ==
  /\ verdict # <<"Walking">> /\ Program = <<>>
  /\ splicing = <<"Idle">> /\ sinkFate = <<"Idle">> /\ regrouping = <<"Idle">>
MountSplice == Ruleless /\ BeginSplice /\ UNCHANGED <<ruleVars, convertVars, regroupVars>>
MountConvert == Ruleless /\ BeginConvert /\ UNCHANGED <<ruleVars, spliceVars, regroupVars>>
MountRegroup == Ruleless /\ BeginRegroup /\ UNCHANGED <<ruleVars, onlineVars>>

TwinNext ==
  \/ Next /\ UNCHANGED <<replayVars, onlineVars, regroupVars>>
  \/ Mount \/ MountSplice \/ MountConvert \/ MountRegroup
  \/ ReplayNext /\ UNCHANGED <<vars, onlineVars, regroupVars>>
  \/ SpliceNext /\ UNCHANGED <<ruleVars, convertVars, regroupVars>>
  \/ ConvertNext /\ UNCHANGED <<ruleVars, spliceVars, regroupVars>>
  \/ RegroupNext /\ UNCHANGED <<ruleVars, onlineVars>>
TwinSpec == TwinInit /\ [][TwinNext]_twinVars /\ WF_twinVars(TwinNext)

-----------------------------------------------------------------------------
\* The committed LENs crossed to the buffered fault; an interior that outgrew
\* its class is refused from outside it.
TwinTrail ==
  LET crossed == IF verdict[2] = "Growth" THEN Front(layers) ELSE layers
  IN [i \in 1..Len(crossed) - 1 |-> <<crossed[i + 1].field, crossed[i + 1].head>>]

Emitted == fate[1] \in {"Measured", "Folding", "Done", "Torn"}

(* Wherever the source lends, refuses or tears, what the sink has received   *)
(* is a prefix of what the buffered rewriter writes, and the whole of it,    *)
(* at the compiled length and with the same receipt, when the fold ends      *)
(* well; a document either refuses is refused by both, at one record and     *)
(* behind one trail. The buffered rewriter alone caps its root output        *)
(* (replay_rewrite/grouped.rs:133-137, tests/replay_rewrite_judges.rs:546).  *)
TwinsAgree ==
  /\ Emitted /\ verdict[1] = "Fault" => verdict[2] = "Output"
  /\ verdict = <<"Done">> =>
       /\ IsPrefix(handed, sink.out)
       /\ Emitted => /\ script.outLen = plan.total
                     /\ \A name \in DOMAIN receipt : receipt[name] = plan.tally[name]
       /\ fate = <<"Done">> => handed = sink.out
  /\ fate[1] = "Document" =>
       verdict[1] = "Fault" /\ verdict[3] = fate[3] /\ TwinTrail = fate[4]

(* The splicer's two back-ends and the converter's two faces settle their   *)
(* prefixes in different ways and give the bytes the document and the        *)
(* caller's answers mean (splice.rs:21-26, convert/groupless.rs:144-151), or *)
(* the same refusal; the converter that prices first gives the document its  *)
(* program describes, or its first fault.                                    *)
SpliceAndConvertAreExact == SplicesAgree /\ ConversionsAgree /\ RegroupIsExact

(* Every job ends, in both rewriters: the walks consume an entry or leave a  *)
(* container at each turn, the fold hands bytes or ends a step, and the      *)
(* thread that runs them keeps turning.                                      *)
JobsEnd ==
  <>(/\ verdict # <<"Walking">>
     /\ IF Program = <<>> THEN SpliceEnded \/ ConvertEnded \/ RegroupEnded
        ELSE Repeatable => fate[1] \in {"Done", "Torn", "Source", "Document"})
=============================================================================
