-------------------------- MODULE RewriteReference --------------------------
(* What a rewriting job promises, read off the document as a tree: no passes, *)
(* no slots, no matcher state and no explicit stack. Only TLC's runs use     *)
(* this module: it is recursive.                                             *)
EXTENDS Rewrite

Clean(out) == [out |-> out, fault |-> None]
Faulty(kind, at) == [out |-> <<>>, fault |-> <<"Fault", kind, at>>]
Then(first, second) ==
  IF first.fault # None THEN first ELSE [out |-> first.out \o second.out, fault |-> second.fault]

\* The index of the end that closes a group opened by the first item, or one
\* past the items when a wire fault stands before it.
Opens(items, n) == Len(SelectSeq(SubSeq(items, 1, n), LAMBDA e : e.kind = "Enter"))
Closes(items, n) == Len(SelectSeq(SubSeq(items, 1, n), LAMBDA e : e.kind = "Exit"))
CloseOf(items) ==
  LET even == {n \in 1..Len(items) : Opens(items, n) = Closes(items, n)}
  IN IF even = {} THEN Len(items) + 1 ELSE CHOOSE n \in even : \A m \in even : n <= m

Inserts(ids) ==
  FoldLeft(LAMBDA out, id :
             out \o <<TagToken(Program[id].field, Program[id].kind)>> \o ValueTokens(id),
           <<>>, ids)

\* A record re-emitted by the one rule that targets it.
Made(item, pos, id) ==
  CASE Program[id].act = "Delete" -> Clean(<<>>)
    [] Program[id].act = "Replace" ->
         IF Program[id].kind # item.kind THEN Faulty("KindMismatch", pos)
         ELSE Clean(Source(pos, pos + item.tag) \o ValueTokens(id))
    [] OTHER ->
         Clean(<<TagToken(item.field, item.kind)>> \o
               CASE item.kind = "Varint" -> <<<<"Minimal", pos, item.min>>>>
                 [] item.kind = "Len" ->
                      <<PrefixToken(item.width - item.tag - item.prefix)>>
                      \o Source(pos + item.tag + item.prefix, pos + item.width)
                 [] OTHER -> Source(pos + item.tag, pos + item.width))

\* where: the fields crossed, the depth left to the layer, its open groups,
\* and whether a deleted group stands above.
RECURSIVE Rewritten(_, _, _)
Rewritten(items, pos, where) ==
  IF items = <<>> THEN Clean(<<>>)
  ELSE
  LET item == items[1]
      f == item.field
      here == Append(where.fields, f)
      after == pos + item.width
      rest == Rewritten(Tail(items), after, where)
      targeting == Selecting(Program, here, {"Target"})
      heads == Selecting(Program, here, {"Head"})
      tails == Selecting(Program, here, {"Tail"})
      whole == Source(pos, after)
      close == CloseOf(items)
      body == SubSeq(items, 2, close - 1)
      closed == after + Widths(body)
      beyond == IF close > Len(items) THEN Clean(<<>>)
                ELSE Rewritten(SubSeq(items, close + 1, Len(items)),
                               closed + items[close].width, where)
      inGroup(silent) ==
        Rewritten(body, after, [where EXCEPT !.fields = here, !.groups = @ + 1, !.silent = silent])
      endTag == IF close > Len(items) THEN <<>> ELSE Source(closed, closed + items[close].width)
      start == pos + item.tag + item.prefix
  IN
  IF item.kind = "Bad" THEN Faulty(item.breach, pos)
  ELSE IF item.kind = "Enter"
  THEN IF where.groups = job.limit THEN Faulty("Depth", pos)
       ELSE IF ~where.silent /\ Len(targeting) > 1 THEN Faulty("Conflict", pos)
       ELSE IF ~where.silent /\ targeting # <<>> /\ Program[targeting[1]].act = "Replace"
       THEN Faulty("KindMismatch", pos)
       ELSE IF where.groups = where.left THEN Faulty("Depth", pos)
       ELSE IF where.silent THEN Then(inGroup(TRUE), beyond)
       ELSE IF targeting # <<>> /\ Program[targeting[1]].act = "Delete"
       THEN Then(Then([inGroup(TRUE) EXCEPT !.out = <<>>], Clean(<<>>)), beyond)
       ELSE LET re == targeting # <<>>
                inner == Then(Then(Clean(Inserts(heads)), inGroup(FALSE)), Clean(Inserts(tails)))
                framed == Then(Then(Clean(IF re THEN <<TagToken(f, "Group")>> ELSE whole), inner),
                               Clean(IF re THEN <<TagToken(f, "End")>> ELSE endTag))
            IN Then(framed, beyond)
  ELSE IF where.silent THEN rest
  ELSE IF Len(targeting) > 1 THEN Faulty("Conflict", pos)
  ELSE IF item.kind # "Len"
  THEN IF heads \o tails # <<>> THEN Faulty("KindMismatch", pos)
       ELSE Then(IF targeting # <<>> THEN Made(item, pos, targeting[1]) ELSE Clean(whole), rest)
  ELSE IF targeting # <<>> THEN Then(Made(item, pos, targeting[1]), rest)
  ELSE IF heads \o tails = <<>> /\ ~MatchesBelow(Program, here, Fields)
  THEN Then(Clean(whole), rest)
  ELSE IF where.groups = where.left THEN Faulty("Depth", pos)
  ELSE LET inner == Then(Then(Clean(Inserts(heads)),
                              Rewritten(item.body, start,
                                        [fields |-> here, left |-> where.left - where.groups - 1,
                                         groups |-> 0, silent |-> FALSE])),
                         Clean(Inserts(tails)))
           n == LengthOf(inner.out)
           framing == IF n = after - start THEN Source(pos, start)
                      ELSE Append(Source(pos, pos + item.tag), PrefixToken(n))
       IN IF inner.fault # None THEN inner
          ELSE IF n > LenMax THEN Faulty("Growth", pos)
          ELSE Then(Clean(framing \o inner.out), rest)

Reference ==
  LET walked == Then(Then(Clean(Inserts(RootInserts("Head"))),
                          Rewritten(job.document, 0,
                                    [fields |-> <<>>, left |-> job.limit, groups |-> 0,
                                     silent |-> FALSE])),
                     Clean(Inserts(RootInserts("Tail"))))
  IN IF walked.fault = None /\ LengthOf(walked.out) > LenMax THEN Faulty("Output", 0) ELSE walked

-----------------------------------------------------------------------------
(* A job ends with the bytes the rules mean, source bytes copied one by one  *)
(* and every changed prefix repriced, or refuses with the first fault of the *)
(* document, and then before anything was written (rewrite/grouped.rs:1525). *)
(* There is no third way: the emit pass reaches no fault site and reads no   *)
(* slot that was not claimed, both of which are unchecked                    *)
(* (rewrite/grouped.rs:1172-1179, rewrite.rs:1188), and the pins hold: every *)
(* dirty interior emits its slot's length, every slot is consumed once, the  *)
(* measured total is written (rewrite/grouped.rs:1154-1166, 1243-1252).      *)
OutputIsExact ==
  verdict # <<"Walking">> =>
    \/ verdict = <<"Done">> /\ Reference = Clean(sink.out)
    \/ verdict[1] = "Fault" /\ Reference.fault = verdict
=============================================================================
