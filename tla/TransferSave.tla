---------------------------- MODULE TransferSave ----------------------------
(***************************************************************************)
(* Saving and undoing in the revising editor with source transfer: the     *)
(* settle that tells the two passes what a row gives, the sizing pass with *)
(* the body lengths it records, the emit pass that takes them back, and    *)
(* the documents the undo stack stands for.                                *)
(***************************************************************************)
EXTENDS Transfer

CONSTANT Cap    \* the top of the length class and of the coordinates

VARIABLES
  doc,    \* what a save gave when the last step began
  past    \* the same, before each of the commands pending then

Minimal(n) == IF n < 128 THEN <<n>> ELSE <<128 + (n % 128), n \div 128>>
Between(bytes, from, to) == SubSeq(bytes, from + 1, to)

----------------------------------------------------------------------------
(* What a row gives.                                                       *)

\* A record's tag, and the length prefix it was met with, if it was.
Met(bytes, at, tag_end, prefix_end, end) ==
  [tag |-> Between(bytes, at, tag_end), prefix |-> Between(bytes, tag_end, prefix_end),
   len |-> end - prefix_end]
OwnFraming(r) ==
  LET row == rows[r]
  IN  Met(Backing(r), row.at, row.at + row.tag_w, BodyAt(row), row.end)
ImportFraming(rec) == Met(rec, 0, 1, ImportBody(rec), Len(rec))
NewFraming(row) == [tag |-> <<row.head>>, prefix |-> << >>, len |-> -1]

Skip == [k |-> "Skip"]
Whole(bytes) == [k |-> "Whole", bytes |-> bytes]
Body(framing, bytes) == [k |-> "Body", framing |-> framing, bytes |-> bytes]
Spine(framing, r) == [k |-> "Spine", framing |-> framing, first |-> layers[rows[r].slot.layer].first]

Verbatim(r) == Between(Backing(r), rows[r].at, rows[r].end)
Designated(s) == Between(Source, BodyAt(rows[s]), rows[s].end)

\* An edited interior is walked; an untouched one rides whole.
\* Slip: a copy always rides whole.
CopiesRideWhole(r, framing, whole) ==
  IF HeldBelow("Dirt", r) /\ rows[r].edit.k # "SourceRecord" THEN Spine(framing, r) ELSE whole
WalkedOr(r, framing, whole) == IF HeldBelow("Dirt", r) THEN Spine(framing, r) ELSE whole

Settle(r) ==
  LET row == rows[r]
      v == row.edit.v
  IN  CASE row.edit.k \in Shrouds \cup {"Moved"} -> Skip
        [] row.edit.k \in {"Intact", "SourceRecord"} -> WalkedOr(r, OwnFraming(r), Whole(Verbatim(r)))
        [] row.edit.k = "SourcePayload" ->
             WalkedOr(r, OwnFraming(r), Body(OwnFraming(r), Designated(v)))
        [] row.edit.k = "SourceInserted" ->
             WalkedOr(r, NewFraming(row), Body(NewFraming(row), Designated(v)))
        [] row.edit.k = "Imported" -> WalkedOr(r, ImportFraming(store[v]), Whole(store[v]))
        [] row.edit.k = "Replaced" ->
             IF row.kind = "Len" THEN Body(OwnFraming(r), store[v])
             ELSE Whole(OwnFraming(r).tag \o store[v])
        [] row.edit.k = "Inserted" ->
             IF row.kind = "Len" THEN Body(NewFraming(row), store[v])
             ELSE Whole(<<row.head>> \o store[v])

\* The met prefix is kept while the body keeps its length.
Headed(framing, len) ==
  framing.tag \o (IF len = framing.len THEN framing.prefix ELSE Minimal(len))
HeadSize(framing, len) ==
  Len(framing.tag) + (IF len = framing.len THEN Len(framing.prefix) ELSE Len(Minimal(len)))

IsClean(row) == row.edit.k = "Intact" /\ ~row.mark["Dirt"]

\* Clean siblings tile their layer's zone, and go as one run.
RECURSIVE LastOfRun(_)
LastOfRun(r) ==
  IF rows[r].next # None /\ IsClean(rows[rows[r].next]) THEN LastOfRun(rows[r].next) ELSE r

----------------------------------------------------------------------------
(* The passes.                                                             *)

RECURSIVE SizeFrom(_)
SizeFrom(r) ==
  IF r = None THEN [n |-> 0, bodies |-> << >>, over |-> FALSE]
  ELSE LET run == IsClean(rows[r])
           last == IF run THEN LastOfRun(r) ELSE r
           rest == SizeFrom(rows[last].next)
           arm == IF run THEN [k |-> "Run"] ELSE Settle(r)
           Plus(n) == [rest EXCEPT !.n = @ + n]
       IN  CASE arm.k = "Run" -> Plus(rows[last].end - rows[r].at)
             [] arm.k = "Skip" -> rest
             [] arm.k = "Whole" -> Plus(Len(arm.bytes))
             [] arm.k = "Body" -> Plus(HeadSize(arm.framing, Len(arm.bytes)) + Len(arm.bytes))
             [] arm.k = "Spine" ->
                  LET inner == SizeFrom(arm.first)
                  IN  [n |-> HeadSize(arm.framing, inner.n) + inner.n + rest.n,
                       bodies |-> <<inner.n>> \o inner.bodies \o rest.bodies,
                       over |-> inner.over \/ inner.n > Cap \/ rest.over]

\* bodies is what the sizing pass recorded and this walk has not taken yet.
RECURSIVE EmitFrom(_, _)
EmitFrom(r, bodies) ==
  IF r = None THEN [out |-> << >>, left |-> bodies]
  ELSE LET run == IsClean(rows[r])
           last == IF run THEN LastOfRun(r) ELSE r
           arm == IF run THEN [k |-> "Run"] ELSE Settle(r)
           inner == EmitFrom(arm.first, Tail(bodies))
           rest == EmitFrom(rows[last].next, IF arm.k = "Spine" THEN inner.left ELSE bodies)
           mine == CASE arm.k = "Run" -> Between(Backing(last), rows[r].at, rows[last].end)
                     [] arm.k = "Skip" -> << >>
                     [] arm.k = "Whole" -> arm.bytes
                     [] arm.k = "Body" -> Headed(arm.framing, Len(arm.bytes)) \o arm.bytes
                     [] arm.k = "Spine" -> Headed(arm.framing, bodies[1]) \o inner.out
       IN  [out |-> mine \o rest.out, left |-> rest.left]

\* A clean editor answers with its source; a fault leaves it as it was.
Save ==
  LET size == SizeFrom(layers[Root].first)
      emit == EmitFrom(layers[Root].first, size.bodies)
  IN  IF layers[Root].count["Dirt"] = 0 THEN [ok |-> TRUE, len |-> Len(Source), bytes |-> Source]
      ELSE IF size.over \/ size.n > Cap THEN [ok |-> FALSE]
      ELSE [ok |-> TRUE, len |-> size.n, bytes |-> emit.out]

----------------------------------------------------------------------------
(* The reference: the document its visible tree spells, without marks, runs *)
(* or recorded sizes.                                                      *)

Framing(r) ==
  CASE rows[r].edit.k = "Imported" -> ImportFraming(store[rows[r].edit.v])
    [] rows[r].at < 0 /\ rows[r].edit.k # "Imported" -> NewFraming(rows[r])
    [] OTHER -> OwnFraming(r)

RECURSIVE Shown(_)
Shown(r) ==
  IF r = None THEN << >>
  ELSE LET row == rows[r]
           w == Window(r)
           body == IF IsOpened(row) THEN Shown(layers[row.slot.layer].first)
                   ELSE Between(w.bytes, w.at, w.end)
           shown == IF StoreSpeaks(row.edit) THEN store[row.edit.v] ELSE body
           mine ==
             CASE row.edit.k \in Shrouds \cup {"Moved"} -> << >>
               [] row.edit.k \notin Shrouds \cup {"Moved"} /\ row.kind = "Len" ->
                    Headed(Framing(r), Len(shown)) \o shown
               [] OTHER -> IF StoreSpeaks(row.edit) THEN Framing(r).tag \o store[row.edit.v]
                           ELSE IF row.edit.k = "Imported" THEN store[row.edit.v]
                           ELSE Verbatim(r)
       IN  mine \o Shown(row.next)
ShownDocument == Shown(layers[Root].first)

----------------------------------------------------------------------------

TInit == Init /\ doc = Save /\ past = << >>

\* As a step begins, the document is read off the editor; the log says whether
\* the step before it left a document behind or took one back.
TNext ==
  /\ Next
  /\ doc' = Save
  /\ past' = CASE Len(log) > Len(past) -> Append(past, doc)
               [] Len(log) < Len(past) -> SubSeq(past, 1, Len(past) - 1)
               [] OTHER -> past

TSpec == TInit /\ [][TNext]_<<vars, doc, past>>

----------------------------------------------------------------------------
(* Properties.                                                             *)

\* A save is the visible document to the byte: a designated payload or an
\* imported record rides as it was until something inside it is edited, and
\* from then on its rows speak; the length priced is the length written, and a
\* save is refused exactly past the cap.
SaveIsExact ==
  LET saved == Save
      shown == ShownDocument
  IN  /\ saved.ok => saved.bytes = shown /\ saved.len = Len(shown)
      /\ saved.ok = (Len(shown) <= Cap)

History == INSTANCE EditHistory

\* Undo is exact: a revert gives back the bytes a save gave before the command
\* it takes back, and a move, which is one command, goes back as one.
UndoIsExact == History!Spec
=============================================================================
