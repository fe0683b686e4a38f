----------------------------- MODULE ReviseSave -----------------------------
(***************************************************************************)
(* Saving a revising editor (src/src/revise/groupless.rs, the tolerant     *)
(* machine): the sizing pass, which walks the visible tree and records the *)
(* body length of every dirty container in walk order, and the emit pass,  *)
(* which walks it again and takes those lengths back one by one.           *)
(***************************************************************************)
EXTENDS ReviseReads

CONSTANTS
  Cap,             \* the top of the length class and of the coordinates
  ScanAgain(_),    \* the scan a later open would run
  HeadWord         \* the tag a command-authored record of each kind emits

\* A length prefix as the writer spells it, and as the sizing pass prices it.
Minimal(n) == IF n < 128 THEN <<n>> ELSE <<128 + (n % 128), n \div 128>>
EncodedLen(n) == IF n < 128 THEN 1 ELSE 2

Verbatim(from, to) == SubSeq(Source, from + 1, to)
TagEnd(row) == row.at + row.tag_w
PrefixEnd(row) == TagEnd(row) + row.delim_w
SrcLen(row) == row.end - PrefixEnd(row)
Value(row) == store[row.edit.v]

\* The record joins the run of clean siblings around it.
IsClean(row) == row.edit.k = "Intact" /\ ~row.mark["Dirt"]

\* settle: what the two passes do with a row that is not clean.
Arm(row) ==
  CASE row.edit.k \in {"Deleted", "InsertedDeleted"} -> "Skip"
    [] row.edit.k = "Intact" -> IF row.kind = "Len" /\ IsOpened(row) THEN "Spine" ELSE "Clean"
    [] row.edit.k = "Replaced" -> IF row.kind = "Len" THEN "ReBody" ELSE "ReValue"
    [] row.edit.k = "Inserted" -> IF row.kind = "Len" THEN "NewBody" ELSE "NewValue"

\* Clean siblings tile their layer's source; the run ends at the first row of
\* another sort.
RECURSIVE LastOfRun(_)
LastOfRun(r) ==
  IF rows[r].next # None /\ IsClean(rows[rows[r].next]) THEN LastOfRun(rows[r].next) ELSE r

\* A scanned record keeps its own prefix while its body keeps its length.
\* Slip: the source prefix is kept regardless of the length.
SourcePrefix(row, len) == Verbatim(TagEnd(row), PrefixEnd(row))
PrefixOut(row, len) ==
  IF len = SrcLen(row) THEN Verbatim(TagEnd(row), PrefixEnd(row)) ELSE Minimal(len)
\* Slip: the sizing pass always prices the minimal prefix.
MinimalPrefixSize(row, len) == EncodedLen(len)
PrefixSize(row, len) == IF len = SrcLen(row) THEN row.delim_w ELSE EncodedLen(len)

----------------------------------------------------------------------------
(* The passes.                                                             *)

RECURSIVE SizeFrom(_)
SizeFrom(r) ==
  IF r = None THEN [n |-> 0, bodies |-> << >>, over |-> FALSE]
  ELSE LET row == rows[r]
           last == IF IsClean(row) THEN LastOfRun(r) ELSE r
           rest == SizeFrom(rows[last].next)
           Plus(n) == [rest EXCEPT !.n = @ + n]
           arm == IF IsClean(row) THEN "Run" ELSE Arm(row)
       IN  CASE arm = "Run" -> Plus(rows[last].end - row.at)
             [] arm = "Skip" -> rest
             [] arm = "Clean" -> Plus(row.end - row.at)
             [] arm = "ReValue" -> Plus(row.tag_w + Len(Value(row)))
             [] arm = "NewValue" -> Plus(1 + Len(Value(row)))
             [] arm = "ReBody" ->
                  Plus(row.tag_w + PrefixSize(row, Len(Value(row))) + Len(Value(row)))
             [] arm = "NewBody" -> Plus(1 + EncodedLen(Len(Value(row))) + Len(Value(row)))
             [] arm = "Spine" ->
                  LET inner == SizeFrom(SlotFirst(r))
                  IN  [n |-> row.tag_w + PrefixSize(row, inner.n) + inner.n + rest.n,
                       bodies |-> <<inner.n>> \o inner.bodies \o rest.bodies,
                       over |-> inner.over \/ inner.n > Cap \/ rest.over]

\* bodies is what the sizing pass recorded and this walk has not taken yet.
RECURSIVE EmitFrom(_, _)
EmitFrom(r, bodies) ==
  IF r = None THEN [out |-> << >>, left |-> bodies]
  ELSE LET row == rows[r]
           last == IF IsClean(row) THEN LastOfRun(r) ELSE r
           arm == IF IsClean(row) THEN "Run" ELSE Arm(row)
           inner == EmitFrom(SlotFirst(r), Tail(bodies))
           rest == EmitFrom(rows[last].next, IF arm = "Spine" THEN inner.left ELSE bodies)
           tag == Verbatim(row.at, TagEnd(row))
           mine ==
             CASE arm = "Run" -> Verbatim(row.at, rows[last].end)
               [] arm = "Skip" -> << >>
               [] arm = "Clean" -> Verbatim(row.at, row.end)
               [] arm = "ReValue" -> tag \o Value(row)
               [] arm = "NewValue" -> <<HeadWord[row.kind]>> \o Value(row)
               [] arm = "ReBody" -> tag \o PrefixOut(row, Len(Value(row))) \o Value(row)
               [] arm = "NewBody" ->
                    <<HeadWord[row.kind]>> \o Minimal(Len(Value(row))) \o Value(row)
               [] arm = "Spine" -> tag \o PrefixOut(row, bodies[1]) \o inner.out
       IN  [out |-> mine \o rest.out, left |-> rest.left]

\* A clean editor answers with its source; a fault leaves it as it was.
Save ==
  LET size == SizeFrom(layers[Root].first)
      emit == EmitFrom(layers[Root].first, size.bodies)
  IN  CASE layers[Root].count["Dirt"] = 0 -> [ok |-> TRUE, len |-> Len(Source), bytes |-> Source]
        [] layers[Root].count["Dirt"] > 0 /\ size.over -> [ok |-> FALSE, fault |-> "BodyOverCap"]
        [] layers[Root].count["Dirt"] > 0 /\ ~size.over /\ size.n > Cap ->
             [ok |-> FALSE, fault |-> "DocOverCap"]
        [] OTHER -> [ok |-> TRUE, len |-> size.n, bytes |-> emit.out]

----------------------------------------------------------------------------
(* The reference: a document written from its visible tree alone, without  *)
(* marks, runs or a recorded size.                                         *)

IsShown(row) == row.edit.k \notin {"Deleted", "InsertedDeleted"}

RECURSIVE Shown(_)
Shown(chain) ==
  IF chain = << >> THEN << >>
  ELSE LET row == rows[chain[1]]
           speaks == Effective(row.edit) # None
           tag == IF row.at >= 0 THEN Verbatim(row.at, TagEnd(row)) ELSE <<HeadWord[row.kind]>>
           body == IF speaks THEN Value(row)
                   ELSE IF IsOpened(row) THEN Shown(ChainFrom(SlotFirst(chain[1])))
                   ELSE row.body
           prefix == IF row.at >= 0 /\ Len(body) = SrcLen(row)
                     THEN Verbatim(TagEnd(row), PrefixEnd(row)) ELSE Minimal(Len(body))
           mine == CASE ~IsShown(row) -> << >>
                     [] IsShown(row) /\ row.kind = "Len" -> tag \o prefix \o body
                     [] OTHER -> IF speaks THEN tag \o Value(row)
                                 ELSE Verbatim(row.at, row.end)
       IN  mine \o Shown(Tail(chain))

RootChain == ChainFrom(layers[Root].first)
ShownDocument == Shown(RootChain)

----------------------------------------------------------------------------
(* Properties.                                                             *)

\* A save is the visible document to the byte, the length it was priced at is
\* the length it has, and it is refused exactly when the document is past the
\* cap.
SaveIsExact ==
  Quiet =>
    LET saved == Save
        shown == ShownDocument
    IN  /\ saved.ok = (Len(shown) <= Cap)
        /\ saved.ok => saved.bytes = shown /\ saved.len = Len(shown)

\* A save opens again (groupless.rs:8661): it scans, and its records are the
\* shown root records in order, each with the payload it was given.
SaveReopens ==
  Quiet =>
    LET saved == Save
        recs == ScanAgain(saved.bytes)
        visible == SelectSeq(RootChain, LAMBDA r : IsShown(rows[r]))
    IN  saved.ok =>
          /\ recs # Broken /\ Len(recs) = Len(visible)
          /\ \A i \in DOMAIN recs :
               LET row == rows[visible[i]]
               IN  /\ recs[i].kind = row.kind
                   /\ row.kind = "Len" /\ Effective(row.edit) # None
                        => recs[i].body = Value(row)

\* A save is the document on show: byte for byte what the tree spells, refused
\* exactly past the cap, and readable as the same records (save_into).
SavesTheDocument == SaveIsExact /\ SaveReopens
=============================================================================
