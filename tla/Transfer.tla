------------------------------ MODULE Transfer ------------------------------
(***************************************************************************)
(* The revising editor with source transfer (src/src/revise/groupless.rs,  *)
(* the transfer profile of the tolerant machine): records and payloads are *)
(* copied and moved by designation, whole records imported, and what they  *)
(* bring is edited like anything scanned.                                  *)
(*                                                                         *)
(* A command is one step: its climbs are the operators RaiseMark and       *)
(* LowerMark (Revise takes them round by round).  Descending takes a step  *)
(* for each row it mints and each table it grows, since any of these may   *)
(* be refused and what came before it must then go.                        *)
(***************************************************************************)
EXTENDS Integers, Sequences, FiniteSets

CONSTANTS
  Source,            \* the document the editor was opened on
  NextRecord(_, _),    \* the record bytes hold after some offset, in a sequence, or << >>
  Words, Payloads,   \* scalar encodings and payloads a command may author
  Imports,           \* records of other documents
  NewHead,           \* the tag a fresh record of each kind is given
  Anchors,           \* the anchors commands use: HeadOf, TailOf, After
  Withheld,          \* flips the caller never asks for, by name
  MaxRows, MaxLog, MaxStore   \* bounds: rows, log entries, stored values

Kinds == {"Scalar", "Len"}

VARIABLES
  rows,      \* the arena
  layers,    \* layer descriptors; the first is the root's
  runs,      \* source runs: the rows that answer for the document's offsets
  store,     \* authored values and imported records, in the order they were pushed
  log,       \* the undo log
  verdict,   \* "fine", or why the machine's behaviour is undefined
  scan       \* the descent in progress, if any

vars == <<rows, layers, runs, store, log, verdict, scan>>

----------------------------------------------------------------------------
(* The edit algebra.                                                       *)

None == 0
Edit(k, v) == [k |-> k, v |-> v]
Intact == Edit("Intact", None)

\* Live states and the shrouds they lie under.
ShroudOf ==
  [Intact |-> "Deleted", Replaced |-> "Deleted", Inserted |-> "InsertedDeleted",
   SourceRecord |-> "SourceRecordDeleted", SourcePayload |-> "SourcePayloadDeleted",
   SourceInserted |-> "SourceInsertedDeleted", Imported |-> "ImportedDeleted"]
Shrouds == {ShroudOf[k] : k \in DOMAIN ShroudOf}
Shrouded(edit) == Edit(ShroudOf[edit.k], edit.v)
Lifted(edit) ==
  IF edit.k = "Deleted" THEN IF edit.v = None THEN Intact ELSE Edit("Replaced", edit.v)
  ELSE Edit(CHOOSE k \in DOMAIN ShroudOf : ShroudOf[k] = edit.k, edit.v)

Ghosts == {"InsertedDeleted", "SourceRecordDeleted", "SourceInsertedDeleted", "ImportedDeleted"}
OwnDirty(edit) == edit.k # "Intact" /\ edit.k \notin Ghosts

StoreSpeaks(edit) ==
  edit.v # None /\ edit.k \in {"Replaced", "Deleted", "Inserted", "InsertedDeleted"}
IsImport(edit) == edit.k \in {"Imported", "ImportedDeleted"}
Designates(edit) ==
  edit.k \in {"SourcePayload", "SourcePayloadDeleted", "SourceInserted", "SourceInsertedDeleted"}

\* Which bytes speak for the payload: an interior survives exactly the
\* transitions that leave them be.
Speaker(edit) ==
  CASE StoreSpeaks(edit) -> Edit("Store", edit.v)
    [] Designates(edit) -> Edit("SourceRow", edit.v)
    [] OTHER -> Edit("Scanned", None)

----------------------------------------------------------------------------
(* Rows and layers.                                                        *)

Marks == {"Hist", "Dirt"}
Unmarked == [m \in Marks |-> FALSE]
Unopened == [k |-> "Unopened", layer |-> None]
FaultSlot == [k |-> "Fault", layer |-> None]
Opened(l) == [k |-> "Opened", layer |-> l]
IsOpened(row) == row.slot.k = "Opened"

Row(kind, head, at, end, delim_w, parent, next, edit, authored, alias) ==
  [kind |-> kind, head |-> head, at |-> at, end |-> end, tag_w |-> IF at < 0 THEN 0 ELSE 1,
   delim_w |-> delim_w, parent |-> parent, next |-> next, slot |-> Unopened, edit |-> edit,
   authored |-> authored, alias |-> alias, dead |-> FALSE, own_hist |-> FALSE, mark |-> Unmarked]

Scanned(rec, bytes, parent, authored) ==
  Row(rec.kind, bytes[rec.at + 1], rec.at, rec.end, rec.delim_w, parent, None, Intact,
      authored, FALSE)
\* A whole-record copy: the source's own geometry, born as its ghost.
ClonedAlias(row, parent, next) ==
  Row(row.kind, row.head, row.at, row.end, row.delim_w, parent, next,
      Edit("SourceRecordDeleted", None), FALSE, TRUE)
\* A record with no place of its own: at is -1 where the code keeps None.
Fresh(kind, head, parent, next, edit) ==
  Row(kind, head, -1, 0, 0, parent, next, edit, FALSE, FALSE)

Layer(first, last, run) ==
  [first |-> first, last |-> last, count |-> [m \in Marks |-> 0], run |-> run]

Root == 1
Live(r) == ~rows[r].dead
Members(p) == {r \in DOMAIN rows : Live(r) /\ rows[r].parent = p}
LayerUnder(rs, p) ==
  IF p = None THEN Root ELSE IF IsOpened(rs[p]) THEN rs[p].slot.layer ELSE None

\* Every record of bytes from pos on: the admission scan.
RECURSIVE RecordsFrom(_, _)
RecordsFrom(bytes, pos) ==
  IF pos = Len(bytes) THEN << >>
  ELSE LET rec == NextRecord(bytes, pos) IN rec \o RecordsFrom(bytes, rec[1].end)

Chained(rs) == [i \in DOMAIN rs |-> [rs[i] EXCEPT !.next = IF i = Len(rs) THEN None ELSE i + 1]]
Admitted ==
  LET recs == RecordsFrom(Source, 0)
  IN  Chained([i \in DOMAIN recs |-> Scanned(recs[i], Source, None, FALSE)])

NoScan == [row |-> None, pos |-> 0, rows_mark |-> 0, runs_mark |-> 0, stage |-> "none"]

Init ==
  /\ rows = Admitted
  /\ runs = <<[first |-> 1, end |-> Len(Admitted) + 1]>>
  /\ layers = <<Layer(1, Len(Admitted), 1)>>
  /\ store = << >> /\ log = << >> /\ verdict = "fine" /\ scan = NoScan

----------------------------------------------------------------------------
(* Marks, the log and the state write, over the parts of the editor a       *)
(* command changes.                                                        *)

Now == [rows |-> rows, layers |-> layers, log |-> log, verdict |-> verdict]

Own(m, row) == IF m = "Hist" THEN row.own_hist ELSE OwnDirty(row.edit)
HeldIn(m, row, ls) == IsOpened(row) /\ ls[row.slot.layer].count[m] > 0

Flag(m, r, on, by, st) ==
  [st EXCEPT !.rows[r].mark[m] = on,
             !.layers[LayerUnder(st.rows, st.rows[r].parent)].count[m] = @ + by]

\* A climb past a container that is not open has no layer to count in: the
\* code takes the answer unchecked.
Adrift(r, st) == LayerUnder(st.rows, st.rows[r].parent) = None
Lost(st) == [st EXCEPT !.verdict = "no layer"]

RECURSIVE RaiseMark(_, _, _)
RaiseMark(m, r, st) ==
  LET parent == st.rows[r].parent
      up == Flag(m, r, TRUE, 1, st)
  IN  CASE st.rows[r].mark[m] -> st
        [] ~st.rows[r].mark[m] /\ Adrift(r, st) -> Lost(st)
        [] OTHER -> IF parent = None THEN up ELSE RaiseMark(m, parent, up)

RECURSIVE LowerMark(_, _, _)
LowerMark(m, r, st) ==
  LET row == st.rows[r]
      stays == ~row.mark[m] \/ Own(m, row) \/ HeldIn(m, row, st.layers)
      up == Flag(m, r, FALSE, -1, st)
  IN  CASE stays -> st
        [] ~stays /\ Adrift(r, st) -> Lost(st)
        [] OTHER -> IF row.parent = None THEN up ELSE LowerMark(m, row.parent, up)

LogPush(r, from, st) ==
  LET fresh == ~st.rows[r].own_hist
      logged == [st EXCEPT !.log = Append(@, [row |-> r, from |-> from, fresh |-> fresh]),
                           !.rows[r].own_hist = TRUE]
  IN  IF fresh THEN RaiseMark("Hist", r, logged) ELSE logged

LogPop(st) ==
  LET entry == st.log[Len(st.log)]
      popped == [st EXCEPT !.log = SubSeq(@, 1, Len(@) - 1),
                           !.rows[entry.row].own_hist = @ /\ ~entry.fresh]
  IN  IF entry.fresh THEN LowerMark("Hist", entry.row, popped) ELSE popped

\* The rows orphan_interior walks.
RECURSIVE Interior(_, _)
Interior(r, rs) ==
  LET kids == {x \in DOMAIN rs : ~rs[x].dead /\ rs[x].parent = r}
  IN  kids \cup UNION {Interior(x, rs) : x \in kids}

Settled(r, st) ==
  IF OwnDirty(st.rows[r].edit) THEN RaiseMark("Dirt", r, st) ELSE LowerMark("Dirt", r, st)

\* orphan_interior, row by row.
RECURSIVE Without(_, _)
Without(out, rs) ==
  IF out = {} THEN rs
  ELSE LET x == CHOOSE x \in out : TRUE
       IN  Without(out \ {x}, [rs EXCEPT ![x].dead = TRUE])

WriteState(r, to, st) ==
  LET flips == Speaker(st.rows[r].edit) # Speaker(to)
      out == IF flips /\ st.rows[r].slot # Unopened THEN Interior(r, st.rows) ELSE {}
      wrote == [st EXCEPT !.rows = Without(out, @)]
  IN  Settled(r, [wrote EXCEPT !.rows[r].edit = to,
                               !.rows[r].slot = IF flips THEN Unopened ELSE @])

ApplyEdit(r, to) == WriteState(r, to, LogPush(r, rows[r].edit, Now))

Become(st) ==
  /\ rows' = st.rows /\ layers' = st.layers /\ log' = st.log /\ verdict' = st.verdict
  /\ UNCHANGED <<runs, scan>>

----------------------------------------------------------------------------
(* The gates.                                                              *)

\* The nearest ancestor whose state names a stored value: an import's rows are
\* first-class, those under a replaced or authored payload are browse-only.
RECURSIVE Bearer(_)
Bearer(r) ==
  LET p == rows[r].parent
  IN  IF p = None \/ StoreSpeaks(rows[p].edit) \/ IsImport(rows[p].edit) THEN p ELSE Bearer(p)
ImportZoneRow(r) == rows[r].alias /\ Bearer(r) # None /\ IsImport(rows[Bearer(r)].edit)

Editable(r) == Live(r) /\ (rows[r].authored => ImportZoneRow(r))

Settable == {"Intact", "Replaced", "SourcePayload", "SourceRecord", "Inserted",
             "SourceInserted", "Imported"}
ValueGate(r, kind) == Editable(r) /\ rows[r].kind = kind /\ rows[r].edit.k \in Settable
SetTo(edit, v) ==
  Edit(IF edit.k \in {"Inserted", "SourceInserted", "Imported"} THEN "Inserted" ELSE "Replaced", v)

HeldBelow(m, r) == HeldIn(m, rows[r], layers)
\* Slip: no gate.
NoInteriorGate(r) == TRUE
InteriorGate(r) == ~HeldBelow("Hist", r)

ContainerGate(c) ==
  c # None => /\ Editable(c) /\ rows[c].kind = "Len" /\ IsOpened(rows[c])
              /\ ~StoreSpeaks(rows[c].edit) /\ rows[c].edit.k # "ImportedDeleted"

\* resolve_anchor: where an anchor of each sort may splice.
Containers == {None} \cup {c \in DOMAIN rows : ContainerGate(c)}
Gaps ==
  [HeadOf |-> {[parent |-> c, prev |-> None] : c \in Containers},
   TailOf |-> {[parent |-> c, prev |-> layers[LayerUnder(rows, c)].last] : c \in Containers},
   After |-> {[parent |-> rows[r].parent, prev |-> r] : r \in {x \in DOMAIN rows : Editable(x)}}]
Plans == UNION {Gaps[a] : a \in Anchors}

\* An original occurrence, whatever edit is pending on it.
TransferSource(s) ==
  /\ Live(s) /\ ~rows[s].authored /\ ~rows[s].alias
  /\ rows[s].edit.k \in {"Intact", "Replaced", "Deleted", "SourcePayload", "SourcePayloadDeleted"}
\* A move relocates the source reading, so nothing may have been edited in it.
MoveSource(s) == TransferSource(s) /\ rows[s].edit = Intact /\ ~rows[s].mark["Dirt"]

RECURSIVE Inside(_, _)
Inside(p, s) == p # None /\ (p = s \/ Inside(rows[p].parent, s))

\* The caller's restraint: what a withheld flip would find in the interior it
\* orphans, and no gate looks at.
OnlyMoved(r) == HeldBelow("Dirt", r) /\ ~HeldBelow("Hist", r)
Untouched(r) == ~HeldBelow("Dirt", r) /\ ~HeldBelow("Hist", r)

----------------------------------------------------------------------------
(* Value commands and shrouds.                                             *)

Quiet == scan = NoScan
Room == Quiet /\ verdict = "fine" /\ Len(log) < MaxLog
Growing == Room /\ Len(rows) < MaxRows
Authoring == Len(store) < MaxStore
Push(v) == store' = Append(store, v)
Pushed == Len(store) + 1

SetScalar(r) ==
  /\ Room /\ Authoring /\ ValueGate(r, "Scalar")
  /\ \E w \in Words : Push(w)
  /\ Become(ApplyEdit(r, SetTo(rows[r].edit, Pushed)))

SetPayload(r) ==
  /\ Room /\ Authoring /\ ValueGate(r, "Len") /\ InteriorGate(r)
  /\ "over moves" \in Withheld => ~OnlyMoved(r)
  /\ \E p \in Payloads : Push(p)
  /\ Become(ApplyEdit(r, SetTo(rows[r].edit, Pushed)))

Delete(r) ==
  /\ Room /\ Editable(r) /\ rows[r].edit.k \in DOMAIN ShroudOf
  /\ Become(ApplyEdit(r, Shrouded(rows[r].edit))) /\ UNCHANGED store

Undelete(r) ==
  /\ Room /\ Editable(r) /\ rows[r].edit.k \in Shrouds
  /\ Become(ApplyEdit(r, Lifted(rows[r].edit))) /\ UNCHANGED store

ClearEdit(r) ==
  /\ Room /\ Editable(r) /\ ~rows[r].alias
  /\ rows[r].edit.k \in {"Replaced", "SourcePayload"}
  /\ "clears over edits" \in Withheld => Untouched(r)
  /\ Become(ApplyEdit(r, Intact)) /\ UNCHANGED store

----------------------------------------------------------------------------
(* Insertions and transfers.                                               *)

Following(plan) ==
  IF plan.prev = None THEN layers[LayerUnder(rows, plan.parent)].first ELSE rows[plan.prev].next
NextId == Len(rows) + 1

\* splice_ghost: the new row joins its layer, unlogged.
SpliceGhost(plan, row, st) ==
  LET l == LayerUnder(st.rows, plan.parent)
      grown == [st EXCEPT !.rows = Append(@, row),
                          !.layers[l].first = IF plan.prev = None THEN NextId ELSE @,
                          !.layers[l].last = IF row.next = None THEN NextId ELSE @]
  IN  IF plan.prev = None THEN grown ELSE [grown EXCEPT !.rows[plan.prev].next = NextId]

\* apply_insert and apply_transfer: one logged transition awakens the ghost.
Awaken(plan, row) ==
  WriteState(NextId, Lifted(row.edit), LogPush(NextId, row.edit, SpliceGhost(plan, row, Now)))

Insert(kind, plan) ==
  /\ Growing /\ Authoring
  /\ \E v \in IF kind = "Len" THEN Payloads ELSE Words : Push(v)
  /\ Become(Awaken(plan, Fresh(kind, NewHead[kind], plan.parent, Following(plan),
                               Edit("InsertedDeleted", Pushed))))

CopyRecord(s, plan) ==
  /\ Growing /\ TransferSource(s)
  /\ Become(Awaken(plan, ClonedAlias(rows[s], plan.parent, Following(plan)))) /\ UNCHANGED store

DesignatedGhost(s, plan) ==
  Fresh("Len", NewHead["Len"], plan.parent, Following(plan), Edit("SourceInsertedDeleted", s))

CopyPayload(s, plan) ==
  /\ Growing /\ TransferSource(s) /\ rows[s].kind = "Len"
  /\ Become(Awaken(plan, DesignatedGhost(s, plan))) /\ UNCHANGED store

\* The target's gate admits authored framing too, and its answer is dropped.
CopyPayloadOver(s, r) ==
  /\ Room /\ TransferSource(s) /\ rows[s].kind = "Len"
  /\ ValueGate(r, "Len") /\ InteriorGate(r)
  /\ "over moves" \in Withheld => ~OnlyMoved(r)
  /\ "over authored framing" \in Withheld => rows[r].at >= 0
  /\ Become(ApplyEdit(r, Edit("SourcePayload", s))) /\ UNCHANGED store

CopyRecordFrom(plan) ==
  /\ Growing /\ Authoring
  /\ \E rec \in Imports :
       /\ Push(rec)
       /\ Become(Awaken(plan, Fresh(NextRecord(rec, 0)[1].kind, rec[1], plan.parent, Following(plan),
                                    Edit("ImportedDeleted", Pushed))))

\* apply_move: one entry, on the source, suppresses it and enlivens its ghost.
\* Slip: the entry keeps the state it found, as an edit's does.
MoveLogsAsEdit(s, d, st) ==
  LET logged == LogPush(s, st.rows[s].edit, st)
      gone == RaiseMark("Dirt", s, [logged EXCEPT !.rows[s].edit = Edit("Moved", d)])
  IN  WriteState(d, Lifted(gone.rows[d].edit), gone)
ApplyMove(s, d, st) ==
  LET logged == LogPush(s, Edit("Moved", d), st)
      gone == RaiseMark("Dirt", s, [logged EXCEPT !.rows[s].edit = Edit("Moved", d)])
  IN  WriteState(d, Lifted(gone.rows[d].edit), gone)

Move(s, plan, ghost) ==
  /\ Growing /\ MoveSource(s) /\ ~Inside(plan.parent, s)
  /\ Become(ApplyMove(s, NextId, SpliceGhost(plan, ghost, Now))) /\ UNCHANGED store
MoveRecord(s, plan) == Move(s, plan, ClonedAlias(rows[s], plan.parent, Following(plan)))
MovePayload(s, plan) == rows[s].kind = "Len" /\ Move(s, plan, DesignatedGhost(s, plan))

----------------------------------------------------------------------------
(* Undo.                                                                   *)

\* revert_move: the source comes back and the alias is shrouded again.
\* Slip: the alias is left alive.
RevertSource(s, d, st) == Settled(s, [st EXCEPT !.rows[s].edit = Intact])
RevertMove(s, d, st) ==
  LET back == Settled(s, [st EXCEPT !.rows[s].edit = Intact])
      alias == back.rows[d].edit
  IN  IF alias.k \in {"SourceRecord", "SourceInserted"}
      THEN WriteState(d, Shrouded(alias), back)
      ELSE [back EXCEPT !.verdict = "not a live alias"]

Revert ==
  /\ Quiet /\ verdict = "fine" /\ log # << >>
  /\ LET entry == log[Len(log)]
         popped == LogPop(Now)
     IN  Become(IF popped.verdict # "fine" THEN popped
                ELSE IF entry.from.k = "Moved" THEN RevertMove(entry.row, entry.from.v, popped)
                ELSE WriteState(entry.row, entry.from, popped))
  /\ UNCHANGED store

----------------------------------------------------------------------------
(* Descending.                                                             *)

BodyAt(row) == row.at + row.tag_w + row.delim_w
Doc(at, end, authored, alias) ==
  [bytes |-> Source, at |-> at, end |-> end, authored |-> authored, alias |-> alias]

\* An import's payload, inside the record it is held as.
ImportBody(rec) == BodyAt(NextRecord(rec, 0)[1])

\* backing: the document, or the stored value the row lies under.
Backing(r) == IF rows[r].authored THEN store[rows[Bearer(r)].edit.v] ELSE Source

\* What a descent scans, and whether its rows are browse-only or first-class.
Window(r) ==
  LET row == rows[r]
      edit == row.edit
      own == [Doc(BodyAt(row), row.end, row.authored, row.alias) EXCEPT !.bytes = Backing(r)]
  IN  CASE StoreSpeaks(edit) ->
             [bytes |-> store[edit.v], at |-> 0, end |-> Len(store[edit.v]),
              authored |-> TRUE, alias |-> row.alias]
        [] Designates(edit) -> Doc(BodyAt(rows[edit.v]), rows[edit.v].end, FALSE, TRUE)
        [] IsImport(edit) ->
             [bytes |-> store[edit.v], at |-> ImportBody(store[edit.v]),
              end |-> Len(store[edit.v]), authored |-> TRUE, alias |-> TRUE]
        [] edit.k \in {"SourceRecord", "SourceRecordDeleted"} ->
             Doc(BodyAt(row), row.end, FALSE, TRUE)
        [] OTHER -> own

Descend(r) ==
  /\ Quiet /\ verdict = "fine" /\ Live(r) /\ rows[r].kind = "Len" /\ rows[r].slot = Unopened
  /\ scan' = [row |-> r, pos |-> Window(r).at, rows_mark |-> Len(rows),
              runs_mark |-> Len(runs), stage |-> "rows"]
  /\ UNCHANGED <<rows, layers, runs, store, log, verdict>>

Cut(seq, n) == SubSeq(seq, 1, n)
Found == LET w == Window(scan.row) IN NextRecord(Cut(w.bytes, w.end), scan.pos)
Scanning == scan.stage = "rows" /\ scan.pos < Window(scan.row).end
MintedRows == (scan.rows_mark + 1)..Len(rows)

\* One record: its row is minted, and the one before it linked to it.
MintRow ==
  /\ Scanning /\ Found # << >> /\ Len(rows) < MaxRows
  /\ LET w == Window(scan.row)
         linked == IF MintedRows = {} THEN rows ELSE [rows EXCEPT ![Len(rows)].next = NextId]
     IN  rows' = Append(linked, Scanned(Found[1], w.bytes, scan.row, w.authored))
  /\ scan' = [scan EXCEPT !.pos = Found[1].end]
  /\ UNCHANGED <<layers, runs, store, log, verdict>>

\* The row cannot be stored: the provisional rows go.
RowRefused ==
  /\ Scanning /\ Found # << >>
  /\ rows' = Cut(rows, scan.rows_mark) /\ scan' = NoScan
  /\ UNCHANGED <<layers, runs, store, log, verdict>>

\* A fault in the payload is a resident verdict, if it can be stored.
ScanFaults ==
  /\ Scanning /\ Found = << >>
  /\ LET cut == Cut(rows, scan.rows_mark)
     IN  rows' = cut \/ rows' = [cut EXCEPT ![scan.row].slot = FaultSlot]
  /\ scan' = NoScan
  /\ UNCHANGED <<layers, runs, store, log, verdict>>

\* Rows that are neither authored nor first-class answer for the document.
SealRows ==
  /\ scan.stage = "rows" /\ scan.pos = Window(scan.row).end
  /\ LET w == Window(scan.row)
     IN  /\ rows' = [x \in DOMAIN rows |->
                       IF x \in MintedRows THEN [rows[x] EXCEPT !.alias = w.alias] ELSE rows[x]]
         /\ scan' = [scan EXCEPT !.stage =
                       IF ~w.authored /\ ~w.alias /\ MintedRows # {} THEN "run" ELSE "layer"]
  /\ UNCHANGED <<layers, runs, store, log, verdict>>

SealRun ==
  /\ scan.stage = "run"
  /\ runs' = Append(runs, [first |-> scan.rows_mark + 1, end |-> Len(rows) + 1])
  /\ scan' = [scan EXCEPT !.stage = "layer"]
  /\ UNCHANGED <<rows, layers, store, log, verdict>>

\* The slot is written last.
SealLayer ==
  /\ scan.stage = "layer"
  /\ LET some == MintedRows # {}
     IN  layers' = Append(layers, Layer(IF some THEN scan.rows_mark + 1 ELSE None,
                                        IF some THEN Len(rows) ELSE None,
                                        IF Len(runs) > scan.runs_mark THEN Len(runs) ELSE None))
  /\ rows' = [rows EXCEPT ![scan.row].slot = Opened(Len(layers) + 1)]
  /\ scan' = NoScan
  /\ UNCHANGED <<runs, store, log, verdict>>

\* Neither the run nor the layer: both tables go back.
\* Slip: the run stays.
KeepRun == runs
RunsBack == Cut(runs, scan.runs_mark)
SealRefused ==
  /\ scan.stage \in {"run", "layer"}
  /\ rows' = Cut(rows, scan.rows_mark) /\ runs' = RunsBack /\ scan' = NoScan
  /\ UNCHANGED <<layers, store, log, verdict>>

----------------------------------------------------------------------------

Transfers ==
  \E plan \in Plans :
    \/ \E kind \in Kinds : Insert(kind, plan)
    \/ CopyRecordFrom(plan)
    \/ \E s \in DOMAIN rows :
         CopyRecord(s, plan) \/ CopyPayload(s, plan) \/ MoveRecord(s, plan) \/ MovePayload(s, plan)

Command ==
  \/ \E r \in DOMAIN rows :
       \/ SetScalar(r) \/ SetPayload(r) \/ Delete(r) \/ Undelete(r) \/ ClearEdit(r)
       \/ Descend(r)
       \/ \E s \in DOMAIN rows : CopyPayloadOver(s, r)
  \/ Transfers
  \/ Revert

Descent ==
  MintRow \/ RowRefused \/ ScanFaults \/ SealRows \/ SealRun \/ SealLayer \/ SealRefused

Next == Command \/ Descent

Spec == Init /\ [][Next]_vars

----------------------------------------------------------------------------
(* Properties.                                                             *)

EntriesOf(r) == {i \in DOMAIN log : log[i].row = r}

\* write_state's doc (groupless.rs:12535): "Orphaned interiors are always
\* clean".  Neither an edit nor a pending entry goes out of reach with an
\* interior.
OrphansAreClean ==
  \A r \in DOMAIN rows :
    ~Live(r) => ~OwnDirty(rows[r].edit) /\ ~rows[r].own_hist /\ EntriesOf(r) = {}

\* The revising algebra's families never mix (revise.rs:444, groupless.rs:1691):
\* a record with no place in any zone stays in a state whose readers ask for
\* none.
FamiliesNeverMix ==
  \A r \in DOMAIN rows :
    rows[r].at = -1 =>
      rows[r].edit.k \in {"Inserted", "InsertedDeleted", "SourceInserted", "SourceInsertedDeleted",
                         "Imported", "ImportedDeleted"}

\* A descent publishes whole or not at all, whichever of its four allocations
\* is refused: outside one, each live row sits in an open layer, an open
\* layer holds every record of the bytes that speak now, as browse-only or
\* first-class as those are, and each run belongs to one layer.
DescentsPublishWhole ==
  Quiet =>
    /\ \A r \in DOMAIN rows : Live(r) => LayerUnder(rows, rows[r].parent) # None
    /\ \A i \in DOMAIN runs : Cardinality({l \in DOMAIN layers : layers[l].run = i}) = 1
    /\ \A r \in {x \in DOMAIN rows : Live(x) /\ IsOpened(rows[x])} :
         LET w == Window(r)
             recs == RecordsFrom(Cut(w.bytes, w.end), w.at)
         IN  \A i \in DOMAIN recs : \E x \in Members(r) :
               rows[x].at = recs[i].at /\ rows[x].end = recs[i].end
               /\ rows[x].authored = w.authored /\ rows[x].alias = w.alias

\* A move's one entry unwinds both its rows (groupless.rs:12507): the entry
\* lies under every entry of its destination, no two moves share one, and
\* whatever is shown without having been scanned is pending in the log, by an
\* entry of its own or by the move that brought it.  No unwinding meets a row or
\* a layer that is gone.
MovesUnwindWhole ==
  LET moves == {i \in DOMAIN log : log[i].from.k = "Moved"}
  IN  /\ verdict = "fine"
      /\ {log[i].row : i \in moves} = {r \in DOMAIN rows : rows[r].edit.k = "Moved"}
      /\ \A i \in moves :
           /\ rows[log[i].row].edit = log[i].from
           /\ \A j \in EntriesOf(log[i].from.v) : i < j
           /\ \A j \in moves \ {i} : log[j].from # log[i].from
      /\ \A r \in DOMAIN rows :
           rows[r].edit.k \in {"Inserted", "SourceRecord", "SourceInserted", "Imported"} =>
             EntriesOf(r) # {} \/ \E i \in moves : log[i].from.v = r
=============================================================================
