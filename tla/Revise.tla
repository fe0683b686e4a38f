------------------------------- MODULE Revise -------------------------------
(***************************************************************************)
(* The revising editor core (src/src/revise/groupless.rs): a row arena     *)
(* threaded by parent and sibling links, layer descriptors with their      *)
(* marked-member counts, a value store, and an undo log.                   *)
(*                                                                         *)
(* A command passes its gates, logs one transition and writes one row's    *)
(* state.  Around that write run four loops - the history climb, the       *)
(* orphan walk and the dirt climb - and each round of a loop is an action  *)
(* here, so pc names the loop a command is in; "idle" is the editor        *)
(* between two calls.  The scalar kinds behave alike and are one kind.     *)
(***************************************************************************)
EXTENDS Integers, Sequences, FiniteSets

CONSTANTS
  Source,      \* the document the editor was opened on
  Bodies,      \* byte sequences a scan may be run over
  Scanned,     \* what scan_layer finds in each of them, or Broken
  Broken,      \* a wire fault or a refusal inside a payload
  Words,       \* scalar encodings a command may author
  Payloads,    \* payloads a command may author
  MaxRows, MaxLayers, MaxLog, MaxStore   \* bounds: rows and layers minted, entries
                                         \* logged, values stored

Kinds == {"Scalar", "Len"}

\* One record of a scan: its place relative to the scanned bytes, its tag and
\* length-prefix widths, and the bytes its payload window covers.
Records ==
  [kind : Kinds, at : Nat, end : Nat, tag_w : Nat, delim_w : Nat, body : Bodies]

ASSUME ReviseAssumption ==
  /\ Source \in Bodies /\ << >> \in Bodies /\ Payloads \subseteq Bodies
  /\ Broken \notin Seq(Records)
  /\ Scanned \in [Bodies -> Seq(Records) \cup {Broken}]
  /\ Scanned[Source] # Broken
  /\ MaxRows \in Nat /\ MaxLayers \in Nat /\ MaxLog \in Nat /\ MaxStore \in Nat

VARIABLES
  rows,      \* the arena
  layers,    \* layer descriptors; the first is the root's
  store,     \* authored values, in the order they were pushed
  log,       \* the undo log
  pc,        \* "idle", or the loop the running command is in
  climber,   \* the row the running climb is at
  job,       \* the row being written, its new state, the climb's direction
  orphans    \* the rows the orphan walk has reached and not marked yet

vars == <<rows, layers, store, log, pc, climber, job, orphans>>

----------------------------------------------------------------------------
(* The edit algebra.                                                       *)

None == 0
Intact == [k |-> "Intact", v |-> None]
Replaced(v) == [k |-> "Replaced", v |-> v]
Deleted(v) == [k |-> "Deleted", v |-> v]
Inserted(v) == [k |-> "Inserted", v |-> v]
InsertedDeleted(v) == [k |-> "InsertedDeleted", v |-> v]

\* The store value that speaks for the record, if any.
Effective(edit) == edit.v
OwnDirty(edit) == edit.k \notin {"Intact", "InsertedDeleted"}

SetTo(edit, v) == IF edit.k = "Inserted" THEN Inserted(v) ELSE Replaced(v)
Shrouded(edit) ==
  IF edit.k = "Inserted" THEN InsertedDeleted(edit.v) ELSE Deleted(edit.v)
\* Slip: whatever carries a value is a replacement.
LiftedAlike(edit) == IF edit.v = None THEN Intact ELSE Replaced(edit.v)
Lifted(edit) ==
  IF edit.k = "InsertedDeleted" THEN Inserted(edit.v)
  ELSE IF edit.v = None THEN Intact ELSE Replaced(edit.v)

----------------------------------------------------------------------------
(* Rows and layers.                                                        *)

Marks == {"Hist", "Dirt"}
Unmarked == [m \in Marks |-> FALSE]

Unopened == [k |-> "Unopened", layer |-> None]
FaultSlot == [k |-> "Fault", layer |-> None]
Opened(l) == [k |-> "Opened", layer |-> l]
IsOpened(row) == row.slot.k = "Opened"

ScannedRow(rec, base, parent, next, authored) ==
  [kind |-> rec.kind, at |-> base + rec.at, end |-> base + rec.end,
   tag_w |-> rec.tag_w, delim_w |-> rec.delim_w, body |-> rec.body,
   parent |-> parent, next |-> next, slot |-> Unopened, edit |-> Intact,
   authored |-> authored, dead |-> FALSE, own_hist |-> FALSE, mark |-> Unmarked]

\* at is -1 where the code keeps None: a command-authored row owns no offset.
AuthoredRow(kind, parent, next, v) ==
  [kind |-> kind, at |-> -1, end |-> 0, tag_w |-> 0, delim_w |-> 0, body |-> << >>,
   parent |-> parent, next |-> next, slot |-> Unopened, edit |-> InsertedDeleted(v),
   authored |-> FALSE, dead |-> FALSE, own_hist |-> FALSE, mark |-> Unmarked]

NoRun == [first |-> None, end |-> None]
Layer(first, last, run) ==
  [first |-> first, last |-> last, count |-> [m \in Marks |-> 0], run |-> run]

\* The rows scan_layer mints for recs, from id on, each linked to the next.
\* Slip: the last one too.
MintedUnended(recs, base, parent, id, authored) ==
  [i \in 1..Len(recs) |-> ScannedRow(recs[i], base, parent, id + i, authored)]
Minted(recs, base, parent, id, authored) ==
  [i \in 1..Len(recs) |->
     ScannedRow(recs[i], base, parent, IF i = Len(recs) THEN None ELSE id + i, authored)]

\* The layer that scan's rows make: a run of source rows where the source speaks.
LayerOf(recs, id, authored) ==
  IF recs = << >> THEN Layer(None, None, NoRun)
  ELSE Layer(id, id + Len(recs) - 1,
             IF authored THEN NoRun ELSE [first |-> id, end |-> id + Len(recs)])

Root == 1
\* Live rows sit in materialized layers: any other answer is undefined.
HoldingLayer(parent) == IF parent = None THEN Root ELSE rows[parent].slot.layer

Live(r) == ~rows[r].dead
Members(p) == {r \in DOMAIN rows : Live(r) /\ rows[r].parent = p}

\* What a mark rests on: the row's own state, or its opened layer's count.
Own(m, row) == IF m = "Hist" THEN row.own_hist ELSE OwnDirty(row.edit)
HeldBelow(m, row) == IsOpened(row) /\ layers[row.slot.layer].count[m] > 0

----------------------------------------------------------------------------

NoJob == [row |-> None, to |-> Intact, way |-> "none"]

Init ==
  /\ rows = Minted(Scanned[Source], 0, None, 1, FALSE)
  /\ layers = <<LayerOf(Scanned[Source], 1, FALSE)>>
  /\ store = << >> /\ log = << >>
  /\ pc = "idle" /\ climber = None /\ job = NoJob /\ orphans = {}

\* Bounds: a command needs room in the log, and in the store when it authors.
Room == pc = "idle" /\ Len(log) < MaxLog
Authoring == Room /\ Len(store) < MaxStore

\* What the log keeps of a row about to change.
\* Slip: its first state, not its last.
FirstState(row) == IF row.at >= 0 THEN Intact ELSE row.edit
StateBefore(row) == row.edit

\* log_push on the rows rs, then the write it announces.  The first pending
\* entry of a row raises its history mark.
LogPush(rs, r, to) ==
  LET fresh == ~rs[r].own_hist
  IN  /\ log' = Append(log, [row |-> r, from |-> StateBefore(rs[r]), fresh |-> fresh])
      /\ rows' = [rs EXCEPT ![r].own_hist = TRUE]
      /\ pc' = IF fresh THEN "Hist" ELSE "write"
      /\ climber' = r
      /\ job' = [row |-> r, to |-> to, way |-> "raise"]
      /\ UNCHANGED orphans

ApplyEdit(r, to) == LogPush(rows, r, to) /\ UNCHANGED layers

----------------------------------------------------------------------------
(* The gates.                                                              *)

\* Rows under an authored payload are browse-only.
\* Slip: every live row takes edits.
EditableIfLive(r) == Live(r)
Editable(r) == Live(r) /\ ~rows[r].authored

ValueGate(r, kind) ==
  Editable(r) /\ rows[r].kind = kind /\ rows[r].edit.k \in {"Intact", "Replaced", "Inserted"}

\* No backing flip over an interior that carries undo history.
\* Slip: the gate is left out.
NoInteriorGate(r) == TRUE
InteriorGate(r) == ~HeldBelow("Hist", rows[r])

\* Insertion takes an opened container that the source still speaks for.
ContainerGate(c) ==
  c # None => /\ Editable(c) /\ rows[c].kind = "Len"
              /\ Effective(rows[c].edit) = None
              /\ IsOpened(rows[c])

----------------------------------------------------------------------------
(* Value commands and shrouds.                                             *)

SetScalar(r) ==
  /\ Authoring /\ ValueGate(r, "Scalar")
  /\ \E w \in Words : store' = Append(store, w)
  /\ ApplyEdit(r, SetTo(rows[r].edit, Len(store) + 1))

SetPayload(r) ==
  /\ Authoring /\ ValueGate(r, "Len") /\ InteriorGate(r)
  /\ \E p \in Payloads : store' = Append(store, p)
  /\ ApplyEdit(r, SetTo(rows[r].edit, Len(store) + 1))

Delete(r) ==
  /\ Room /\ Editable(r)
  /\ rows[r].edit.k \notin {"Deleted", "InsertedDeleted"}
  /\ ApplyEdit(r, Shrouded(rows[r].edit)) /\ UNCHANGED store

Undelete(r) ==
  /\ Room /\ Editable(r)
  /\ rows[r].edit.k \in {"Deleted", "InsertedDeleted"}
  /\ ApplyEdit(r, Lifted(rows[r].edit)) /\ UNCHANGED store

ClearEdit(r) ==
  /\ Room /\ Editable(r)
  /\ rows[r].edit.k = "Replaced"
  /\ ApplyEdit(r, Intact) /\ UNCHANGED store

----------------------------------------------------------------------------
(* Insertion.                                                              *)

\* What follows the new row, and the tail of the layer it joins.
\* Slip: the tail stays where it was.
Following(l, prev) == IF prev = None THEN layers[l].first ELSE rows[prev].next
StaleTail(l, r, next) == layers[l].last
TailWith(l, r, next) == IF next = None THEN r ELSE layers[l].last

\* apply_insert: the new row r follows prev, or heads parent's layer.
Splice(kind, parent, prev) ==
  LET r == Len(rows) + 1
      l == HoldingLayer(parent)
      next == Following(l, prev)
      grown == Append(rows, AuthoredRow(kind, parent, next, Len(store) + 1))
  IN  /\ layers' = [layers EXCEPT ![l].first = IF prev = None THEN r ELSE @,
                                  ![l].last = TailWith(l, r, next)]
      /\ LogPush(IF prev = None THEN grown ELSE [grown EXCEPT ![prev].next = r],
                 r, Inserted(Len(store) + 1))

\* A value of the record's kind, and the row that carries it.
Insert(kind, parent, prev) ==
  /\ Authoring /\ Len(rows) < MaxRows
  /\ \E v \in IF kind = "Len" THEN Payloads ELSE Words : store' = Append(store, v)
  /\ Splice(kind, parent, prev)

InsertHead(kind, c) == ContainerGate(c) /\ Insert(kind, c, None)
InsertTail(kind, c) ==
  ContainerGate(c) /\ Insert(kind, c, layers[HoldingLayer(c)].last)
InsertAfter(kind, r) == Editable(r) /\ Insert(kind, rows[r].parent, r)

----------------------------------------------------------------------------
(* Undo.                                                                   *)

LastEntry == log[Len(log)]

\* Popping a row's first entry releases its history mark.
\* Slip: any entry releases it.
ReleaseAlways(entry) == TRUE
Releases(entry) == entry.fresh

\* log_pop, then write_state with the entry's past.
Revert ==
  /\ pc = "idle" /\ log # << >>
  /\ log' = SubSeq(log, 1, Len(log) - 1)
  /\ rows' = [rows EXCEPT ![LastEntry.row].own_hist = @ /\ ~Releases(LastEntry)]
  /\ pc' = IF Releases(LastEntry) THEN "Hist" ELSE "write"
  /\ climber' = LastEntry.row
  /\ job' = [row |-> LastEntry.row, to |-> LastEntry.from, way |-> "lower"]
  /\ UNCHANGED <<layers, store, orphans>>

----------------------------------------------------------------------------
(* Descending: an interior is scanned once, when it is first asked for.     *)

\* The bytes that speak for r's payload.
Backing(r) ==
  IF Effective(rows[r].edit) = None THEN rows[r].body ELSE store[Effective(rows[r].edit)]
UnderAuthored(r) == Effective(rows[r].edit) # None \/ rows[r].authored
\* Where a source interior starts; authored bytes have no source place.
InteriorBase(r) ==
  IF UnderAuthored(r) THEN 0 ELSE rows[r].at + rows[r].tag_w + rows[r].delim_w

Descendable(r) ==
  pc = "idle" /\ Live(r) /\ rows[r].kind = "Len" /\ rows[r].slot = Unopened

\* seal_scan publishes rows, run and layer together, and the slot last.
DescendOpens(r) ==
  LET recs == Scanned[Backing(r)]
      id == Len(rows) + 1
  IN  /\ Descendable(r) /\ recs # Broken
      /\ Len(rows) + Len(recs) <= MaxRows /\ Len(layers) < MaxLayers
      /\ rows' = [rows EXCEPT ![r].slot = Opened(Len(layers) + 1)]
                   \o Minted(recs, InteriorBase(r), r, id, UnderAuthored(r))
      /\ layers' = Append(layers, LayerOf(recs, id, UnderAuthored(r)))
      /\ UNCHANGED <<store, log, pc, climber, job, orphans>>

\* A fault inside a payload is a resident verdict, not a stop.
DescendFaults(r) ==
  /\ Descendable(r) /\ Scanned[Backing(r)] = Broken
  /\ rows' = [rows EXCEPT ![r].slot = FaultSlot]
  /\ UNCHANGED <<layers, store, log, pc, climber, job, orphans>>

----------------------------------------------------------------------------
(* The loops inside a command.                                             *)

Climbed(m) ==
  /\ pc' = IF m = "Hist" THEN "write" ELSE "idle"
  /\ climber' = IF m = "Hist" THEN job.row ELSE None
  /\ job' = IF m = "Hist" THEN job ELSE NoJob

ClimbOn(m) ==
  LET parent == rows[climber].parent
  IN  IF parent = None THEN Climbed(m) ELSE climber' = parent /\ UNCHANGED <<pc, job>>

Flag(m, on, by) ==
  LET l == HoldingLayer(rows[climber].parent)
  IN  /\ rows' = [rows EXCEPT ![climber].mark[m] = on]
      /\ layers' = [layers EXCEPT ![l].count[m] = @ + by]

\* One round of raise_mark: it stops at the first row already flagged.
Raise(m) ==
  /\ pc = m /\ job.way = "raise"
  /\ \/ rows[climber].mark[m] /\ Climbed(m) /\ UNCHANGED <<rows, layers>>
     \/ ~rows[climber].mark[m] /\ Flag(m, TRUE, 1) /\ ClimbOn(m)
  /\ UNCHANGED <<store, log, orphans>>

\* A row keeps its flag while its own state or its layer's count holds it.
\* Slip: only the row's own state is asked.
KeepsOwn(m, row) == Own(m, row)
Keeps(m, row) == Own(m, row) \/ HeldBelow(m, row)

\* One round of lower_mark.
Lower(m) ==
  /\ pc = m /\ job.way = "lower"
  /\ LET row == rows[climber]
     IN  \/ (~row.mark[m] \/ Keeps(m, row)) /\ Climbed(m) /\ UNCHANGED <<rows, layers>>
         \/ row.mark[m] /\ ~Keeps(m, row) /\ Flag(m, FALSE, -1) /\ ClimbOn(m)
  /\ UNCHANGED <<store, log, orphans>>

\* The backing flips when the speaking value changes.
\* Slip: it flips only on the way out of the source.
FlipsForward(from, to) == Effective(from) = None /\ Effective(to) # None
Flips(from, to) == Effective(from) # Effective(to)

\* The interior's top rows; the walk below takes the rest.
Orphaned(row, r, to) ==
  IF Flips(row.edit, to) /\ IsOpened(row) THEN Members(r) ELSE {}

\* write_state up to its dirt climb.
WriteState ==
  LET r == job.row
      out == Orphaned(rows[r], r, job.to)
  IN  /\ pc = "write"
      /\ rows' = [rows EXCEPT ![r].edit = job.to,
                              ![r].slot = IF Flips(rows[r].edit, job.to) THEN Unopened ELSE @]
      /\ orphans' = out
      /\ pc' = IF out = {} THEN "Dirt" ELSE "orphan"
      /\ climber' = r
      /\ job' = [job EXCEPT !.way = IF OwnDirty(job.to) THEN "raise" ELSE "lower"]
      /\ UNCHANGED <<layers, store, log>>

\* orphan_interior marks a subtree dead, one generation a step: the code goes
\* row by row in preorder, and nothing looks at the rows in between.
\* Slips: only the interior's top rows die; the walk comes back to them.
TopOnly(reached) == {}
Again(reached) == reached
Deeper(reached) == UNION {Members(r) : r \in {x \in reached : IsOpened(rows[x])}}

OrphanWalk ==
  /\ pc = "orphan"
  /\ rows' = [r \in DOMAIN rows |->
                IF r \in orphans THEN [rows[r] EXCEPT !.dead = TRUE] ELSE rows[r]]
  /\ orphans' = Deeper(orphans)
  /\ pc' = IF Deeper(orphans) = {} THEN "Dirt" ELSE "orphan"
  /\ UNCHANGED <<layers, store, log, climber, job>>

Command ==
  \/ \E r \in DOMAIN rows :
       \/ SetScalar(r) \/ SetPayload(r)
       \/ Delete(r) \/ Undelete(r) \/ ClearEdit(r)
       \/ DescendOpens(r) \/ DescendFaults(r)
       \/ \E kind \in Kinds : InsertAfter(kind, r)
  \/ \E kind \in Kinds, c \in DOMAIN rows \cup {None} :
       InsertHead(kind, c) \/ InsertTail(kind, c)
  \/ Revert

Internal ==
  \/ \E m \in Marks : Raise(m) \/ Lower(m)
  \/ WriteState
  \/ OrphanWalk

Next == Command \/ Internal

\* A command is one call: once begun it runs to its return.
Spec == Init /\ [][Next]_vars /\ WF_vars(Internal)

----------------------------------------------------------------------------
(* Properties.                                                             *)

RowIds == 1..Len(rows)

\* Types over nr rows, nl layers and ns stored values.
EditsOf(ns) ==
  [k : {"Intact", "Replaced", "Deleted", "Inserted", "InsertedDeleted"}, v : 0..ns]
SlotsOf(nl) == {Unopened, FaultSlot} \cup {Opened(l) : l \in 1..nl}
RowsOf(nr, nl, ns) ==
  [kind : Kinds, at : Nat \cup {-1}, end : Nat, tag_w : Nat, delim_w : Nat, body : Bodies,
   parent : 0..nr, next : 0..nr, slot : SlotsOf(nl), edit : EditsOf(ns),
   authored : BOOLEAN, dead : BOOLEAN, own_hist : BOOLEAN, mark : [Marks -> BOOLEAN]]
LayersOf(nr) ==
  [first : 0..nr, last : 0..nr, count : [Marks -> Int], run : [first : 0..nr, end : 0..(nr + 1)]]
EntriesIn(nr, ns) == [row : 1..nr, from : EditsOf(ns), fresh : BOOLEAN]
JobsOf(nr, ns) == [row : 0..nr, to : EditsOf(ns), way : {"none", "raise", "lower"}]

\* Every link, slot, value and log coordinate names something minted.
TypeOK ==
  /\ rows \in Seq(RowsOf(Len(rows), Len(layers), Len(store)))
  /\ layers \in Seq(LayersOf(Len(rows))) /\ layers # << >>
  /\ store \in Seq(Words \cup Payloads)
  /\ log \in Seq(EntriesIn(Len(rows), Len(store)))
  /\ pc \in {"idle", "Hist", "write", "orphan", "Dirt"}
  /\ climber \in 0..Len(rows)
  /\ job \in JobsOf(Len(rows), Len(store))
  /\ orphans \subseteq RowIds

Quiet == pc = "idle"

\* assert_lattices (groupless.rs:13274): a row is flagged exactly when its own
\* state or its interior asks for it, and each layer counts its flagged
\* members, so that the O(1) clean test, the interior gate and the save's
\* pruning answer for the whole subtree.  Dead rows are not excepted.
Lattice ==
  Quiet =>
    /\ \A r \in RowIds, m \in Marks :
         rows[r].mark[m] = (Own(m, rows[r]) \/ HeldBelow(m, rows[r]))
    /\ \A m \in Marks :
         layers[Root].count[m] = Cardinality({r \in Members(None) : rows[r].mark[m]})
    /\ \A p \in {r \in RowIds : Live(r) /\ IsOpened(rows[r])}, m \in Marks :
         layers[rows[p].slot.layer].count[m] =
           Cardinality({r \in Members(p) : rows[r].mark[m]})

EntriesOf(r) == {i \in DOMAIN log : log[i].row = r}

\* The log names only rows a revert may still write (write_state's first
\* assertion), and a row's history mark stands exactly while an entry of it is
\* pending, the first of them the fresh one.
LogNamesLiveRows ==
  Quiet =>
    /\ \A i \in DOMAIN log : Editable(log[i].row)
    /\ \A r \in RowIds :
         /\ rows[r].own_hist = (EntriesOf(r) # {})
         /\ \A i \in EntriesOf(r) : log[i].fresh = (\A j \in EntriesOf(r) : i <= j)

\* What a flip orphans is clean (groupless.rs:13257): neither an edit nor a
\* pending entry is lost with an interior that goes out of reach.
OrphansAreClean ==
  \A r \in RowIds :
    ~Live(r) => /\ ~OwnDirty(rows[r].edit) /\ ~rows[r].own_hist
                /\ EntriesOf(r) = {}
                /\ Quiet => \A m \in Marks : ~rows[r].mark[m]

\* A live row sits in a materialized layer, which holding_layer states with an
\* unreachable_unchecked; and no live row hangs from a dead one.
LiveRowsAreHeld ==
  Quiet =>
    \A r \in RowIds : Live(r) /\ rows[r].parent # None =>
      Live(rows[r].parent) /\ IsOpened(rows[rows[r].parent])

\* A row under an authored payload never takes an edit, and a row is under one
\* exactly when its container speaks with a stored value or is under one itself:
\* the flag descend sealed into the row never goes stale.
AuthoredInteriorsBrowseOnly ==
  \A r \in RowIds :
    /\ rows[r].authored => rows[r].edit = Intact /\ ~rows[r].own_hist
    /\ Quiet /\ Live(r) /\ rows[r].parent # None =>
         rows[r].authored = UnderAuthored(rows[r].parent)

\* An interior shown is the scan of the bytes that speak now: a resident
\* verdict or an opened layer never outlives its backing.  Inserted rows are
\* the only ones the scan does not account for.
SlotsAreCurrent ==
  Quiet =>
    \A r \in RowIds : Live(r) =>
      LET recs == Scanned[Backing(r)]
          mine == {x \in Members(r) : rows[x].at >= 0}
      IN  CASE rows[r].slot.k = "Fault" -> recs = Broken
            [] IsOpened(rows[r]) ->
                 recs # Broken /\ Cardinality(mine) = Len(recs)
                 /\ \A x \in mine : \E i \in DOMAIN recs :
                      rows[x].at = InteriorBase(r) + recs[i].at /\ rows[x].body = recs[i].body
            [] OTHER -> Members(r) = {}

\* The two edit families never mix (revise.rs:286): whoever reads a source
\* offset through scanned_at or run_at finds one.
FamiliesNeverMix ==
  \A r \in RowIds :
    /\ (rows[r].at = -1) = (rows[r].edit.k \in {"Inserted", "InsertedDeleted"})
    /\ rows[r].edit.k = "Intact" => rows[r].edit.v = None
    /\ rows[r].edit.k \in {"Replaced", "Inserted", "InsertedDeleted"} => rows[r].edit.v # None

\* Every command returns: each climb and walk ends.
CommandReturns == pc # "idle" ~> pc = "idle"
=============================================================================
