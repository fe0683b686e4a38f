---------------------------- MODULE ReviseProofs ----------------------------
(***************************************************************************)
(* Proofs about the revising editor, for every document, scan, alphabet    *)
(* and bound: its types, the two families of edits, and that a live row    *)
(* sits in a materialized layer.                                           *)
(***************************************************************************)
EXTENDS Revise, SequenceTheorems, TLAPS

----------------------------------------------------------------------------
(* The inductive invariant.                                                *)

\* An edit the row may carry: of the row's own family, and with a value of the
\* row's own kind where a payload is asked for.
Fits(row, edit, st) ==
  /\ (row.at = -1) = (edit.k \in {"Inserted", "InsertedDeleted"})
  /\ edit.k = "Intact" => edit.v = None
  /\ edit.k \in {"Replaced", "Inserted", "InsertedDeleted"} => edit.v # None
  /\ row.kind = "Len" /\ edit.v # None => st[edit.v] \in Payloads

\* What a row carries, what the log would put back and what is being written.
RowsFit == \A r \in RowIds : Fits(rows[r], rows[r].edit, store)
LogFits == \A i \in 1..Len(log) : Fits(rows[log[i].row], log[i].from, store)
JobFits == pc # "idle" => Fits(rows[job.row], job.to, store)

\* A running command has a row to write and a row to climb from, and only the
\* walk has rows to mark.
Busy ==
  /\ pc # "idle" => climber \in RowIds /\ job.row \in RowIds
  /\ pc # "orphan" => orphans = {}

\* In the middle of the walk the rows not held are the ones it has reached.
Held ==
  \A r \in RowIds : Live(r) /\ rows[r].parent # None =>
    \/ Live(rows[r].parent) /\ IsOpened(rows[rows[r].parent])
    \/ r \in orphans

IInv == TypeOK /\ RowsFit /\ LogFits /\ JobFits /\ Busy /\ Held

----------------------------------------------------------------------------
(* Sequences, and the types as they grow.                                  *)

LEMMA SeqWiden ==
  ASSUME NEW S, NEW T, S \subseteq T, NEW q \in Seq(S) PROVE q \in Seq(T)
  OBVIOUS

LEMMA PutInSeq ==
  ASSUME NEW T, NEW q \in Seq(T), NEW i, NEW e, i \in 1..Len(q) => e \in T
  PROVE  LET s == [q EXCEPT ![i] = e] IN
         /\ s \in Seq(T) /\ Len(s) = Len(q)
         /\ \A j \in 1..Len(q) : s[j] = IF j = i THEN e ELSE q[j]
<1> DEFINE s == [q EXCEPT ![i] = e]
<1>1. Len(q) \in Nat /\ DOMAIN q = 1..Len(q)
  OBVIOUS
<1>2. s = [j \in 1..Len(q) |-> IF j = i THEN e ELSE q[j]]
  BY <1>1
<1>3. \A j \in 1..Len(q) : (IF j = i THEN e ELSE q[j]) \in T
  OBVIOUS
<1>4. s \in [1..Len(q) -> T]
  BY <1>2, <1>3
<1>5. s \in Seq(T) /\ Len(s) = Len(q)
  BY <1>1, <1>4
<1> QED BY <1>2, <1>5

LEMMA AppendToSeq ==
  ASSUME NEW T, NEW q \in Seq(T), NEW e \in T
  PROVE  /\ Append(q, e) \in Seq(T) /\ Len(Append(q, e)) = Len(q) + 1
         /\ \A j \in 1..Len(q) : Append(q, e)[j] = q[j]
         /\ Append(q, e)[Len(q) + 1] = e
  OBVIOUS

LEMMA JoinFacts ==
  ASSUME NEW T, NEW p \in Seq(T), NEW q \in Seq(T)
  PROVE  /\ p \o q \in Seq(T) /\ Len(p \o q) = Len(p) + Len(q)
         /\ \A x \in 1..Len(p) : (p \o q)[x] = p[x]
         /\ \A x \in 1..(Len(p) + Len(q)) : x \notin 1..Len(p) =>
              x - Len(p) \in 1..Len(q) /\ (p \o q)[x] = q[x - Len(p)]
  OBVIOUS

LEMMA PopFacts ==
  ASSUME NEW T, NEW q \in Seq(T), q # << >>
  PROVE  LET s == SubSeq(q, 1, Len(q) - 1) IN
         /\ s \in Seq(T) /\ Len(s) = Len(q) - 1 /\ Len(q) \in 1..Len(q)
         /\ \A i \in 1..Len(s) : s[i] = q[i] /\ i \in 1..Len(q)
<1> DEFINE n == Len(q) - 1
           s == SubSeq(q, 1, n)
<1>1. Len(q) \in Nat /\ Len(q) > 0 /\ n \in Nat /\ n - 1 + 1 = n /\ n < Len(q)
  OBVIOUS
<1>2. \A i \in 1..n : q[i] \in T
  BY <1>1
<1>3. /\ s \in Seq(T) /\ Len(s) = IF 1 <= n THEN n - 1 + 1 ELSE 0
      /\ \A i \in 1..(n - 1 + 1) : s[i] = q[1 + i - 1]
  <2> HIDE DEF n
  <2> QED BY <1>1, <1>2, SubSeqProperties
<1>4. Len(s) = n
  BY <1>1, <1>3
<1>5. \A i \in 1..n : s[i] = q[i] /\ i \in 1..Len(q)
  <2> SUFFICES ASSUME NEW i \in 1..n PROVE s[i] = q[i] /\ i \in 1..Len(q)
    OBVIOUS
  <2>1. 1 + i - 1 = i /\ i \in 1..(n - 1 + 1) /\ i \in 1..Len(q)
    BY <1>1
  <2> QED BY <1>3, <2>1
<1> QED BY SMTT(60), <1>1, <1>3, <1>4, <1>5

LEMMA EditsWiden ==
  ASSUME NEW s1 \in Nat, NEW s2 \in Nat, s1 <= s2
  PROVE  EditsOf(s1) \subseteq EditsOf(s2)
  BY DEF EditsOf

LEMMA SlotsWiden ==
  ASSUME NEW l1 \in Nat, NEW l2 \in Nat, l1 <= l2
  PROVE  SlotsOf(l1) \subseteq SlotsOf(l2)
  BY DEF SlotsOf, Opened

LEMMA RowsWiden ==
  ASSUME NEW n1 \in Nat, NEW n2 \in Nat, NEW l1 \in Nat, NEW l2 \in Nat,
         NEW s1 \in Nat, NEW s2 \in Nat, n1 <= n2, l1 <= l2, s1 <= s2
  PROVE  RowsOf(n1, l1, s1) \subseteq RowsOf(n2, l2, s2)
<1>1. 0..n1 \subseteq 0..n2
  OBVIOUS
<1>2. EditsOf(s1) \subseteq EditsOf(s2)
  BY EditsWiden
<1>3. SlotsOf(l1) \subseteq SlotsOf(l2)
  BY SlotsWiden
<1> QED BY <1>1, <1>2, <1>3 DEF RowsOf

LEMMA RowsGrow ==
  ASSUME NEW n \in Nat, NEW k \in Nat, NEW nl \in Nat, NEW ns \in Nat
  PROVE  RowsOf(n, nl, ns) \subseteq RowsOf(n + k, nl + 1, ns)
<1>1. n + k \in Nat /\ nl + 1 \in Nat /\ n <= n + k /\ nl <= nl + 1 /\ ns <= ns
  OBVIOUS
<1> QED BY <1>1, RowsWiden

LEMMA RowsGrowValued ==
  ASSUME NEW n \in Nat, NEW nl \in Nat, NEW ns \in Nat
  PROVE  RowsOf(n, nl, ns) \subseteq RowsOf(n + 1, nl, ns + 1)
<1>1. n + 1 \in Nat /\ ns + 1 \in Nat /\ n <= n + 1 /\ nl <= nl /\ ns <= ns + 1
  OBVIOUS
<1> QED BY <1>1, RowsWiden

LEMMA LayersWiden ==
  ASSUME NEW n1 \in Nat, NEW n2 \in Nat, n1 <= n2
  PROVE  LayersOf(n1) \subseteq LayersOf(n2)
  BY DEF LayersOf

LEMMA EntriesWiden ==
  ASSUME NEW n1 \in Nat, NEW n2 \in Nat, NEW s1 \in Nat, NEW s2 \in Nat,
         n1 <= n2, s1 <= s2
  PROVE  EntriesIn(n1, s1) \subseteq EntriesIn(n2, s2)
  BY EditsWiden DEF EntriesIn

LEMMA SlotKinds ==
  ASSUME NEW nl \in Nat, NEW slot \in SlotsOf(nl)
  PROVE  slot.k = "Opened" => slot.layer \in 1..nl
  BY DEF SlotsOf, Unopened, FaultSlot, Opened

\* What the types say of one row.
LEMMA RowFacts ==
  ASSUME TypeOK, NEW r \in RowIds
  PROVE  /\ rows[r] \in RowsOf(Len(rows), Len(layers), Len(store))
         /\ rows[r].parent \in 0..Len(rows) /\ rows[r].next \in 0..Len(rows)
         /\ rows[r].edit \in EditsOf(Len(store))
         /\ IsOpened(rows[r]) => rows[r].slot.layer \in 1..Len(layers)
<1>1. rows[r] \in RowsOf(Len(rows), Len(layers), Len(store))
  BY DEF TypeOK, RowIds
<1>2. Len(layers) \in Nat
  BY DEF TypeOK
<1> QED BY <1>1, <1>2, SlotKinds DEF RowsOf, IsOpened

----------------------------------------------------------------------------
(* Steps that mint nothing.                                                *)

\* Rows keep their number, kinds, places and parents.
SameShape ==
  /\ rows' \in Seq(RowsOf(Len(rows), Len(layers), Len(store))) /\ Len(rows') = Len(rows)
  /\ layers' \in Seq(LayersOf(Len(rows))) /\ Len(layers') = Len(layers)
  /\ \A x \in RowIds : /\ rows'[x].kind = rows[x].kind /\ rows'[x].at = rows[x].at
                       /\ rows'[x].parent = rows[x].parent

\* Nor does any of them change its edit, its slot or its death.
Frozen ==
  \A x \in RowIds : /\ rows'[x].edit = rows[x].edit /\ rows'[x].slot = rows[x].slot
                    /\ rows'[x].dead = rows[x].dead

StoreGrows == store' = store \/ \E x \in Words \cup Payloads : store' = Append(store, x)

\* An entry of the log is an old one, or notes the edit its row carries.
LogGrows ==
  /\ log' \in Seq(EntriesIn(Len(rows), Len(store)))
  /\ \A i \in 1..Len(log') :
       \/ \E j \in 1..Len(log) : log'[i] = log[j]
       \/ log'[i].from = rows[log'[i].row].edit

LEMMA StoreFacts ==
  ASSUME TypeOK, StoreGrows
  PROVE  /\ store' \in Seq(Words \cup Payloads)
         /\ Len(store) \in Nat /\ Len(store') \in Nat /\ Len(store) <= Len(store')
         /\ \A i \in 1..Len(store) : store'[i] = store[i]
<1>1. store \in Seq(Words \cup Payloads) /\ Len(store) \in Nat
  BY DEF TypeOK
<1>2. CASE store' = store
  BY <1>1, <1>2
<1>3. CASE \E x \in Words \cup Payloads : store' = Append(store, x)
  BY <1>1, <1>3, AppendToSeq
<1> QED BY <1>2, <1>3 DEF StoreGrows

LEMMA FitsKept ==
  ASSUME NEW n \in Nat, NEW st, NEW st2, \A i \in 1..n : st2[i] = st[i],
         NEW edit \in EditsOf(n), NEW row, NEW row2,
         row2.kind = row.kind, row2.at = row.at, Fits(row, edit, st)
  PROVE  Fits(row2, edit, st2)
<1>1. edit.v # None => edit.v \in 1..n
  BY DEF EditsOf, None
<1> QED BY <1>1 DEF Fits

LEMMA ShapeFacts ==
  ASSUME TypeOK, SameShape, StoreGrows
  PROVE  /\ rows' \in Seq(RowsOf(Len(rows'), Len(layers'), Len(store')))
         /\ layers' \in Seq(LayersOf(Len(rows'))) /\ layers' # << >>
         /\ RowIds' = RowIds
         /\ EditsOf(Len(store)) \subseteq EditsOf(Len(store'))
         /\ EntriesIn(Len(rows), Len(store)) \subseteq EntriesIn(Len(rows'), Len(store'))
<1>1. Len(rows) \in Nat /\ Len(layers) \in Nat /\ Len(layers) > 0
  BY DEF TypeOK
<1>2. Len(store) \in Nat /\ Len(store') \in Nat /\ Len(store) <= Len(store')
  BY StoreFacts
<1>3. RowsOf(Len(rows), Len(layers), Len(store))
        \subseteq RowsOf(Len(rows'), Len(layers'), Len(store'))
  BY SMTT(60), <1>1, <1>2, RowsWiden DEF SameShape
<1>4. rows' \in Seq(RowsOf(Len(rows'), Len(layers'), Len(store')))
  BY <1>3, SeqWiden DEF SameShape
<1>5. layers' \in Seq(LayersOf(Len(rows'))) /\ layers' # << >> /\ RowIds' = RowIds
  BY <1>1 DEF SameShape, RowIds
<1>6. EditsOf(Len(store)) \subseteq EditsOf(Len(store'))
  BY <1>2, EditsWiden
<1>7. EntriesIn(Len(rows), Len(store)) \subseteq EntriesIn(Len(rows'), Len(store'))
  BY <1>1, <1>2, EntriesWiden DEF SameShape
<1> QED BY <1>4, <1>5, <1>6, <1>7

\* What an unchanged edit of a row asks for, it still has.
LEMMA RowsFitKept ==
  ASSUME IInv, SameShape, StoreGrows, NEW r \in RowIds, rows'[r].edit = rows[r].edit
  PROVE  Fits(rows'[r], rows'[r].edit, store')
<1>1. rows[r].edit \in EditsOf(Len(store))
  BY RowFacts DEF IInv
<1>2. Fits(rows[r], rows[r].edit, store)
  BY DEF IInv, RowsFit
<1>3. rows'[r].kind = rows[r].kind /\ rows'[r].at = rows[r].at
  BY DEF SameShape
<1>4. Len(store) \in Nat /\ \A k \in 1..Len(store) : store'[k] = store[k]
  BY StoreFacts DEF IInv
<1>5. Fits(rows'[r], rows[r].edit, store')
  BY <1>1, <1>2, <1>3, <1>4, FitsKept
<1> QED BY <1>5

LEMMA LogFitKept ==
  ASSUME IInv, SameShape, StoreGrows, LogGrows PROVE LogFits'
<1> SUFFICES ASSUME NEW i \in 1..Len(log')
             PROVE  Fits(rows'[log'[i].row], log'[i].from, store')
  BY DEF LogFits
<1> DEFINE r == log'[i].row
           e == log'[i].from
<1>1. log'[i] \in EntriesIn(Len(rows), Len(store))
  BY DEF LogGrows
<1>2. r \in RowIds /\ e \in EditsOf(Len(store))
  BY <1>1 DEF EntriesIn, RowIds
<1>3. Fits(rows[r], e, store)
  <2>1. CASE \E j \in 1..Len(log) : log'[i] = log[j]
    BY <2>1 DEF IInv, LogFits
  <2>2. CASE e = rows[r].edit
    BY <1>2, <2>2 DEF IInv, RowsFit
  <2> QED BY <2>1, <2>2 DEF LogGrows
<1>4. rows'[r].kind = rows[r].kind /\ rows'[r].at = rows[r].at
  BY <1>2 DEF SameShape
<1>5. Len(store) \in Nat /\ \A k \in 1..Len(store) : store'[k] = store[k]
  BY StoreFacts DEF IInv
<1>6. Fits(rows'[r], e, store')
  <2> HIDE DEF r, e
  <2> QED BY <1>2, <1>3, <1>4, <1>5, FitsKept
<1> QED BY <1>6

LEMMA HeldKept ==
  ASSUME IInv, SameShape, Frozen, orphans' = orphans PROVE Held'
<1> SUFFICES ASSUME NEW r \in RowIds', Live(r)', rows'[r].parent # None
             PROVE  \/ Live(rows[r].parent)' /\ IsOpened(rows[rows[r].parent])'
                    \/ r \in orphans'
  BY DEF Held
<1>1. r \in RowIds /\ rows'[r].parent = rows[r].parent /\ Live(r)
  BY DEF SameShape, Frozen, RowIds, Live
<1>2. rows[r].parent \in RowIds
  BY <1>1, RowFacts DEF IInv, RowIds, None
<1>3. \/ Live(rows[r].parent) /\ IsOpened(rows[rows[r].parent])
      \/ r \in orphans
  BY <1>1 DEF IInv, Held
<1> QED BY <1>1, <1>2, <1>3 DEF Frozen, Live, IsOpened

\* The invariant over a step that writes only marks, log, job and pc.
LEMMA FrozenStep ==
  ASSUME IInv, SameShape, StoreGrows, LogGrows, Frozen, orphans' = orphans,
         pc' \in {"idle", "Hist", "write", "orphan", "Dirt"},
         climber' \in 0..Len(rows), job' \in JobsOf(Len(rows), Len(store')),
         JobFits', Busy'
  PROVE  IInv'
<1>1. TypeOK'
  <2>1. log' \in Seq(EntriesIn(Len(rows'), Len(store')))
    BY ShapeFacts, SeqWiden DEF IInv, LogGrows
  <2>2. orphans' \subseteq RowIds' /\ climber' \in 0..Len(rows')
        /\ job' \in JobsOf(Len(rows'), Len(store'))
    BY ShapeFacts DEF IInv, TypeOK, SameShape
  <2> QED BY <2>1, <2>2, ShapeFacts, StoreFacts DEF IInv, TypeOK
<1>2. RowsFit'
  BY RowsFitKept, ShapeFacts DEF RowsFit, Frozen, IInv
<1>3. LogFits' /\ Held'
  BY LogFitKept, HeldKept
<1> QED BY <1>1, <1>2, <1>3 DEF IInv

\* One row rewritten in place.
LEMMA RowPut ==
  ASSUME TypeOK, NEW r \in RowIds,
         NEW e \in RowsOf(Len(rows), Len(layers), Len(store)),
         e.kind = rows[r].kind, e.at = rows[r].at, e.parent = rows[r].parent,
         rows' = [rows EXCEPT ![r] = e],
         layers' \in Seq(LayersOf(Len(rows))), Len(layers') = Len(layers)
  PROVE  /\ SameShape
         /\ \A x \in RowIds : rows'[x] = IF x = r THEN e ELSE rows[x]
<1>1. rows \in Seq(RowsOf(Len(rows), Len(layers), Len(store)))
  BY DEF TypeOK
<1>2. /\ rows' \in Seq(RowsOf(Len(rows), Len(layers), Len(store))) /\ Len(rows') = Len(rows)
      /\ \A x \in 1..Len(rows) : rows'[x] = IF x = r THEN e ELSE rows[x]
  BY <1>1, PutInSeq
<1> QED BY <1>2 DEF SameShape, RowIds

\* The same row under another history mark.
LEMMA HistPut ==
  ASSUME TypeOK, NEW r \in RowIds, NEW b \in BOOLEAN,
         rows' = [rows EXCEPT ![r].own_hist = b], layers' = layers
  PROVE  SameShape /\ Frozen
<1> DEFINE e == [rows[r] EXCEPT !.own_hist = b]
<1>1. rows[r] \in RowsOf(Len(rows), Len(layers), Len(store))
  BY RowFacts
<1>2. /\ e \in RowsOf(Len(rows), Len(layers), Len(store))
      /\ e.kind = rows[r].kind /\ e.at = rows[r].at /\ e.parent = rows[r].parent
      /\ e.edit = rows[r].edit /\ e.slot = rows[r].slot /\ e.dead = rows[r].dead
  BY <1>1 DEF RowsOf
<1>3. rows' = [rows EXCEPT ![r] = e]
  OBVIOUS
<1> HIDE DEF e
<1>4. SameShape /\ \A x \in RowIds : rows'[x] = IF x = r THEN e ELSE rows[x]
  BY <1>2, <1>3, RowPut, ZenonT(30) DEF TypeOK
<1> QED BY <1>2, <1>4 DEF Frozen

----------------------------------------------------------------------------
(* Commands on a row.                                                      *)

LEMMA ApplyEditStep ==
  ASSUME IInv, pc = "idle", NEW r \in RowIds, NEW to \in EditsOf(Len(store')),
         StoreGrows, ApplyEdit(r, to), Fits(rows[r], to, store')
  PROVE  IInv'
<1>1. TypeOK /\ rows[r].edit \in EditsOf(Len(store)) /\ rows[r].own_hist \in BOOLEAN
  BY RowFacts DEF IInv, RowsOf
<1>2. SameShape /\ Frozen /\ orphans' = orphans
  BY <1>1, HistPut DEF ApplyEdit, LogPush
<1>3. LogGrows
  <2> DEFINE entry == [row |-> r, from |-> rows[r].edit, fresh |-> ~rows[r].own_hist]
  <2>1. log' = Append(log, entry) /\ log \in Seq(EntriesIn(Len(rows), Len(store)))
    BY <1>1 DEF ApplyEdit, LogPush, StateBefore, TypeOK
  <2>2. entry \in EntriesIn(Len(rows), Len(store))
    BY <1>1 DEF EntriesIn, RowIds
  <2>3. /\ log' \in Seq(EntriesIn(Len(rows), Len(store))) /\ Len(log') = Len(log) + 1
        /\ \A j \in 1..Len(log) : log'[j] = log[j]
        /\ log'[Len(log) + 1] = entry
    BY <2>1, <2>2, AppendToSeq
  <2>4. \A i \in 1..Len(log') : i \in 1..Len(log) \/ i = Len(log) + 1
    BY <2>1, <2>3
  <2> QED BY <2>3, <2>4 DEF LogGrows
<1>4. /\ pc' \in {"Hist", "write"} /\ climber' = r
      /\ job' = [row |-> r, to |-> to, way |-> "raise"]
  BY DEF ApplyEdit, LogPush
<1>5. climber' \in 0..Len(rows) /\ job' \in JobsOf(Len(rows), Len(store'))
  BY <1>4 DEF JobsOf, RowIds
<1>6. JobFits'
  BY <1>2, <1>4 DEF JobFits, Fits, SameShape
<1>7. Busy'
  BY <1>2, <1>4 DEF Busy, IInv, SameShape, RowIds
<1> QED BY <1>2, <1>3, <1>4, <1>5, <1>6, <1>7, FrozenStep

\* What a command may write over an edit that fits.
LEMMA EditsFit ==
  ASSUME NEW n \in Nat, NEW st, NEW row, row.edit \in EditsOf(n), Fits(row, row.edit, st)
  PROVE  /\ Shrouded(row.edit) \in EditsOf(n)
         /\ row.edit.k \notin {"Deleted", "InsertedDeleted"} => Fits(row, Shrouded(row.edit), st)
         /\ Lifted(row.edit) \in EditsOf(n)
         /\ row.edit.k \in {"Deleted", "InsertedDeleted"} => Fits(row, Lifted(row.edit), st)
         /\ Intact \in EditsOf(n)
         /\ row.edit.k = "Replaced" => Fits(row, Intact, st)
  BY DEF Fits, EditsOf, Shrouded, Lifted, Intact, Replaced, Deleted, Inserted,
         InsertedDeleted, None

LEMMA SetFits ==
  ASSUME NEW n \in Nat, NEW st, NEW st2, NEW row, row.edit \in EditsOf(n),
         Fits(row, row.edit, st), row.edit.k \in {"Intact", "Replaced", "Inserted"},
         row.kind = "Len" => st2[n + 1] \in Payloads
  PROVE  /\ SetTo(row.edit, n + 1) \in EditsOf(n + 1)
         /\ Fits(row, SetTo(row.edit, n + 1), st2)
<1>1. n + 1 \in 0..(n + 1) /\ n + 1 # 0
  OBVIOUS
<1> QED BY <1>1 DEF Fits, EditsOf, SetTo, Replaced, Inserted, None

LEMMA SetStep ==
  ASSUME IInv, NEW r \in RowIds,
         SetScalar(r) \/ SetPayload(r)
  PROVE  IInv'
<1>1. /\ TypeOK /\ Len(store) \in Nat /\ store \in Seq(Words \cup Payloads)
      /\ rows[r].edit \in EditsOf(Len(store)) /\ Fits(rows[r], rows[r].edit, store)
  BY RowFacts DEF IInv, TypeOK, RowsFit
<1> DEFINE to == SetTo(rows[r].edit, Len(store) + 1)
<1>2. /\ pc = "idle" /\ ApplyEdit(r, to)
      /\ rows[r].edit.k \in {"Intact", "Replaced", "Inserted"}
  BY DEF SetScalar, SetPayload, Authoring, Room, ValueGate
<1>3. PICK x \in Words \cup Payloads :
        store' = Append(store, x) /\ (rows[r].kind = "Len" => x \in Payloads)
  BY DEF SetScalar, SetPayload, ValueGate
<1>4. Len(store') = Len(store) + 1 /\ store'[Len(store) + 1] = x
  BY <1>1, <1>3, AppendToSeq
<1>5. to \in EditsOf(Len(store')) /\ Fits(rows[r], to, store')
  <2> DEFINE n == Len(store)
             st == store
             st2 == store'
             row == rows[r]
  <2>1. n \in Nat /\ row.edit \in EditsOf(n) /\ Fits(row, row.edit, st)
    BY <1>1
  <2>2. row.kind = "Len" => st2[n + 1] \in Payloads
    BY <1>3, <1>4
  <2>3. row.edit.k \in {"Intact", "Replaced", "Inserted"}
    BY <1>2
  <2>4. SetTo(row.edit, n + 1) \in EditsOf(n + 1) /\ Fits(row, SetTo(row.edit, n + 1), st2)
    <3> HIDE DEF n, st, st2, row
    <3> QED BY <2>1, <2>2, <2>3, SetFits
  <2> QED BY <2>4, <1>4
<1> HIDE DEF to
<1>6. StoreGrows
  BY <1>3 DEF StoreGrows
<1> QED BY <1>2, <1>5, <1>6, ApplyEditStep

LEMMA PlainEditStep ==
  ASSUME IInv, NEW r \in RowIds,
         Delete(r) \/ Undelete(r) \/ ClearEdit(r)
  PROVE  IInv'
<1>1. /\ Len(store) \in Nat
      /\ rows[r].edit \in EditsOf(Len(store)) /\ Fits(rows[r], rows[r].edit, store)
  BY RowFacts DEF IInv, TypeOK, RowsFit
<1>2. pc = "idle" /\ store' = store /\ StoreGrows
  BY DEF Delete, Undelete, ClearEdit, Room, StoreGrows
<1>3. PICK to \in EditsOf(Len(store)) : ApplyEdit(r, to) /\ Fits(rows[r], to, store)
  <2> DEFINE row == rows[r]
             st == store
             n == Len(store)
  <2>1. n \in Nat /\ row.edit \in EditsOf(n) /\ Fits(row, row.edit, st)
    BY <1>1
  <2>2. /\ Shrouded(row.edit) \in EditsOf(n)
        /\ row.edit.k \notin {"Deleted", "InsertedDeleted"} => Fits(row, Shrouded(row.edit), st)
        /\ Lifted(row.edit) \in EditsOf(n)
        /\ row.edit.k \in {"Deleted", "InsertedDeleted"} => Fits(row, Lifted(row.edit), st)
        /\ Intact \in EditsOf(n)
        /\ row.edit.k = "Replaced" => Fits(row, Intact, st)
    <3> HIDE DEF row, st, n
    <3> QED BY <2>1, EditsFit
  <2>3. CASE Delete(r)
    BY <2>2, <2>3 DEF Delete
  <2>4. CASE Undelete(r)
    BY <2>2, <2>4 DEF Undelete
  <2>5. CASE ClearEdit(r)
    BY <2>2, <2>5 DEF ClearEdit
  <2> QED BY <2>3, <2>4, <2>5
<1> QED BY <1>2, <1>3, ApplyEditStep

LEMMA RevertStep ==
  ASSUME IInv, Revert PROVE IInv'
<1> DEFINE r == LastEntry.row
<1>1. /\ TypeOK /\ log \in Seq(EntriesIn(Len(rows), Len(store))) /\ Len(log) \in 1..Len(log)
      /\ LastEntry = log[Len(log)]
  BY DEF IInv, TypeOK, Revert, LastEntry
<1>2. LastEntry \in EntriesIn(Len(rows), Len(store))
  BY <1>1
<1>3. r \in RowIds /\ LastEntry.from \in EditsOf(Len(store)) /\ LastEntry.fresh \in BOOLEAN
  BY <1>2 DEF EntriesIn, RowIds
<1>4. Fits(rows[r], LastEntry.from, store)
  BY <1>1 DEF IInv, LogFits
<1>5. SameShape /\ Frozen /\ orphans' = orphans /\ store' = store
  <2> DEFINE b == rows[r].own_hist /\ ~Releases(LastEntry)
  <2>1. b \in BOOLEAN
    OBVIOUS
  <2>2. rows' = [rows EXCEPT ![r].own_hist = b] /\ layers' = layers
    BY DEF Revert
  <2> HIDE DEF b
  <2> QED BY <1>1, <1>3, <2>1, <2>2, HistPut DEF Revert
<1>6. LogGrows
  <2>1. log' = SubSeq(log, 1, Len(log) - 1)
    BY DEF Revert
  <2>2. /\ log' \in Seq(EntriesIn(Len(rows), Len(store))) /\ Len(log') = Len(log) - 1
        /\ \A i \in 1..Len(log') : log'[i] = log[i] /\ i \in 1..Len(log)
    BY <1>1, <2>1, PopFacts DEF Revert
  <2> QED BY <2>2 DEF LogGrows
<1>7. /\ pc = "idle" /\ pc' \in {"Hist", "write"} /\ climber' = r
      /\ job' = [row |-> r, to |-> LastEntry.from, way |-> "lower"]
  BY DEF Revert
<1>8. climber' \in 0..Len(rows) /\ job' \in JobsOf(Len(rows), Len(store'))
  BY <1>3, <1>5, <1>7 DEF JobsOf, RowIds
<1>9. JobFits'
  BY <1>3, <1>4, <1>5, <1>7 DEF JobFits, Fits, SameShape
<1>10. Busy'
  BY <1>3, <1>5, <1>7 DEF Busy, IInv, SameShape, RowIds
<1>11. StoreGrows
  BY <1>5 DEF StoreGrows
<1> QED BY <1>5, <1>6, <1>7, <1>8, <1>9, <1>10, <1>11, FrozenStep

----------------------------------------------------------------------------
(* The loops.                                                              *)

LEMMA FlagStep ==
  ASSUME IInv, NEW m \in Marks, NEW b \in BOOLEAN, NEW by \in Int,
         climber \in RowIds, Flag(m, b, by)
  PROVE  SameShape /\ Frozen
<1> DEFINE e == [rows[climber] EXCEPT !.mark[m] = b]
           l == HoldingLayer(rows[climber].parent)
           f == [layers[l] EXCEPT !.count[m] = @ + by]
<1>1. TypeOK /\ rows[climber] \in RowsOf(Len(rows), Len(layers), Len(store))
  BY RowFacts DEF IInv
<1>2. /\ e \in RowsOf(Len(rows), Len(layers), Len(store))
      /\ e.kind = rows[climber].kind /\ e.at = rows[climber].at
      /\ e.parent = rows[climber].parent /\ e.edit = rows[climber].edit
      /\ e.slot = rows[climber].slot /\ e.dead = rows[climber].dead
  BY <1>1 DEF RowsOf
<1>3. rows' = [rows EXCEPT ![climber] = e]
  BY DEF Flag
<1>4. layers' = [layers EXCEPT ![l] = f]
  BY DEF Flag
<1>5. l \in 1..Len(layers) => f \in LayersOf(Len(rows))
  <2> SUFFICES ASSUME l \in 1..Len(layers) PROVE f \in LayersOf(Len(rows))
    OBVIOUS
  <2>1. layers[l] \in LayersOf(Len(rows))
    BY <1>1 DEF TypeOK
  <2> DEFINE k == layers[l]
             counts == [k.count EXCEPT ![m] = k.count[m] + by]
  <2>2. k.count \in [Marks -> Int]
    BY <2>1 DEF LayersOf
  <2>3. counts \in [Marks -> Int]
    <3> HIDE DEF k
    <3> QED BY <2>2
  <2>4. f = [k EXCEPT !.count = counts]
    OBVIOUS
  <2>5. [k EXCEPT !.count = counts] \in LayersOf(Len(rows))
    <3> HIDE DEF k, counts
    <3>1. k \in LayersOf(Len(rows))
      BY <2>1 DEF k
    <3> QED BY <2>3, <3>1 DEF LayersOf
  <2> QED BY <2>4, <2>5
<1>6. layers' \in Seq(LayersOf(Len(rows))) /\ Len(layers') = Len(layers)
  <2> HIDE DEF l, f
  <2>1. layers \in Seq(LayersOf(Len(rows)))
    BY <1>1 DEF TypeOK
  <2> QED BY <1>4, <1>5, <2>1, PutInSeq
<1> HIDE DEF e
<1>7. SameShape /\ \A x \in RowIds : rows'[x] = IF x = climber THEN e ELSE rows[x]
  BY <1>1, <1>2, <1>3, <1>6, RowPut
<1> QED BY <1>2, <1>7 DEF Frozen

\* A climb that ends, or moves up a row, keeps the job it runs for.
LEMMA ClimbFacts ==
  ASSUME IInv, NEW m \in Marks, pc = m, store' = store,
         Climbed(m) \/ ClimbOn(m), SameShape, orphans' = orphans
  PROVE  /\ pc' \in {"idle", "Hist", "write", "orphan", "Dirt"}
         /\ climber' \in 0..Len(rows) /\ job' \in JobsOf(Len(rows), Len(store'))
         /\ JobFits' /\ Busy'
<1>1. /\ TypeOK /\ climber \in RowIds /\ job.row \in RowIds /\ orphans = {}
      /\ Fits(rows[job.row], job.to, store) /\ job \in JobsOf(Len(rows), Len(store))
      /\ RowIds' = RowIds /\ Len(rows) \in Nat /\ Len(store) \in Nat
  BY DEF IInv, Busy, JobFits, TypeOK, Marks, SameShape, RowIds
<1>2. Fits(rows'[job.row], job.to, store')
  BY <1>1 DEF Fits, SameShape
<1>3. CASE Climbed(m) /\ m = "Hist"
  BY <1>1, <1>2, <1>3 DEF Climbed, JobFits, Busy, JobsOf, RowIds
<1>4. CASE Climbed(m) /\ m = "Dirt"
  <2>1. NoJob \in JobsOf(Len(rows), Len(store))
    BY <1>1 DEF NoJob, JobsOf, EditsOf, Intact, None
  <2> QED BY <1>1, <1>4, <2>1 DEF Climbed, JobFits, Busy, None
<1>5. CASE ~Climbed(m) /\ ClimbOn(m)
  <2>1. /\ climber' = rows[climber].parent /\ rows[climber].parent # None
        /\ pc' = pc /\ job' = job
    BY <1>5 DEF ClimbOn
  <2>2. climber' \in RowIds
    BY <1>1, <2>1, RowFacts DEF RowIds, None
  <2> QED BY <1>1, <1>2, <2>1, <2>2 DEF JobFits, Busy, RowIds, Marks
<1> QED BY <1>3, <1>4, <1>5 DEF Marks

LEMMA StillFacts ==
  ASSUME IInv, rows' = rows, layers' = layers
  PROVE  SameShape /\ Frozen
  BY DEF IInv, TypeOK, SameShape, Frozen

LEMMA MarkStep ==
  ASSUME IInv, NEW m \in Marks, Raise(m) \/ Lower(m) PROVE IInv'
<1>1. /\ pc = m /\ store' = store /\ log' = log /\ orphans' = orphans
      /\ \/ Climbed(m) /\ rows' = rows /\ layers' = layers
         \/ ClimbOn(m) /\ \E b \in BOOLEAN, by \in Int : Flag(m, b, by)
  <2>1. -1 \in Int /\ 1 \in Int
    OBVIOUS
  <2>2. CASE Raise(m)
    BY <2>1, <2>2 DEF Raise
  <2>3. CASE Lower(m)
    BY <2>1, <2>3 DEF Lower
  <2> QED BY <2>2, <2>3
<1>2. climber \in RowIds
  BY <1>1 DEF IInv, Busy, Marks
<1>3. SameShape /\ Frozen
  <2>1. CASE rows' = rows /\ layers' = layers
    BY <2>1, StillFacts
  <2>2. CASE \E b \in BOOLEAN, by \in Int : Flag(m, b, by)
    <3>1. PICK b \in BOOLEAN, by \in Int : Flag(m, b, by)
      BY <2>2
    <3> QED BY <1>2, <3>1, FlagStep
  <2> QED BY <1>1, <2>1, <2>2
<1>4. StoreGrows /\ LogGrows
  BY <1>1 DEF StoreGrows, LogGrows, IInv, TypeOK
<1>5. /\ pc' \in {"idle", "Hist", "write", "orphan", "Dirt"}
      /\ climber' \in 0..Len(rows) /\ job' \in JobsOf(Len(rows), Len(store'))
      /\ JobFits' /\ Busy'
  BY <1>1, <1>3, ClimbFacts
<1> QED BY <1>1, <1>3, <1>4, <1>5, FrozenStep

----------------------------------------------------------------------------
(* The write, the walk and a fault found by descending.                    *)

\* The invariant over a step that mints nothing, row by row.
LEMMA ShapeStep ==
  ASSUME IInv, SameShape, store' = store, log' = log,
         pc' \in {"idle", "Hist", "write", "orphan", "Dirt"},
         climber' \in 0..Len(rows), job' \in JobsOf(Len(rows), Len(store)),
         orphans' \subseteq RowIds,
         RowsFit', JobFits', Busy', Held'
  PROVE  IInv'
<1>1. StoreGrows /\ LogGrows
  BY DEF StoreGrows, LogGrows, IInv, TypeOK
<1>2. LogFits'
  BY <1>1, LogFitKept
<1>3. TypeOK'
  <2>1. log' \in Seq(EntriesIn(Len(rows'), Len(store')))
    BY <1>1, ShapeFacts, SeqWiden DEF IInv, LogGrows
  <2>2. orphans' \subseteq RowIds' /\ climber' \in 0..Len(rows')
        /\ job' \in JobsOf(Len(rows'), Len(store'))
    BY <1>1, ShapeFacts DEF IInv, SameShape
  <2> QED BY <1>1, <2>1, <2>2, ShapeFacts DEF IInv, TypeOK
<1> QED BY <1>2, <1>3 DEF IInv

LEMMA WriteStep ==
  ASSUME IInv, WriteState PROVE IInv'
<1> DEFINE r == job.row
           flips == Flips(rows[r].edit, job.to)
           e == [rows[r] EXCEPT !.edit = job.to, !.slot = IF flips THEN Unopened ELSE @]
<1>1. /\ TypeOK /\ pc = "write" /\ r \in RowIds /\ climber \in RowIds /\ orphans = {}
      /\ Fits(rows[r], job.to, store) /\ job \in JobsOf(Len(rows), Len(store))
      /\ Len(rows) \in Nat
  BY DEF IInv, Busy, JobFits, WriteState, TypeOK
<1>2. /\ rows[r] \in RowsOf(Len(rows), Len(layers), Len(store))
      /\ job.to \in EditsOf(Len(store)) /\ Unopened \in SlotsOf(Len(layers))
  BY <1>1, RowFacts DEF JobsOf, SlotsOf
<1>3. /\ e \in RowsOf(Len(rows), Len(layers), Len(store))
      /\ e.kind = rows[r].kind /\ e.at = rows[r].at /\ e.parent = rows[r].parent
      /\ e.edit = job.to /\ e.dead = rows[r].dead
      /\ ~flips => e.slot = rows[r].slot
  BY <1>2 DEF RowsOf
<1>4. /\ rows' = [rows EXCEPT ![r] = e]
      /\ layers' \in Seq(LayersOf(Len(rows))) /\ Len(layers') = Len(layers)
  BY <1>1 DEF WriteState, TypeOK
<1> HIDE DEF e
<1>5. SameShape /\ \A x \in RowIds : rows'[x] = IF x = r THEN e ELSE rows[x]
  BY <1>1, <1>3, <1>4, RowPut
<1>6. store' = store /\ log' = log /\ StoreGrows /\ RowIds' = RowIds
  BY <1>1, <1>5 DEF WriteState, StoreGrows, SameShape, RowIds
<1>7. RowsFit'
  <2> SUFFICES ASSUME NEW x \in RowIds PROVE Fits(rows'[x], rows'[x].edit, store')
    BY <1>6 DEF RowsFit
  <2>1. CASE x = r
    BY SMTT(60), <1>1, <1>3, <1>5, <1>6, <2>1 DEF Fits
  <2>2. CASE x # r
    BY <1>5, <1>6, <2>2, RowsFitKept
  <2> QED BY <2>1, <2>2
<1>8. /\ orphans' = Orphaned(rows[r], r, job.to) /\ orphans' \subseteq RowIds
      /\ pc' = (IF orphans' = {} THEN "Dirt" ELSE "orphan") /\ climber' = r
      /\ job'.row = r /\ job'.to = job.to /\ job' \in JobsOf(Len(rows), Len(store))
  <2>1. Members(r) \subseteq RowIds
    BY <1>1 DEF Members, RowIds, TypeOK
  <2> QED BY <1>1, <2>1 DEF WriteState, Orphaned, JobsOf
<1>9. JobFits'
  BY <1>1, <1>5, <1>6, <1>8 DEF JobFits, Fits, SameShape
<1>10. Busy'
  BY <1>1, <1>6, <1>8 DEF Busy
<1>11. Held'
  <2> SUFFICES ASSUME NEW x \in RowIds, ~rows'[x].dead, rows'[x].parent # None
               PROVE  LET p == rows'[x].parent IN
                      (~rows'[p].dead /\ IsOpened(rows'[p])) \/ x \in orphans'
    BY <1>6 DEF Held, Live
  <2> DEFINE p == rows[x].parent
  <2>1. rows'[x].parent = p /\ Live(x) /\ p # None
    BY <1>3, <1>5 DEF SameShape, Live
  <2>2. p \in RowIds /\ Live(p) /\ IsOpened(rows[p])
    BY <1>1, <2>1, RowFacts DEF IInv, Held, RowIds, None
  <2>3. CASE p # r
    BY <1>5, <2>1, <2>2, <2>3 DEF Live
  <2>4. CASE p = r /\ ~flips
    BY <1>3, <1>5, <2>1, <2>2, <2>4 DEF Live, IsOpened
  <2>5. CASE p = r /\ flips
    <3>1. x \in Members(r)
      BY <1>1, <2>1, <2>5 DEF Members, RowIds, TypeOK
    <3>2. orphans' = Members(r)
      BY <1>8, <2>2, <2>5 DEF Orphaned
    <3> QED BY <3>1, <3>2
  <2> QED BY <2>3, <2>4, <2>5
<1>12. pc' \in {"idle", "Hist", "write", "orphan", "Dirt"} /\ climber' \in 0..Len(rows)
  BY <1>1, <1>8 DEF RowIds
<1> QED BY <1>5, <1>6, <1>7, <1>8, <1>9, <1>10, <1>11, <1>12, ShapeStep

LEMMA WalkStep ==
  ASSUME IInv, OrphanWalk PROVE IInv'
<1> DEFINE Marked(x) == IF x \in orphans THEN [rows[x] EXCEPT !.dead = TRUE] ELSE rows[x]
           T == RowsOf(Len(rows), Len(layers), Len(store))
<1>1. /\ TypeOK /\ pc = "orphan" /\ job.row \in RowIds /\ climber \in RowIds
      /\ Fits(rows[job.row], job.to, store) /\ job \in JobsOf(Len(rows), Len(store))
      /\ Len(rows) \in Nat /\ DOMAIN rows = 1..Len(rows) /\ RowIds = 1..Len(rows)
  BY DEF IInv, Busy, JobFits, OrphanWalk, TypeOK, RowIds
<1>2. \A x \in RowIds : /\ Marked(x) \in T
                        /\ Marked(x).kind = rows[x].kind /\ Marked(x).at = rows[x].at
                        /\ Marked(x).parent = rows[x].parent /\ Marked(x).edit = rows[x].edit
                        /\ Marked(x).slot = rows[x].slot
                        /\ Marked(x).dead = (rows[x].dead \/ x \in orphans)
  <2> SUFFICES ASSUME NEW x \in RowIds
               PROVE  /\ Marked(x) \in T
                      /\ Marked(x).kind = rows[x].kind /\ Marked(x).at = rows[x].at
                      /\ Marked(x).parent = rows[x].parent /\ Marked(x).edit = rows[x].edit
                      /\ Marked(x).slot = rows[x].slot
                      /\ Marked(x).dead = (rows[x].dead \/ x \in orphans)
    OBVIOUS
  <2>1. rows[x] \in T
    BY <1>1, RowFacts
  <2> QED BY <2>1 DEF RowsOf
<1>3. rows' = [x \in 1..Len(rows) |-> Marked(x)]
  BY <1>1 DEF OrphanWalk
<1> HIDE DEF Marked, T
<1>4. rows' \in [1..Len(rows) -> T]
  BY <1>1, <1>2, <1>3
<1>5. rows' \in Seq(T) /\ Len(rows') = Len(rows)
  BY <1>1, <1>4
<1>6. \A x \in RowIds : rows'[x] = Marked(x)
  BY <1>1, <1>3
<1>7. layers' = layers /\ store' = store /\ log' = log /\ climber' = climber /\ job' = job
  BY DEF OrphanWalk
<1>8. SameShape
  BY <1>1, <1>2, <1>5, <1>6, <1>7 DEF SameShape, T, TypeOK
<1>9. StoreGrows /\ RowIds' = RowIds
  BY <1>5, <1>7 DEF StoreGrows, RowIds
<1>10. RowsFit'
  BY <1>2, <1>6, <1>8, <1>9, RowsFitKept DEF RowsFit
<1>11. /\ orphans' = Deeper(orphans) /\ orphans' \subseteq RowIds
       /\ pc' = IF orphans' = {} THEN "Dirt" ELSE "orphan"
  BY <1>1 DEF OrphanWalk, Deeper, Members
<1>12. JobFits'
  BY <1>1, <1>7, <1>8 DEF JobFits, Fits, SameShape
<1>13. Busy'
  BY <1>1, <1>7, <1>9, <1>11 DEF Busy
<1>14. Held'
  <2> SUFFICES ASSUME NEW x \in RowIds, ~rows'[x].dead, rows'[x].parent # None
               PROVE  LET p == rows'[x].parent IN
                      (~rows'[p].dead /\ IsOpened(rows'[p])) \/ x \in orphans'
    BY <1>9 DEF Held, Live
  <2> DEFINE p == rows[x].parent
  <2>1. rows'[x].parent = p /\ Live(x) /\ p # None /\ x \notin orphans
    BY <1>2, <1>6 DEF Live
  <2>2. p \in RowIds /\ Live(p) /\ IsOpened(rows[p])
    BY <1>1, <2>1, RowFacts DEF IInv, Held, None
  <2>3. CASE p \notin orphans
    BY <1>2, <1>6, <2>1, <2>2, <2>3 DEF Live, IsOpened
  <2>4. CASE p \in orphans
    <3>1. x \in Members(p)
      BY <1>1, <2>1 DEF Members
    <3>2. x \in Deeper(orphans)
      BY <2>2, <2>4, <3>1 DEF Deeper
    <3> QED BY <1>11, <3>2
  <2> QED BY <2>3, <2>4
<1>15. pc' \in {"idle", "Hist", "write", "orphan", "Dirt"} /\ climber' \in 0..Len(rows)
       /\ job' \in JobsOf(Len(rows), Len(store))
  BY <1>1, <1>7, <1>11
<1> QED BY <1>7, <1>8, <1>10, <1>11, <1>12, <1>13, <1>14, <1>15, ShapeStep

LEMMA FaultStep ==
  ASSUME IInv, NEW r \in RowIds, DescendFaults(r) PROVE IInv'
<1> DEFINE e == [rows[r] EXCEPT !.slot = FaultSlot]
<1>1. /\ TypeOK /\ pc = "idle" /\ rows[r].slot = Unopened /\ orphans = {}
      /\ rows[r] \in RowsOf(Len(rows), Len(layers), Len(store))
      /\ FaultSlot \in SlotsOf(Len(layers)) /\ Len(rows) \in Nat
  BY RowFacts DEF IInv, DescendFaults, Descendable, Busy, SlotsOf, TypeOK
<1>2. /\ e \in RowsOf(Len(rows), Len(layers), Len(store))
      /\ e.kind = rows[r].kind /\ e.at = rows[r].at /\ e.parent = rows[r].parent
      /\ e.edit = rows[r].edit /\ e.dead = rows[r].dead
  BY <1>1 DEF RowsOf
<1>3. /\ rows' = [rows EXCEPT ![r] = e]
      /\ layers' = layers /\ store' = store /\ log' = log /\ pc' = pc
      /\ climber' = climber /\ job' = job /\ orphans' = orphans
  BY DEF DescendFaults
<1> HIDE DEF e
<1>4. SameShape /\ \A x \in RowIds : rows'[x] = IF x = r THEN e ELSE rows[x]
  <2>1. layers' \in Seq(LayersOf(Len(rows))) /\ Len(layers') = Len(layers)
    BY <1>1, <1>3 DEF TypeOK
  <2> QED BY <1>1, <1>2, <1>3, <2>1, RowPut
<1>5. StoreGrows /\ RowIds' = RowIds
  BY <1>3, <1>4 DEF StoreGrows, SameShape, RowIds
<1>6. RowsFit'
  BY <1>2, <1>4, <1>5, RowsFitKept DEF RowsFit
<1>7. Held'
  <2> SUFFICES ASSUME NEW x \in RowIds, ~rows'[x].dead, rows'[x].parent # None
               PROVE  LET p == rows'[x].parent IN
                      (~rows'[p].dead /\ IsOpened(rows'[p])) \/ x \in orphans'
    BY <1>5 DEF Held, Live
  <2> DEFINE p == rows[x].parent
  <2>1. rows'[x].parent = p /\ Live(x) /\ p # None
    BY <1>2, <1>4 DEF Live
  <2>2. p \in RowIds /\ Live(p) /\ IsOpened(rows[p])
    BY <1>1, <2>1, RowFacts DEF IInv, Held, RowIds, None
  <2>3. p # r
    BY <1>1, <2>2 DEF IsOpened, Unopened
  <2> QED BY <1>4, <2>1, <2>2, <2>3 DEF Live
<1>8. JobFits' /\ Busy'
  BY <1>1, <1>3 DEF JobFits, Busy
<1>9. /\ pc' \in {"idle", "Hist", "write", "orphan", "Dirt"}
      /\ climber' \in 0..Len(rows) /\ job' \in JobsOf(Len(rows), Len(store))
      /\ orphans' \subseteq RowIds
  BY <1>1, <1>3 DEF TypeOK
<1> QED BY <1>3, <1>4, <1>6, <1>7, <1>8, <1>9, ShapeStep

----------------------------------------------------------------------------
(* Steps that mint rows.                                                   *)

\* k fresh rows of type T under p.
Mints(s, k, p, T) ==
  /\ s \in Seq(T) /\ Len(s) = k
  /\ \A i \in 1..k : s[i].parent = p /\ s[i].at # -1 /\ s[i].edit = Intact

LEMMA MintedFacts ==
  ASSUME NEW recs \in Seq(Records), NEW base \in Nat, NEW n \in Nat, NEW p \in 0..n,
         NEW auth \in BOOLEAN, NEW nl \in Nat, NEW ns \in Nat
  PROVE  Mints(Minted(recs, base, p, n + 1, auth), Len(recs), p,
               RowsOf(n + Len(recs), nl, ns))
<1> DEFINE k == Len(recs)
           T == RowsOf(n + k, nl, ns)
           next(i) == IF i = Len(recs) THEN None ELSE n + 1 + i
           row(i) == ScannedRow(recs[i], base, p, next(i), auth)
           s == Minted(recs, base, p, n + 1, auth)
<1>1. k \in Nat /\ s = [i \in 1..k |-> row(i)]
  BY DEF Minted
<1>2. \A i \in 1..k : /\ row(i) \in T /\ row(i).parent = p
                      /\ row(i).at # -1 /\ row(i).edit = Intact
  <2> SUFFICES ASSUME NEW i \in 1..k
               PROVE  /\ row(i) \in T /\ row(i).parent = p
                      /\ row(i).at # -1 /\ row(i).edit = Intact
    OBVIOUS
  <2>1. recs[i] \in Records
    OBVIOUS
  <2>a. /\ recs[i].kind \in Kinds /\ recs[i].at \in Nat /\ recs[i].end \in Nat
        /\ recs[i].tag_w \in Nat /\ recs[i].delim_w \in Nat /\ recs[i].body \in Bodies
    BY <2>1 DEF Records
  <2>2. base + recs[i].at \in Nat /\ base + recs[i].end \in Nat
    BY SMTT(60), <2>a
  <2>3. next(i) \in 0..(n + k) /\ p \in 0..(n + k)
    BY <1>1 DEF None
  <2>4. Unopened \in SlotsOf(nl) /\ Intact \in EditsOf(ns) /\ Unmarked \in [Marks -> BOOLEAN]
    BY DEF SlotsOf, EditsOf, Intact, None, Unmarked
  <2> HIDE DEF next
  <2>5. base + recs[i].at # -1
    BY <2>2
  <2> QED BY <2>a, <2>2, <2>3, <2>4, <2>5 DEF ScannedRow, RowsOf
<1> HIDE DEF row, T, k
<1>3. s \in [1..k -> T]
  BY <1>1, <1>2
<1>4. s \in Seq(T) /\ Len(s) = k
  BY <1>1, <1>3
<1> QED BY <1>1, <1>2, <1>4 DEF k, T, Mints

LEMMA LayerFacts ==
  ASSUME NEW recs \in Seq(Records), NEW n \in Nat, NEW auth \in BOOLEAN
  PROVE  LayerOf(recs, n + 1, auth) \in LayersOf(n + Len(recs))
<1>1. [m \in Marks |-> 0] \in [Marks -> Int]
  OBVIOUS
<1>2. CASE recs = << >>
  BY <1>1, <1>2 DEF LayerOf, Layer, LayersOf, NoRun, None
<1>3. CASE recs # << >>
  <2> DEFINE k == Len(recs)
             first == n + 1
             last == n + 1 + Len(recs) - 1
             run == IF auth THEN NoRun ELSE [first |-> n + 1, end |-> n + 1 + Len(recs)]
  <2>1. k \in Nat /\ k > 0
    BY <1>3
  <2>2. first \in 0..(n + k) /\ last \in 0..(n + k) /\ n + 1 + k \in 0..(n + k + 1)
    BY <2>1
  <2>3. run \in [first : 0..(n + k), end : 0..(n + k + 1)]
    BY <2>1, <2>2 DEF NoRun, None
  <2>4. LayerOf(recs, n + 1, auth) = Layer(first, last, run)
    BY <1>3 DEF LayerOf
  <2> HIDE DEF first, last, run, k
  <2>5. Layer(first, last, run) \in LayersOf(n + k)
    BY <1>1, <2>2, <2>3 DEF Layer, LayersOf
  <2> QED BY <2>4, <2>5 DEF k
<1> QED BY <1>2, <1>3

\* The invariant over a step that mints rows after the old ones.
LEMMA GrownStep ==
  ASSUME IInv, pc = "idle", StoreGrows,
         rows' \in Seq(RowsOf(Len(rows'), Len(layers'), Len(store'))),
         Len(rows) <= Len(rows'),
         layers' \in Seq(LayersOf(Len(rows'))), layers' # << >>,
         \A x \in RowIds : rows'[x].kind = rows[x].kind /\ rows'[x].at = rows[x].at
                           /\ rows'[x].edit = rows[x].edit,
         \A x \in RowIds' : x \notin RowIds => Fits(rows'[x], rows'[x].edit, store'),
         log' \in Seq(EntriesIn(Len(rows'), Len(store'))),
         \A i \in 1..Len(log') :
           \/ \E j \in 1..Len(log) : log'[i] = log[j]
           \/ log'[i].from = rows'[log'[i].row].edit,
         pc' \in {"idle", "Hist", "write"},
         climber' \in 0..Len(rows'), job' \in JobsOf(Len(rows'), Len(store')),
         orphans' = orphans, JobFits', Busy', Held'
  PROVE  IInv'
<1>1. /\ TypeOK /\ orphans = {} /\ Len(rows) \in Nat /\ Len(rows') \in Nat
      /\ RowIds \subseteq RowIds' /\ RowIds = 1..Len(rows) /\ RowIds' = 1..Len(rows')
  BY SMTT(60) DEF IInv, Busy, TypeOK, RowIds
<1>2. /\ Len(store) \in Nat /\ store' \in Seq(Words \cup Payloads)
      /\ \A k \in 1..Len(store) : store'[k] = store[k]
  BY <1>1, StoreFacts
<1>3. RowsFit'
  <2> SUFFICES ASSUME NEW x \in RowIds' PROVE Fits(rows'[x], rows'[x].edit, store')
    BY DEF RowsFit
  <2>1. CASE x \in RowIds
    <3>1. rows[x].edit \in EditsOf(Len(store)) /\ Fits(rows[x], rows[x].edit, store)
      BY <1>1, <2>1, RowFacts DEF IInv, RowsFit
    <3>2. rows'[x].kind = rows[x].kind /\ rows'[x].at = rows[x].at
          /\ rows'[x].edit = rows[x].edit
      BY <2>1
    <3>3. Fits(rows'[x], rows[x].edit, store')
      BY ZenonT(60), <1>2, <3>1, <3>2, FitsKept
    <3> QED BY <3>2, <3>3
  <2> QED BY <2>1
<1>4. LogFits'
  <2> SUFFICES ASSUME NEW i \in 1..Len(log')
               PROVE  Fits(rows'[log'[i].row], log'[i].from, store')
    BY DEF LogFits
  <2>1. CASE log'[i].from = rows'[log'[i].row].edit
    <3>1. log'[i] \in EntriesIn(Len(rows'), Len(store'))
      OBVIOUS
    <3>2. log'[i].row \in RowIds'
      BY <1>1, <3>1 DEF EntriesIn
    <3> QED BY <1>3, <2>1, <3>2 DEF RowsFit
  <2>2. CASE \E j \in 1..Len(log) : log'[i] = log[j]
    <3> DEFINE r == log'[i].row
               e == log'[i].from
    <3>1. PICK j \in 1..Len(log) : log'[i] = log[j]
      BY <2>2
    <3>2. log[j] \in EntriesIn(Len(rows), Len(store))
      BY SMTT(60), <1>1 DEF TypeOK
    <3>3. r \in RowIds /\ e \in EditsOf(Len(store))
      BY <1>1, <3>1, <3>2 DEF EntriesIn
    <3>4. Fits(rows[r], e, store)
      BY <3>1 DEF IInv, LogFits
    <3>5. rows'[r].kind = rows[r].kind /\ rows'[r].at = rows[r].at
      BY <3>3
    <3>6. Fits(rows'[r], e, store')
      <4> HIDE DEF r, e
      <4> QED BY <1>2, <3>3, <3>4, <3>5, FitsKept
    <3> QED BY <3>6
  <2> QED BY <2>1, <2>2
<1>5. TypeOK'
  BY <1>1, <1>2 DEF TypeOK
<1> QED BY <1>3, <1>4, <1>5 DEF IInv

LEMMA BackingFacts ==
  ASSUME IInv, NEW r \in RowIds, rows[r].kind = "Len"
  PROVE  /\ Backing(r) \in Bodies /\ InteriorBase(r) \in Nat /\ UnderAuthored(r) \in BOOLEAN
<1>1. /\ rows[r] \in RowsOf(Len(rows), Len(layers), Len(store))
      /\ rows[r].edit \in EditsOf(Len(store)) /\ Fits(rows[r], rows[r].edit, store)
  BY RowFacts DEF IInv, RowsFit
<1>2. /\ rows[r].body \in Bodies /\ rows[r].authored \in BOOLEAN
      /\ rows[r].at \in Nat \cup {-1} /\ rows[r].tag_w \in Nat /\ rows[r].delim_w \in Nat
  BY <1>1 DEF RowsOf
<1>3. Backing(r) \in Bodies
  BY <1>1, <1>2, ReviseAssumption DEF Backing, Effective, Fits
<1>4. InteriorBase(r) \in Nat
  <2>1. CASE UnderAuthored(r)
    BY <2>1 DEF InteriorBase
  <2>2. CASE ~UnderAuthored(r)
    <3>1. rows[r].edit.v = None
      BY <2>2 DEF UnderAuthored, Effective
    <3>2. rows[r].at # -1
      BY <1>1, <3>1 DEF Fits
    <3> QED BY <1>2, <2>2, <3>2 DEF InteriorBase
  <2> QED BY <2>1, <2>2
<1> QED BY <1>2, <1>3, <1>4 DEF UnderAuthored

LEMMA OpenStep ==
  ASSUME IInv, NEW r \in RowIds, DescendOpens(r) PROVE IInv'
<1> DEFINE recs == Scanned[Backing(r)]
           n == Len(rows)
           k == Len(recs)
           nl == Len(layers)
           base == InteriorBase(r)
           auth == UnderAuthored(r)
           minted == Minted(recs, base, r, n + 1, auth)
           e == [rows[r] EXCEPT !.slot = Opened(nl + 1)]
           T == RowsOf(n + k, nl + 1, Len(store))
           old == [rows EXCEPT ![r] = e]
<1>1. /\ TypeOK /\ pc = "idle" /\ Live(r) /\ rows[r].kind = "Len" /\ orphans = {}
      /\ rows[r].slot = Unopened /\ recs # Broken
      /\ n \in Nat /\ nl \in Nat /\ Len(store) \in Nat /\ RowIds = 1..n
  BY SMTT(60) DEF DescendOpens, Descendable, IInv, Busy, TypeOK, RowIds
<1>2. recs \in Seq(Records) /\ k \in Nat /\ base \in Nat /\ auth \in BOOLEAN
  <2>1. Backing(r) \in Bodies /\ base \in Nat /\ auth \in BOOLEAN
    BY <1>1, BackingFacts
  <2>2. recs \in Seq(Records)
    BY <1>1, <2>1, ReviseAssumption
  <2> HIDE DEF recs, base, auth
  <2> QED BY <2>1, <2>2
<1>3. /\ rows' = old \o minted
      /\ layers' = Append(layers, LayerOf(recs, n + 1, auth))
      /\ store' = store /\ log' = log /\ pc' = pc /\ climber' = climber
      /\ job' = job /\ orphans' = orphans
  BY DEF DescendOpens
<1>4. /\ minted \in Seq(T) /\ Len(minted) = k
      /\ \A i \in 1..k : minted[i].parent = r /\ minted[i].at # -1 /\ minted[i].edit = Intact
  <2> DEFINE nl2 == nl + 1
             ns == Len(store)
  <2>1. n \in Nat /\ r \in 0..n /\ nl2 \in Nat /\ ns \in Nat
    BY <1>1
  <2>2. recs \in Seq(Records) /\ base \in Nat /\ auth \in BOOLEAN
    BY <1>2
  <2>3. Mints(Minted(recs, base, r, n + 1, auth), Len(recs), r, RowsOf(n + Len(recs), nl2, ns))
    <3> HIDE DEF recs, base, auth, n, nl2, ns
    <3> QED BY <2>1, <2>2, MintedFacts
  <2> QED BY <2>3 DEF Mints
<1>a. RowsOf(n, nl, Len(store)) \subseteq T
  <2> DEFINE ns == Len(store)
  <2>1. ns \in Nat
    BY <1>1
  <2>2. RowsOf(n, nl, ns) \subseteq RowsOf(n + k, nl + 1, ns)
    <3> HIDE DEF n, nl, k, ns
    <3> QED BY <1>1, <1>2, <2>1, RowsGrow
  <2> QED BY <2>2
<1>5. /\ e \in T
      /\ e.kind = rows[r].kind /\ e.at = rows[r].at /\ e.parent = rows[r].parent
      /\ e.edit = rows[r].edit /\ e.dead = rows[r].dead /\ e.slot = Opened(nl + 1)
  <2>1. rows[r] \in RowsOf(n, nl, Len(store))
    BY <1>1, RowFacts
  <2>2. rows[r] \in T /\ Opened(nl + 1) \in SlotsOf(nl + 1)
    <3>3. nl + 1 \in 1..(nl + 1)
      BY <1>1
    <3> QED BY <2>1, <1>a, <3>3 DEF SlotsOf
  <2> HIDE DEF n, nl, k
  <2> QED BY <2>2 DEF RowsOf
<1>6. /\ old \in Seq(T) /\ Len(old) = n
      /\ \A x \in 1..n : old[x] = IF x = r THEN e ELSE rows[x]
  <2>1. rows \in Seq(T)
    <3>3. rows \in Seq(RowsOf(n, nl, Len(store)))
      BY <1>1 DEF TypeOK
    <3> HIDE DEF T, n, nl
    <3> QED BY <1>a, <3>3, SeqWiden
  <2> HIDE DEF T, e
  <2> QED BY <1>5, <2>1, PutInSeq
<1>7. /\ rows' \in Seq(T) /\ Len(rows') = n + k
      /\ \A x \in 1..n : rows'[x] = IF x = r THEN e ELSE rows[x]
      /\ \A x \in 1..(n + k) : x \notin 1..n => \E i \in 1..k : rows'[x] = minted[i]
  <2> HIDE DEF T, e, old, minted, n, k
  <2>1. /\ old \o minted \in Seq(T) /\ Len(old \o minted) = n + k
        /\ \A x \in 1..n : (old \o minted)[x] = old[x]
        /\ \A x \in 1..(n + k) : x \notin 1..n =>
             x - n \in 1..k /\ (old \o minted)[x] = minted[x - n]
    BY <1>4, <1>6, JoinFacts, ZenonT(60)
  <2> QED BY <1>3, <1>6, <2>1
<1>8. layers' \in Seq(LayersOf(n + k)) /\ Len(layers') = nl + 1 /\ layers' # << >>
  <2>1. LayerOf(recs, n + 1, auth) \in LayersOf(n + k)
    <3> HIDE DEF recs, n, auth
    <3> QED BY <1>1, <1>2, LayerFacts DEF k
  <2>2. layers \in Seq(LayersOf(n + k))
    <3>1. LayersOf(n) \subseteq LayersOf(n + k)
      <4>1. n <= n + k /\ n + k \in Nat
        BY <1>1, <1>2
      <4> HIDE DEF n, k
      <4> QED BY <1>1, <4>1, LayersWiden
    <3>2. layers \in Seq(LayersOf(n))
      BY <1>1 DEF TypeOK
    <3> HIDE DEF n, k
    <3> QED BY <3>1, <3>2, SeqWiden
  <2> HIDE DEF recs, n, auth, k
  <2>3. layers' \in Seq(LayersOf(n + k)) /\ Len(layers') = Len(layers) + 1
    BY <1>3, <2>1, <2>2, AppendToSeq
  <2> QED BY <1>1, <2>3
<1> HIDE DEF recs, n, k, nl, base, auth, minted, e, T, old
<1>9. /\ Len(rows) = n /\ Len(layers) = nl /\ n <= n + k /\ n + k \in Nat /\ RowIds' = 1..(n + k)
      /\ StoreGrows
  BY SMTT(60), <1>1, <1>2, <1>3, <1>7 DEF n, nl, RowIds, StoreGrows
<1>10. rows' \in Seq(RowsOf(Len(rows'), Len(layers'), Len(store')))
  BY <1>3, <1>7, <1>8 DEF T
<1>11. \A x \in RowIds : /\ rows'[x].kind = rows[x].kind /\ rows'[x].at = rows[x].at
                         /\ rows'[x].edit = rows[x].edit /\ rows'[x].dead = rows[x].dead
                         /\ rows'[x].parent = rows[x].parent
  BY <1>1, <1>5, <1>7
<1>12. \A x \in RowIds' : x \notin RowIds => Fits(rows'[x], rows'[x].edit, store')
  BY SMTT(60), <1>1, <1>4, <1>7, <1>9 DEF Fits, Intact, None
<1>13. log' \in Seq(EntriesIn(Len(rows'), Len(store')))
  <2>1. EntriesIn(n, Len(store)) \subseteq EntriesIn(n + k, Len(store))
    BY <1>1, <1>9, EntriesWiden
  <2>2. log \in Seq(EntriesIn(n, Len(store)))
    BY <1>1, <1>9 DEF TypeOK
  <2> QED BY <1>3, <1>7, <2>1, <2>2, SeqWiden
<1>14. climber' \in 0..Len(rows') /\ job' \in JobsOf(Len(rows'), Len(store'))
  <2>1. climber \in 0..n /\ job \in JobsOf(n, Len(store)) /\ 0..n \subseteq 0..(n + k)
    BY <1>1, <1>2, <1>9 DEF TypeOK
  <2> QED BY <1>3, <1>7, <2>1 DEF JobsOf
<1>15. Held'
  <2> SUFFICES ASSUME NEW x \in 1..(n + k), ~rows'[x].dead, rows'[x].parent # None
               PROVE  LET p == rows'[x].parent IN
                      (~rows'[p].dead /\ IsOpened(rows'[p])) \/ x \in orphans'
    BY <1>9 DEF Held, Live
  <2>1. ~rows'[r].dead /\ IsOpened(rows'[r])
    BY <1>1, <1>5, <1>7 DEF Live, IsOpened, Opened
  <2>2. CASE x \notin RowIds
    BY <1>1, <1>4, <1>7, <2>1, <2>2
  <2>3. CASE x \in RowIds
    <3> DEFINE p == rows[x].parent
    <3>1. rows'[x].parent = p /\ Live(x) /\ p # None
      BY <1>11, <2>3 DEF Live
    <3>2. p \in RowIds /\ Live(p) /\ IsOpened(rows[p])
      BY <1>1, <2>3, <3>1, RowFacts DEF IInv, Held, RowIds, None
    <3>3. p # r
      BY <1>1, <3>2 DEF IsOpened, Unopened
    <3> QED BY <1>1, <1>7, <3>1, <3>2, <3>3 DEF Live
  <2> QED BY <2>2, <2>3
<1>16. JobFits' /\ Busy'
  BY <1>1, <1>3 DEF JobFits, Busy
<1> QED
  BY <1>1, <1>3, <1>7, <1>8, <1>9, <1>10, <1>11, <1>12, <1>13, <1>14, <1>15, <1>16, GrownStep

LEMMA InsertStep ==
  ASSUME IInv, NEW kind \in Kinds, NEW p \in 0..Len(rows), NEW prev \in 0..Len(rows),
         p # None => Live(p) /\ IsOpened(rows[p]), Insert(kind, p, prev)
  PROVE  IInv'
<1> DEFINE n == Len(rows)
           r == n + 1
           v == Len(store) + 1
           l == HoldingLayer(p)
           next == Following(l, prev)
           a == AuthoredRow(kind, p, next, v)
           grown == Append(rows, a)
           spliced == IF prev = None THEN grown ELSE [grown EXCEPT ![prev].next = r]
           T == RowsOf(r, Len(layers), v)
           entry == [row |-> r, from |-> spliced[r].edit, fresh |-> ~spliced[r].own_hist]
           layer == [layers[l] EXCEPT !.first = IF prev = None THEN r ELSE @,
                                      !.last = TailWith(l, r, next)]
<1>1. /\ TypeOK /\ pc = "idle" /\ orphans = {} /\ n \in Nat /\ r \in Nat /\ v \in Nat
      /\ Len(store) \in Nat /\ v = Len(store) + 1 /\ v # None /\ n <= r
      /\ RowIds = 1..n /\ Len(layers) \in Nat /\ Len(layers) > 0
      /\ store \in Seq(Words \cup Payloads)
  BY DEF Insert, Authoring, Room, IInv, Busy, TypeOK, RowIds, None
<1>2. PICK x \in Words \cup Payloads :
        store' = Append(store, x) /\ (kind = "Len" => x \in Payloads)
  BY DEF Insert
<1>3. Len(store') = v /\ store'[v] = x /\ StoreGrows
  BY <1>1, <1>2, AppendToSeq DEF StoreGrows
<1>4. /\ layers' = [layers EXCEPT ![l] = layer]
      /\ LogPush(spliced, r, Inserted(v))
  BY <1>1 DEF Insert, Splice
<1>5. l \in 1..Len(layers)
  BY <1>1, RowFacts DEF HoldingLayer, Root, None
<1>6. next \in 0..n
  <2>1. layers[l] \in LayersOf(n)
    BY <1>1, <1>5 DEF TypeOK
  <2>2. layers[l].first \in 0..n
    BY <2>1 DEF LayersOf
  <2>3. prev # None => rows[prev].next \in 0..n
    BY <1>1, RowFacts DEF None
  <2> QED BY <2>2, <2>3 DEF Following
<1>7. /\ a \in T /\ a.parent = p /\ a.at = -1 /\ a.kind = kind /\ a.edit = InsertedDeleted(v)
      /\ a.own_hist = FALSE /\ a.dead = FALSE
  <2>1. p \in 0..r /\ next \in 0..r /\ v \in 0..v
    BY <1>1, <1>6
  <2>2. Unopened \in SlotsOf(Len(layers)) /\ Unmarked \in [Marks -> BOOLEAN]
        /\ InsertedDeleted(v) \in EditsOf(v) /\ << >> \in Bodies
    BY <2>1, ReviseAssumption DEF SlotsOf, Unmarked, EditsOf, InsertedDeleted
  <2> HIDE DEF next, v, r, l
  <2> QED BY <2>1, <2>2 DEF AuthoredRow, RowsOf
<1>8. rows \in Seq(T)
  <2>1. rows \in Seq(RowsOf(n, Len(layers), Len(store)))
    BY <1>1 DEF TypeOK
  <2>2. RowsOf(n, Len(layers), Len(store)) \subseteq T
    <3> DEFINE nl == Len(layers)
               ns == Len(store)
    <3>1. ns \in Nat /\ nl \in Nat
      BY <1>1
    <3>2. RowsOf(n, nl, ns) \subseteq RowsOf(n + 1, nl, ns + 1)
      <4> HIDE DEF n, nl, ns
      <4> QED BY <1>1, <3>1, RowsGrowValued
    <3> QED BY <3>2
  <2> QED BY <2>1, <2>2, SeqWiden
<1> HIDE DEF a, T, next, l
<1>9. /\ grown \in Seq(T) /\ Len(grown) = r /\ grown[r] = a
      /\ \A y \in 1..n : grown[y] = rows[y]
  BY <1>7, <1>8, AppendToSeq
<1>10. /\ spliced \in Seq(T) /\ Len(spliced) = r /\ spliced[r] = a
       /\ \A y \in 1..n : /\ spliced[y].kind = rows[y].kind /\ spliced[y].at = rows[y].at
                          /\ spliced[y].edit = rows[y].edit /\ spliced[y].slot = rows[y].slot
                          /\ spliced[y].dead = rows[y].dead
                          /\ spliced[y].parent = rows[y].parent
  <2>1. CASE prev = None
    BY <1>9, <2>1
  <2>2. CASE prev # None
    <3> DEFINE b == [grown[prev] EXCEPT !.next = r]
    <3>1. prev \in 1..n /\ prev \in 1..r /\ prev # r
      BY <1>1, <2>2 DEF None
    <3>2. grown[prev] \in T /\ grown[prev] = rows[prev]
      BY <1>9, <3>1
    <3>3. r \in 0..r
      BY <1>1
    <3>4. /\ b \in T
          /\ b.kind = rows[prev].kind /\ b.at = rows[prev].at /\ b.edit = rows[prev].edit
          /\ b.slot = rows[prev].slot /\ b.dead = rows[prev].dead
          /\ b.parent = rows[prev].parent
      <4> HIDE DEF grown, r
      <4> QED BY <3>2, <3>3 DEF T, RowsOf
    <3>5. spliced = [grown EXCEPT ![prev] = b]
      BY <2>2
    <3> HIDE DEF b, grown, spliced
    <3>6. /\ spliced \in Seq(T) /\ Len(spliced) = Len(grown)
          /\ \A y \in 1..Len(grown) : spliced[y] = IF y = prev THEN b ELSE grown[y]
      <4>1. grown \in Seq(T) /\ b \in T
        BY <1>9, <3>4
      <4> QED BY <3>5, <4>1, PutInSeq
    <3>7. r \in 1..Len(grown) /\ \A y \in 1..n : y \in 1..Len(grown)
      BY <1>1, <1>9
    <3> QED BY <1>9, <3>1, <3>4, <3>6, <3>7
  <2> QED BY <2>1, <2>2
<1> HIDE DEF spliced, grown
<1>11. /\ rows' \in Seq(T) /\ Len(rows') = r
       /\ \A y \in 1..n : /\ rows'[y].kind = rows[y].kind /\ rows'[y].at = rows[y].at
                          /\ rows'[y].edit = rows[y].edit /\ rows'[y].slot = rows[y].slot
                          /\ rows'[y].dead = rows[y].dead
                          /\ rows'[y].parent = rows[y].parent
       /\ rows'[r].kind = kind /\ rows'[r].at = -1 /\ rows'[r].parent = p
       /\ rows'[r].edit = InsertedDeleted(v)
  <2> DEFINE b == [a EXCEPT !.own_hist = TRUE]
  <2>1. /\ b \in T /\ b.kind = kind /\ b.at = -1 /\ b.parent = p
        /\ b.edit = InsertedDeleted(v)
    BY <1>7 DEF T, RowsOf
  <2>2. rows' = [spliced EXCEPT ![r] = b]
    BY <1>4, <1>10 DEF LogPush
  <2> HIDE DEF b
  <2>3. /\ rows' \in Seq(T) /\ Len(rows') = Len(spliced)
        /\ \A y \in 1..Len(spliced) : rows'[y] = IF y = r THEN b ELSE spliced[y]
    BY <1>10, <2>1, <2>2, PutInSeq
  <2>4. r \in 1..Len(spliced) /\ \A y \in 1..n : y \in 1..Len(spliced) /\ y # r
    BY <1>1, <1>10
  <2> QED BY ZenonT(60), <1>10, <2>1, <2>3, <2>4
<1>12. /\ layers' \in Seq(LayersOf(r)) /\ Len(layers') = Len(layers)
  <2>1. layers \in Seq(LayersOf(r))
    <3>1. layers \in Seq(LayersOf(n)) /\ LayersOf(n) \subseteq LayersOf(r)
      <4> HIDE DEF n, r
      <4> QED BY <1>1, LayersWiden DEF TypeOK, n
    <3> QED BY <3>1, SeqWiden
  <2>2. layers[l] \in LayersOf(r)
    BY <1>5, <2>1
  <2>3. r \in 0..r
    BY <1>1
  <2>4. TailWith(l, r, next) \in 0..r
    BY <2>2, <2>3 DEF TailWith, LayersOf
  <2>5. layer \in LayersOf(r)
    BY <2>2, <2>3, <2>4 DEF LayersOf
  <2> HIDE DEF layer
  <2> QED BY <1>4, <2>1, <2>5, PutInSeq, SMTT(30)
<1>13. RowIds' = 1..r /\ \A y \in 1..r : y \in 1..n \/ y = r
  BY <1>1, <1>11 DEF RowIds
<1>14. rows' \in Seq(RowsOf(Len(rows'), Len(layers'), Len(store')))
  BY <1>3, <1>11, <1>12 DEF T
<1>15. Fits(rows'[r], rows'[r].edit, store') /\ Fits(rows'[r], Inserted(v), store')
  BY <1>1, <1>2, <1>3, <1>11 DEF Fits, Inserted, InsertedDeleted
<1>16. /\ log' \in Seq(EntriesIn(Len(rows'), Len(store')))
       /\ \A i \in 1..Len(log') :
            \/ \E j \in 1..Len(log) : log'[i] = log[j]
            \/ log'[i].from = rows'[log'[i].row].edit
  <2>1. EntriesIn(n, Len(store)) \subseteq EntriesIn(r, v)
    <3> DEFINE ns == Len(store)
    <3>1. ns <= v /\ ns \in Nat
      BY <1>1
    <3> HIDE DEF n, r, v, ns
    <3>2. EntriesIn(n, ns) \subseteq EntriesIn(r, v)
      BY SMTT(60), <1>1, <3>1, EntriesWiden
    <3> QED BY <3>2 DEF ns
  <2>2. log \in Seq(EntriesIn(r, v))
    <3>1. log \in Seq(EntriesIn(n, Len(store)))
      BY <1>1 DEF TypeOK
    <3> QED BY <2>1, <3>1, SeqWiden
  <2>3. entry \in EntriesIn(r, v) /\ entry.from = InsertedDeleted(v) /\ entry.row = r
    <3>1. InsertedDeleted(v) \in EditsOf(v) /\ r \in 1..r
      BY <1>1 DEF InsertedDeleted, EditsOf
    <3> QED BY <1>7, <1>10, <3>1 DEF EntriesIn
  <2>4. log' = Append(log, entry)
    BY <1>4 DEF LogPush, StateBefore
  <2> HIDE DEF entry
  <2>5. /\ log' \in Seq(EntriesIn(r, v)) /\ Len(log') = Len(log) + 1
        /\ \A j \in 1..Len(log) : log'[j] = log[j]
        /\ log'[Len(log) + 1] = entry
    BY <2>2, <2>3, <2>4, AppendToSeq
  <2>6. Len(log) \in Nat /\ \A i \in 1..Len(log') : i \in 1..Len(log) \/ i = Len(log) + 1
    BY <2>2, <2>5
  <2> QED BY <1>3, <1>11, <2>3, <2>5, <2>6
<1>17. /\ pc' \in {"idle", "Hist", "write"} /\ pc' # "orphan" /\ climber' = r
       /\ job' = [row |-> r, to |-> Inserted(v), way |-> "raise"] /\ orphans' = orphans
  BY <1>4 DEF LogPush
<1>18. climber' \in 0..Len(rows') /\ job' \in JobsOf(Len(rows'), Len(store'))
  <2>1. r \in 0..r /\ Inserted(v) \in EditsOf(v)
    BY <1>1 DEF Inserted, EditsOf
  <2> QED BY <1>3, <1>11, <1>17, <2>1 DEF JobsOf
<1>19. JobFits' /\ Busy'
  <2>1. r \in 1..r
    BY <1>1
  <2> QED BY <1>1, <1>13, <1>15, <1>17, <2>1 DEF JobFits, Busy
<1>20. Held'
  <2> SUFFICES ASSUME NEW y \in 1..r, ~rows'[y].dead, rows'[y].parent # None
               PROVE  LET q == rows'[y].parent IN
                      (~rows'[q].dead /\ IsOpened(rows'[q])) \/ y \in orphans'
    BY <1>13 DEF Held, Live
  <2> DEFINE q == IF y = r THEN p ELSE rows[y].parent
  <2>1. rows'[y].parent = q /\ q # None
    BY <1>11, <1>13
  <2>2. q \in 1..n /\ Live(q) /\ IsOpened(rows[q])
    <3>1. CASE y = r
      BY <1>1, <2>1, <3>1 DEF None
    <3>2. CASE y \in 1..n /\ y # r
      <4>1. Live(y) /\ rows[y].parent # None /\ q = rows[y].parent
        BY <1>11, <2>1, <3>2 DEF Live
      <4> QED BY <1>1, <3>2, <4>1, RowFacts DEF IInv, Held, None
    <3> QED BY <1>13, <3>1, <3>2
  <2> QED BY SMTT(60), <1>11, <2>1, <2>2 DEF Live, IsOpened
<1>21. /\ \A y \in RowIds : rows'[y].kind = rows[y].kind /\ rows'[y].at = rows[y].at
                            /\ rows'[y].edit = rows[y].edit
       /\ \A y \in RowIds' : y \notin RowIds => Fits(rows'[y], rows'[y].edit, store')
  BY <1>1, <1>11, <1>13, <1>15
<1>22. Len(rows) <= Len(rows') /\ layers' # << >> /\ layers' \in Seq(LayersOf(Len(rows')))
  BY <1>1, <1>11, <1>12
<1> HIDE DEF n, r, v
<1> QED
  BY <1>1, <1>3, <1>14, <1>16, <1>17, <1>18, <1>19, <1>20, <1>21, <1>22, GrownStep

----------------------------------------------------------------------------
(* The theorems.                                                           *)

LEMMA Single ==
  ASSUME NEW T, NEW x \in T
  PROVE  <<x>> \in Seq(T) /\ Len(<<x>>) = 1 /\ <<x>> # << >>
OBVIOUS

LEMMA InitInvariant == Init => IInv
<1> SUFFICES ASSUME Init PROVE IInv
  OBVIOUS
<1> DEFINE recs == Scanned[Source]
           k == Len(recs)
<1>1. recs \in Seq(Records) /\ k \in Nat
  <2>1. recs \in Seq(Records)
    BY ReviseAssumption
  <2> HIDE DEF recs
  <2> QED BY <2>1
<1>2. /\ rows = Minted(recs, 0, None, 1, FALSE) /\ layers = <<LayerOf(recs, 1, FALSE)>>
      /\ store = << >> /\ log = << >> /\ pc = "idle" /\ climber = None /\ job = NoJob
      /\ orphans = {}
  BY DEF Init
<1>3. Mints(Minted(recs, 0, None, 0 + 1, FALSE), k, None, RowsOf(0 + k, 1, 0))
  <2> DEFINE n == 0
  <2>1. n \in Nat /\ None \in 0..n /\ FALSE \in BOOLEAN /\ 1 \in Nat
    BY DEF None
  <2> HIDE DEF recs, n
  <2>2. Mints(Minted(recs, n, None, n + 1, FALSE), Len(recs), None, RowsOf(n + Len(recs), 1, n))
    BY <1>1, <2>1, MintedFacts
  <2> QED BY <2>2 DEF n
<1>4. LayerOf(recs, 0 + 1, FALSE) \in LayersOf(0 + k)
  <2> DEFINE n == 0
  <2>1. n \in Nat /\ FALSE \in BOOLEAN
    OBVIOUS
  <2> HIDE DEF recs, n
  <2>2. LayerOf(recs, n + 1, FALSE) \in LayersOf(n + Len(recs))
    BY <1>1, <2>1, LayerFacts
  <2> QED BY <2>2 DEF n
<1> HIDE DEF recs, k
<1>5. 0 + 1 = 1 /\ 0 + k = k
  BY <1>1
<1>6. /\ rows \in Seq(RowsOf(k, 1, 0)) /\ Len(rows) = k
      /\ \A r \in 1..k : /\ rows[r].parent = None /\ rows[r].at # -1
                         /\ rows[r].edit = Intact
  BY <1>2, <1>3, <1>5 DEF Mints
<1>7. layers \in Seq(LayersOf(k)) /\ Len(layers) = 1 /\ layers # << >>
  <2>1. LayerOf(recs, 1, FALSE) \in LayersOf(k)
    BY <1>4, <1>5
  <2> QED BY <1>2, <2>1, Single
<1>8. /\ store \in Seq(Words \cup Payloads) /\ Len(store) = 0
      /\ log \in Seq(EntriesIn(k, 0)) /\ Len(log) = 0
  BY <1>2
<1>9. NoJob \in JobsOf(k, 0) /\ climber \in 0..k
  BY <1>1, <1>2 DEF NoJob, JobsOf, EditsOf, Intact, None
<1>10. TypeOK
  BY <1>2, <1>6, <1>7, <1>8, <1>9 DEF TypeOK
<1>11. RowsFit /\ LogFits /\ JobFits /\ Busy /\ Held
  <2>1. RowsFit
    BY <1>6 DEF RowsFit, Fits, Intact, RowIds
  <2>2. LogFits
    BY <1>8 DEF LogFits
  <2>3. JobFits /\ Busy
    BY <1>2 DEF JobFits, Busy, NoJob, None
  <2>4. Held
    BY <1>6 DEF Held, RowIds
  <2> QED BY <2>1, <2>2, <2>3, <2>4
<1> QED BY <1>10, <1>11 DEF IInv

LEMMA NextInvariant == IInv /\ [Next]_vars => IInv'
<1> SUFFICES ASSUME IInv, [Next]_vars PROVE IInv'
  OBVIOUS
<1>1. RowIds = DOMAIN rows /\ RowIds = 1..Len(rows) /\ Len(rows) \in Nat /\ orphans \subseteq RowIds
  BY DEF IInv, TypeOK, RowIds
<1>2. CASE \E r \in DOMAIN rows :
             SetScalar(r) \/ SetPayload(r) \/ Delete(r) \/ Undelete(r) \/ ClearEdit(r)
  BY <1>1, <1>2, SetStep, PlainEditStep
<1>3. CASE \E r \in DOMAIN rows : DescendOpens(r) \/ DescendFaults(r)
  BY <1>1, <1>3, OpenStep, FaultStep
<1>4. CASE \E r \in DOMAIN rows, kind \in Kinds : InsertAfter(kind, r)
  <2>1. PICK r \in DOMAIN rows, kind \in Kinds : InsertAfter(kind, r)
    BY <1>4
  <2> DEFINE p == rows[r].parent
  <2>2. Insert(kind, p, r) /\ Live(r) /\ pc = "idle"
    BY <2>1 DEF InsertAfter, Editable, Insert, Authoring, Room
  <2>3. p \in 0..Len(rows) /\ r \in 0..Len(rows)
    BY <1>1, RowFacts DEF IInv
  <2>4. p # None => Live(p) /\ IsOpened(rows[p])
    BY <1>1, <2>2 DEF IInv, Held, Busy
  <2> HIDE DEF p
  <2> QED BY <2>2, <2>3, <2>4, InsertStep
<1>5. CASE \E kind \in Kinds, c \in DOMAIN rows \cup {None} :
             InsertHead(kind, c) \/ InsertTail(kind, c)
  <2>1. PICK kind \in Kinds, c \in DOMAIN rows \cup {None} :
          InsertHead(kind, c) \/ InsertTail(kind, c)
    BY <1>5
  <2>2. /\ c \in 0..Len(rows) /\ 0 \in 0..Len(rows)
        /\ c # None => Live(c) /\ IsOpened(rows[c])
    BY <1>1, <2>1 DEF InsertHead, InsertTail, ContainerGate, Editable, None
  <2>3. HoldingLayer(c) \in 1..Len(layers)
    <3>1. 1 \in 1..Len(layers)
      BY DEF IInv, TypeOK
    <3>2. c # None => c \in RowIds
      BY <1>1
    <3> QED BY <2>2, <3>1, <3>2, RowFacts DEF HoldingLayer, Root, IInv
  <2>4. layers[HoldingLayer(c)].last \in 0..Len(rows)
    <3>1. layers[HoldingLayer(c)] \in LayersOf(Len(rows))
      BY <2>3 DEF IInv, TypeOK
    <3> QED BY <3>1 DEF LayersOf
  <2>5. PICK prev \in 0..Len(rows) : Insert(kind, c, prev)
    <3>1. CASE InsertHead(kind, c)
      BY <2>2, <3>1 DEF InsertHead, None
    <3>2. CASE InsertTail(kind, c)
      BY <2>4, <3>2 DEF InsertTail
    <3> QED BY <2>1, <3>1, <3>2
  <2> QED BY <2>2, <2>5, InsertStep
<1>6. CASE Revert
  BY <1>6, RevertStep
<1>7. CASE Internal
  <2>1. CASE \E m \in Marks : Raise(m) \/ Lower(m)
    BY <2>1, MarkStep
  <2> QED BY <1>7, <2>1, WriteStep, WalkStep DEF Internal
<1>8. CASE UNCHANGED vars
  BY <1>8 DEF vars, IInv, TypeOK, RowsFit, LogFits, JobFits, Busy, Held, RowIds, Live
<1> QED BY <1>2, <1>3, <1>4, <1>5, <1>6, <1>7, <1>8 DEF Next, Command

\* The inductive invariant holds of every run of the editor, whatever its
\* document, the scans it is given and the bounds.
THEOREM ReviseInvariant == Spec => []IInv
<1>1. Init => IInv
  BY InitInvariant
<1>2. IInv /\ [Next]_vars => IInv'
  BY NextInvariant
<1> QED BY <1>1, <1>2, PTL DEF Spec

\* Every link, slot, value and log coordinate names something minted.
THEOREM ReviseTypeCorrect == Spec => []TypeOK
<1>1. IInv => TypeOK
  BY DEF IInv
<1> QED BY <1>1, ReviseInvariant, PTL

\* A row never changes between the two families of edits (revise.rs:286), so the
\* offset that scanned_at and run_at unwrap is always there.
THEOREM ReviseFamiliesNeverMix == Spec => []FamiliesNeverMix
<1>1. IInv => FamiliesNeverMix
  BY DEF IInv, RowsFit, Fits, FamiliesNeverMix
<1> QED BY <1>1, ReviseInvariant, PTL

\* Between two calls a live row sits in a materialized layer under a live row:
\* holding_layer's unreachable_unchecked is never reached.
THEOREM ReviseLiveRowsAreHeld == Spec => []LiveRowsAreHeld
<1>1. IInv => LiveRowsAreHeld
  BY DEF IInv, Busy, Held, LiveRowsAreHeld, Quiet
<1> QED BY <1>1, ReviseInvariant, PTL

=============================================================================
