--------------------------- MODULE InteriorProofs ---------------------------
(***************************************************************************)
(* Proofs about the interiors of the revising editor's rows: an interior   *)
(* shown is the scan of the bytes that speak now, and the rows under an    *)
(* authored payload take no edit.                                          *)
(***************************************************************************)
EXTENDS ReviseProofs, FiniteSetTheorems

----------------------------------------------------------------------------
(* What each step writes, field by field.                                  *)

\* The record x stands for, and where it hangs.
SameRecord(x) ==
  /\ rows'[x].kind = rows[x].kind /\ rows'[x].at = rows[x].at
  /\ rows'[x].tag_w = rows[x].tag_w /\ rows'[x].delim_w = rows[x].delim_w
  /\ rows'[x].body = rows[x].body /\ rows'[x].parent = rows[x].parent
  /\ rows'[x].authored = rows[x].authored

SameState(x) ==
  rows'[x].edit = rows[x].edit /\ rows'[x].slot = rows[x].slot /\ rows'[x].dead = rows[x].dead

\* log_push and log_pop: the history flag of one row.
WritesHist(r, b) ==
  /\ RowIds' = RowIds /\ layers' = layers /\ orphans' = orphans
  /\ \A x \in RowIds :
       /\ SameRecord(x) /\ SameState(x) /\ rows'[x].mark = rows[x].mark
       /\ rows'[x].own_hist = IF x = r THEN b ELSE rows[x].own_hist

\* A round of a climb that flags: one mark of the climber, one count.
WritesMark(m, on, by) ==
  /\ RowIds' = RowIds /\ orphans' = orphans
  /\ \A x \in RowIds :
       /\ SameRecord(x) /\ SameState(x) /\ rows'[x].own_hist = rows[x].own_hist
       /\ \A k \in Marks :
            rows'[x].mark[k] = IF x = climber /\ k = m THEN on ELSE rows[x].mark[k]
  /\ \A i \in 1..Len(layers), k \in Marks :
       layers'[i].count[k] =
         IF i = HoldingLayer(rows[climber].parent) /\ k = m THEN layers[i].count[k] + by
         ELSE layers[i].count[k]

\* write_state: the edit of the job's row, and its slot where the backing flips.
WritesEdit ==
  /\ RowIds' = RowIds /\ layers' = layers
  /\ \A x \in RowIds :
       /\ SameRecord(x) /\ rows'[x].dead = rows[x].dead
       /\ rows'[x].own_hist = rows[x].own_hist /\ rows'[x].mark = rows[x].mark
       /\ rows'[x].edit = IF x = job.row THEN job.to ELSE rows[x].edit
       /\ rows'[x].slot = IF x = job.row /\ Flips(rows[x].edit, job.to) THEN Unopened
                          ELSE rows[x].slot

\* orphan_interior: the death of what it has reached.
WritesDead ==
  /\ RowIds' = RowIds /\ layers' = layers
  /\ \A x \in RowIds :
       /\ SameRecord(x) /\ rows'[x].edit = rows[x].edit /\ rows'[x].slot = rows[x].slot
       /\ rows'[x].own_hist = rows[x].own_hist /\ rows'[x].mark = rows[x].mark
       /\ rows'[x].dead = IF x \in orphans THEN TRUE ELSE rows[x].dead

\* A descent: the slot of r, and the k rows minted under it.
WritesSlot(r, slot, k) ==
  /\ orphans' = orphans /\ RowIds \subseteq RowIds'
  /\ RowIds = 1..Len(rows) /\ RowIds' = 1..(Len(rows) + k) /\ Len(rows) \in Nat
  /\ \A x \in RowIds :
       /\ SameRecord(x) /\ rows'[x].edit = rows[x].edit /\ rows'[x].dead = rows[x].dead
       /\ rows'[x].own_hist = rows[x].own_hist /\ rows'[x].mark = rows[x].mark
       /\ rows'[x].slot = IF x = r THEN slot ELSE rows[x].slot

\* A row as it is minted: nothing looked into, nothing marked.
Fresh(row) == row.slot = Unopened /\ ~row.dead /\ row.mark = Unmarked

----------------------------------------------------------------------------
LEMMA HistEffect ==
  ASSUME TypeOK, NEW r \in RowIds, NEW b \in BOOLEAN,
         rows' = [rows EXCEPT ![r].own_hist = b], layers' = layers, orphans' = orphans
  PROVE  WritesHist(r, b)
<1> DEFINE e == [rows[r] EXCEPT !.own_hist = b]
<1>1. rows[r] \in RowsOf(Len(rows), Len(layers), Len(store))
  BY RowFacts
<1>2. /\ e \in RowsOf(Len(rows), Len(layers), Len(store))
      /\ e.kind = rows[r].kind /\ e.at = rows[r].at /\ e.tag_w = rows[r].tag_w
      /\ e.delim_w = rows[r].delim_w /\ e.body = rows[r].body /\ e.parent = rows[r].parent
      /\ e.authored = rows[r].authored /\ e.mark = rows[r].mark /\ e.own_hist = b
      /\ e.edit = rows[r].edit /\ e.slot = rows[r].slot /\ e.dead = rows[r].dead
  BY <1>1 DEF RowsOf
<1>3. rows' = [rows EXCEPT ![r] = e]
  OBVIOUS
<1> HIDE DEF e
<1>4. SameShape /\ \A x \in RowIds : rows'[x] = IF x = r THEN e ELSE rows[x]
  BY <1>2, <1>3, RowPut, ZenonT(30) DEF TypeOK
<1>5. RowIds' = RowIds
  BY <1>4 DEF SameShape, RowIds
<1> QED BY <1>2, <1>4, <1>5 DEF WritesHist, SameRecord, SameState

LEMMA ApplyEditEffect ==
  ASSUME TypeOK, NEW r \in RowIds, NEW to, ApplyEdit(r, to)
  PROVE  WritesHist(r, TRUE)
  BY HistEffect DEF ApplyEdit, LogPush

LEMMA MarkEffect ==
  ASSUME TypeOK, NEW m \in Marks, NEW b \in BOOLEAN, NEW by \in Int,
         climber \in RowIds, Flag(m, b, by), orphans' = orphans
  PROVE  WritesMark(m, b, by)
<1> DEFINE e == [rows[climber] EXCEPT !.mark[m] = b]
           l == HoldingLayer(rows[climber].parent)
           f == [layers[l] EXCEPT !.count[m] = @ + by]
<1>1. rows[climber] \in RowsOf(Len(rows), Len(layers), Len(store))
  BY RowFacts
<1>2. /\ e \in RowsOf(Len(rows), Len(layers), Len(store))
      /\ e.kind = rows[climber].kind /\ e.at = rows[climber].at
      /\ e.tag_w = rows[climber].tag_w /\ e.delim_w = rows[climber].delim_w
      /\ e.body = rows[climber].body /\ e.parent = rows[climber].parent
      /\ e.authored = rows[climber].authored /\ e.own_hist = rows[climber].own_hist
      /\ e.edit = rows[climber].edit /\ e.slot = rows[climber].slot
      /\ e.dead = rows[climber].dead
  BY <1>1 DEF RowsOf
<1>3. \A k \in Marks : e.mark[k] = IF k = m THEN b ELSE rows[climber].mark[k]
  BY <1>1 DEF RowsOf
<1>4. rows' = [rows EXCEPT ![climber] = e] /\ layers' = [layers EXCEPT ![l] = f]
  BY DEF Flag
<1>5. layers \in Seq(LayersOf(Len(rows)))
  BY DEF TypeOK
<1>6. l \in 1..Len(layers) => layers[l] \in LayersOf(Len(rows))
  BY <1>5
<1>7. ASSUME l \in 1..Len(layers), NEW k \in Marks
      PROVE  f.count[k] = IF k = m THEN layers[l].count[k] + by ELSE layers[l].count[k]
  <2> DEFINE c == layers[l]
  <2>1. c \in LayersOf(Len(rows))
    BY <1>6, <1>7
  <2>2. f.count = [c.count EXCEPT ![m] = c.count[m] + by]
    <3> HIDE DEF l
    <3> QED BY <1>6 DEF LayersOf
  <2> HIDE DEF f, l, c
  <2>3. c.count \in [Marks -> Int]
    BY <2>1 DEF LayersOf
  <2> QED BY <2>2, <2>3 DEF c
<1>8. Len(layers') = Len(layers) /\ \A i \in 1..Len(layers) : layers'[i] = IF i = l THEN f ELSE layers[i]
  <2> HIDE DEF f, l
  <2>1. DOMAIN layers = 1..Len(layers)
    BY <1>5
  <2> QED BY <1>4, <1>5, <2>1
<1>9. Len(rows') = Len(rows) /\ \A x \in RowIds : rows'[x] = IF x = climber THEN e ELSE rows[x]
  <2>1. rows \in Seq(RowsOf(Len(rows), Len(layers), Len(store)))
    BY DEF TypeOK
  <2> HIDE DEF e
  <2> QED BY <1>2, <1>4, <2>1, PutInSeq DEF RowIds
<1> HIDE DEF e, f
<1>10. RowIds' = RowIds
  BY <1>9 DEF RowIds
<1> QED BY SMTT(60), <1>2, <1>3, <1>7, <1>8, <1>9, <1>10 DEF WritesMark, SameRecord, SameState

LEMMA WriteEffect ==
  ASSUME IInv, WriteState PROVE WritesEdit /\ job.row \in RowIds
<1> DEFINE r == job.row
           flips == Flips(rows[r].edit, job.to)
           e == [rows[r] EXCEPT !.edit = job.to, !.slot = IF flips THEN Unopened ELSE @]
<1>1. TypeOK /\ r \in RowIds /\ job \in JobsOf(Len(rows), Len(store))
  BY DEF IInv, Busy, WriteState, TypeOK
<1>2. rows[r] \in RowsOf(Len(rows), Len(layers), Len(store))
  BY <1>1, RowFacts
<1>3. job.to \in EditsOf(Len(store)) /\ Unopened \in SlotsOf(Len(layers))
  BY <1>1 DEF JobsOf, SlotsOf
<1>4. /\ e \in RowsOf(Len(rows), Len(layers), Len(store))
      /\ e.kind = rows[r].kind /\ e.at = rows[r].at /\ e.tag_w = rows[r].tag_w
      /\ e.delim_w = rows[r].delim_w /\ e.body = rows[r].body /\ e.parent = rows[r].parent
      /\ e.authored = rows[r].authored /\ e.mark = rows[r].mark
      /\ e.own_hist = rows[r].own_hist /\ e.dead = rows[r].dead
      /\ e.edit = job.to /\ e.slot = IF flips THEN Unopened ELSE rows[r].slot
  BY <1>2, <1>3 DEF RowsOf
<1>5. rows' = [rows EXCEPT ![r] = e] /\ layers' = layers
  BY DEF WriteState
<1>6. layers' \in Seq(LayersOf(Len(rows)))
  BY <1>1, <1>5 DEF TypeOK
<1> HIDE DEF e
<1>7. SameShape /\ \A x \in RowIds : rows'[x] = IF x = r THEN e ELSE rows[x]
  BY <1>1, <1>4, <1>5, <1>6, RowPut
<1>8. RowIds' = RowIds
  BY <1>7 DEF SameShape, RowIds
<1> QED BY <1>1, <1>4, <1>5, <1>7, <1>8 DEF WritesEdit, SameRecord

LEMMA WalkEffect ==
  ASSUME TypeOK, OrphanWalk PROVE WritesDead
<1> DEFINE Marked(x) == IF x \in orphans THEN [rows[x] EXCEPT !.dead = TRUE] ELSE rows[x]
<1>1. Len(rows) \in Nat /\ DOMAIN rows = 1..Len(rows) /\ RowIds = 1..Len(rows)
  BY DEF TypeOK, RowIds
<1>2. ASSUME NEW x \in RowIds
      PROVE  /\ Marked(x).kind = rows[x].kind /\ Marked(x).at = rows[x].at
             /\ Marked(x).tag_w = rows[x].tag_w /\ Marked(x).delim_w = rows[x].delim_w
             /\ Marked(x).body = rows[x].body /\ Marked(x).parent = rows[x].parent
             /\ Marked(x).authored = rows[x].authored /\ Marked(x).edit = rows[x].edit
             /\ Marked(x).slot = rows[x].slot /\ Marked(x).own_hist = rows[x].own_hist
             /\ Marked(x).mark = rows[x].mark
             /\ Marked(x).dead = IF x \in orphans THEN TRUE ELSE rows[x].dead
  <2>1. rows[x] \in RowsOf(Len(rows), Len(layers), Len(store))
    BY <1>2, RowFacts
  <2> QED BY <2>1 DEF RowsOf
<1>3. rows' = [x \in 1..Len(rows) |-> Marked(x)] /\ layers' = layers
  BY <1>1 DEF OrphanWalk
<1> HIDE DEF Marked
<1>4. Len(rows') = Len(rows) /\ \A x \in RowIds : rows'[x] = Marked(x)
  BY <1>1, <1>3
<1>5. RowIds' = RowIds
  BY <1>4 DEF RowIds
<1> QED BY ZenonT(60), <1>2, <1>3, <1>4, <1>5 DEF WritesDead, SameRecord

LEMMA FaultEffect ==
  ASSUME TypeOK, NEW r \in RowIds, DescendFaults(r)
  PROVE  WritesSlot(r, FaultSlot, 0) /\ layers' = layers
<1> DEFINE e == [rows[r] EXCEPT !.slot = FaultSlot]
<1>1. /\ rows[r] \in RowsOf(Len(rows), Len(layers), Len(store))
      /\ FaultSlot \in SlotsOf(Len(layers)) /\ Len(rows) \in Nat
  BY RowFacts DEF SlotsOf, TypeOK
<1>2. /\ e \in RowsOf(Len(rows), Len(layers), Len(store))
      /\ e.kind = rows[r].kind /\ e.at = rows[r].at /\ e.tag_w = rows[r].tag_w
      /\ e.delim_w = rows[r].delim_w /\ e.body = rows[r].body /\ e.parent = rows[r].parent
      /\ e.authored = rows[r].authored /\ e.mark = rows[r].mark
      /\ e.own_hist = rows[r].own_hist /\ e.dead = rows[r].dead
      /\ e.edit = rows[r].edit /\ e.slot = FaultSlot
  BY <1>1 DEF RowsOf
<1>3. rows' = [rows EXCEPT ![r] = e] /\ layers' = layers /\ orphans' = orphans
  BY DEF DescendFaults
<1>4. layers' \in Seq(LayersOf(Len(rows)))
  BY <1>3 DEF TypeOK
<1> HIDE DEF e
<1>5. SameShape /\ \A x \in RowIds : rows'[x] = IF x = r THEN e ELSE rows[x]
  BY <1>2, <1>3, <1>4, RowPut
<1>6. RowIds' = 1..(Len(rows) + 0) /\ RowIds = 1..Len(rows)
  BY <1>1, <1>5 DEF SameShape, RowIds
<1> QED BY <1>1, <1>2, <1>3, <1>5, <1>6 DEF WritesSlot, SameRecord

\* The row a scan's record becomes, under r.
MintedFrom(row, rec, base, r, auth) ==
  /\ Fresh(row) /\ row.kind = rec.kind /\ row.at = base + rec.at /\ row.body = rec.body
  /\ row.parent = r /\ row.authored = auth /\ row.edit = Intact /\ ~row.own_hist

LEMMA OpenEffect ==
  ASSUME IInv, NEW r \in RowIds, DescendOpens(r)
  PROVE  LET recs == Scanned[Backing(r)] IN
         /\ recs \in Seq(Records) /\ InteriorBase(r) \in Nat /\ UnderAuthored(r) \in BOOLEAN
         /\ WritesSlot(r, Opened(Len(layers) + 1), Len(recs))
         /\ \A x \in RowIds' : x \notin RowIds =>
              /\ x - Len(rows) \in 1..Len(recs)
              /\ MintedFrom(rows'[x], recs[x - Len(rows)], InteriorBase(r), r, UnderAuthored(r))
         /\ Len(layers') = Len(layers) + 1
         /\ \A i \in 1..Len(layers) : layers'[i] = layers[i]
         /\ \A m \in Marks : layers'[Len(layers) + 1].count[m] = 0
<1> DEFINE recs == Scanned[Backing(r)]
           n == Len(rows)
           k == Len(recs)
           nl == Len(layers)
           ns == Len(store)
           base == InteriorBase(r)
           auth == UnderAuthored(r)
           minted == Minted(recs, base, r, n + 1, auth)
           e == [rows[r] EXCEPT !.slot = Opened(nl + 1)]
           old == [rows EXCEPT ![r] = e]
           T == RowsOf(n + k, nl + 1, ns)
           layer == LayerOf(recs, n + 1, auth)
<1>1. /\ TypeOK /\ rows[r].kind = "Len" /\ recs # Broken
      /\ n \in Nat /\ nl \in Nat /\ ns \in Nat /\ RowIds = 1..n /\ r \in 0..n
  BY SMTT(60) DEF DescendOpens, Descendable, IInv, TypeOK, RowIds
<1>2. recs \in Seq(Records) /\ k \in Nat /\ base \in Nat /\ auth \in BOOLEAN
  <2>1. Backing(r) \in Bodies /\ base \in Nat /\ auth \in BOOLEAN
    BY <1>1, BackingFacts
  <2>2. recs \in Seq(Records)
    BY <1>1, <2>1, ReviseAssumption
  <2> HIDE DEF recs, base, auth
  <2> QED BY <2>1, <2>2
<1>3. rows' = old \o minted /\ layers' = Append(layers, layer) /\ orphans' = orphans
  BY DEF DescendOpens
<1>4. minted \in Seq(T) /\ Len(minted) = k
  <2>1. nl + 1 \in Nat
    BY <1>1
  <2>2. Mints(Minted(recs, base, r, n + 1, auth), Len(recs), r, RowsOf(n + Len(recs), nl + 1, ns))
    <3> HIDE DEF recs, base, auth, n, nl, ns
    <3> QED BY <1>1, <1>2, <2>1, MintedFacts
  <2> QED BY <2>2 DEF Mints
<1>5. \A i \in 1..k : MintedFrom(minted[i], recs[i], base, r, auth)
  <2> HIDE DEF recs, base, auth, n
  <2> QED BY <1>2 DEF Minted, MintedFrom, ScannedRow, Fresh, k
<1>6. RowsOf(n, nl, ns) \subseteq T
  <2> HIDE DEF n, nl, k, ns
  <2> QED BY <1>1, <1>2, RowsGrow
<1>7. rows[r] \in RowsOf(n, nl, ns) /\ Opened(nl + 1) \in SlotsOf(nl + 1)
  <2>1. nl + 1 \in 1..(nl + 1)
    BY <1>1
  <2> QED BY <1>1, <2>1, RowFacts DEF SlotsOf
<1>8. /\ e \in T
      /\ e.kind = rows[r].kind /\ e.at = rows[r].at /\ e.tag_w = rows[r].tag_w
      /\ e.delim_w = rows[r].delim_w /\ e.body = rows[r].body /\ e.parent = rows[r].parent
      /\ e.authored = rows[r].authored /\ e.mark = rows[r].mark
      /\ e.own_hist = rows[r].own_hist /\ e.dead = rows[r].dead
      /\ e.edit = rows[r].edit /\ e.slot = Opened(nl + 1)
  <2>1. rows[r] \in T
    BY <1>6, <1>7
  <2> HIDE DEF n, nl, k, ns
  <2> QED BY <1>7, <2>1 DEF RowsOf
<1>9. /\ old \in Seq(T) /\ Len(old) = n
      /\ \A x \in 1..n : old[x] = IF x = r THEN e ELSE rows[x]
  <2>1. rows \in Seq(RowsOf(n, nl, ns))
    BY <1>1 DEF TypeOK
  <2>2. rows \in Seq(T)
    <3> HIDE DEF T, n, nl, ns
    <3> QED BY <1>6, <2>1, SeqWiden
  <2> HIDE DEF T, e
  <2> QED BY <1>8, <2>2, PutInSeq
<1>10. /\ Len(rows') = n + k
       /\ \A x \in 1..n : rows'[x] = IF x = r THEN e ELSE rows[x]
       /\ \A x \in 1..(n + k) : x \notin 1..n => x - n \in 1..k /\ rows'[x] = minted[x - n]
  <2> HIDE DEF T, e, old, minted, n, k
  <2>1. /\ old \o minted \in Seq(T) /\ Len(old \o minted) = n + k
        /\ \A x \in 1..n : (old \o minted)[x] = old[x]
        /\ \A x \in 1..(n + k) : x \notin 1..n =>
             x - n \in 1..k /\ (old \o minted)[x] = minted[x - n]
    BY <1>4, <1>9, JoinFacts, ZenonT(60)
  <2> QED BY <1>3, <1>9, <2>1
<1>11. \A m \in Marks : layer.count[m] = 0
  <2> HIDE DEF recs, n, auth
  <2> QED BY DEF LayerOf, Layer
<1>12. /\ Len(layers') = nl + 1 /\ layers'[nl + 1] = layer
       /\ \A i \in 1..nl : layers'[i] = layers[i]
  <2>1. layers \in Seq(LayersOf(n))
    BY <1>1 DEF TypeOK
  <2> HIDE DEF layer, n
  <2> QED BY <1>3, <2>1
<1> HIDE DEF recs, n, k, nl, base, auth, minted, e, old, layer
<1>13. RowIds' = 1..(n + k) /\ RowIds \subseteq RowIds'
  BY <1>1, <1>2, <1>10 DEF RowIds
<1>14. WritesSlot(r, Opened(nl + 1), k)
  BY <1>1, <1>3, <1>8, <1>10, <1>13 DEF WritesSlot, SameRecord, n, nl
<1>15. \A x \in RowIds' : x \notin RowIds =>
         x - n \in 1..k /\ MintedFrom(rows'[x], recs[x - n], base, r, auth)
  BY <1>1, <1>5, <1>10, <1>13
<1> QED BY <1>2, <1>11, <1>12, <1>14, <1>15 DEF n, nl, k, recs, base, auth

\* The row an insertion makes under p, with its history flag up.
InsertedInto(row, kind, p, v) ==
  /\ Fresh(row) /\ row.kind = kind /\ row.at = -1 /\ row.parent = p /\ ~row.authored
  /\ row.edit = InsertedDeleted(v) /\ row.own_hist

LEMMA InsertEffect ==
  ASSUME IInv, NEW kind \in Kinds, NEW p \in 0..Len(rows), NEW prev \in 0..Len(rows),
         p # None => IsOpened(rows[p]), Insert(kind, p, prev)
  PROVE  LET r == Len(rows) + 1 IN
         /\ WritesSlot(None, Unopened, 1)
         /\ r \in RowIds' /\ \A x \in RowIds' : x \notin RowIds => x = r
         /\ InsertedInto(rows'[r], kind, p, Len(store) + 1)
         /\ Len(layers') = Len(layers)
         /\ \A i \in 1..Len(layers) : layers'[i].count = layers[i].count
         /\ log' = Append(log, [row |-> r, from |-> InsertedDeleted(Len(store) + 1),
                                fresh |-> TRUE])
         /\ pc' = "Hist" /\ climber' = r
         /\ job' = [row |-> r, to |-> Inserted(Len(store) + 1), way |-> "raise"]
<1> DEFINE n == Len(rows)
           r == n + 1
           ns == Len(store)
           v == ns + 1
           nl == Len(layers)
           l == HoldingLayer(p)
           next == Following(l, prev)
           a == AuthoredRow(kind, p, next, v)
           T == RowsOf(r, nl, v)
           grown == Append(rows, a)
           spliced == IF prev = None THEN grown ELSE [grown EXCEPT ![prev].next = r]
           layer == [layers[l] EXCEPT !.first = IF prev = None THEN r ELSE @,
                                      !.last = TailWith(l, r, next)]
<1>1. /\ TypeOK /\ n \in Nat /\ ns \in Nat /\ nl \in Nat /\ nl > 0 /\ RowIds = 1..n
      /\ None \notin RowIds
  BY DEF IInv, TypeOK, RowIds, None
<1>2. /\ layers' = [layers EXCEPT ![l] = layer] /\ LogPush(spliced, r, Inserted(v))
  BY <1>1 DEF Insert, Splice
<1>3. l \in 1..nl
  BY <1>1, RowFacts DEF HoldingLayer, Root, None
<1>4. next \in 0..n
  <2>1. layers[l] \in LayersOf(n)
    BY <1>1, <1>3 DEF TypeOK
  <2>2. layers[l].first \in 0..n
    BY <2>1 DEF LayersOf
  <2>3. prev # None => rows[prev].next \in 0..n
    BY <1>1, RowFacts DEF None
  <2> QED BY <2>2, <2>3 DEF Following
<1>5. /\ a \in T /\ Fresh(a) /\ a.kind = kind /\ a.at = -1 /\ a.parent = p /\ ~a.authored
      /\ a.edit = InsertedDeleted(v) /\ ~a.own_hist
  <2>1. p \in 0..r /\ next \in 0..r /\ v \in 0..v
    BY <1>1, <1>4
  <2>2. Unopened \in SlotsOf(nl) /\ Unmarked \in [Marks -> BOOLEAN]
        /\ InsertedDeleted(v) \in EditsOf(v) /\ << >> \in Bodies
    BY <2>1, ReviseAssumption DEF SlotsOf, Unmarked, EditsOf, InsertedDeleted
  <2> HIDE DEF next, v, r, l, nl
  <2> QED BY <2>1, <2>2 DEF AuthoredRow, RowsOf, Fresh
<1>6. rows \in Seq(T)
  <2>1. RowsOf(n, nl, ns) \subseteq T
    <3>1. RowsOf(n, nl, ns) \subseteq RowsOf(n + 1, nl, ns + 1)
      <4> HIDE DEF n, nl, ns
      <4> QED BY <1>1, RowsGrowValued
    <3> QED BY <3>1
  <2>2. rows \in Seq(RowsOf(n, nl, ns))
    BY <1>1 DEF TypeOK
  <2> QED BY <2>1, <2>2, SeqWiden
<1> HIDE DEF a, T, next, l
<1>7. /\ grown \in Seq(T) /\ Len(grown) = r /\ grown[r] = a
      /\ \A y \in 1..n : grown[y] = rows[y]
  BY <1>5, <1>6, AppendToSeq
<1> DEFINE Alike(y, row) ==
      /\ row.kind = rows[y].kind /\ row.at = rows[y].at /\ row.tag_w = rows[y].tag_w
      /\ row.delim_w = rows[y].delim_w /\ row.body = rows[y].body
      /\ row.parent = rows[y].parent /\ row.authored = rows[y].authored
      /\ row.edit = rows[y].edit /\ row.slot = rows[y].slot /\ row.dead = rows[y].dead
      /\ row.own_hist = rows[y].own_hist /\ row.mark = rows[y].mark
<1>8. /\ spliced \in Seq(T) /\ Len(spliced) = r /\ spliced[r] = a
      /\ \A y \in 1..n : Alike(y, spliced[y])
  <2>1. CASE prev = None
    BY <1>7, <2>1
  <2>2. CASE prev # None
    <3> DEFINE b == [grown[prev] EXCEPT !.next = r]
    <3>1. prev \in 1..n /\ prev \in 1..r /\ prev # r
      BY <1>1, <2>2 DEF None
    <3>2. grown[prev] \in T /\ grown[prev] = rows[prev]
      BY <1>7, <3>1
    <3>3. r \in 0..r
      BY <1>1
    <3>4. b \in T /\ Alike(prev, b)
      <4> HIDE DEF grown, r
      <4> QED BY <3>2, <3>3 DEF T, RowsOf
    <3>5. spliced = [grown EXCEPT ![prev] = b]
      BY <2>2
    <3> HIDE DEF b, grown, spliced
    <3>6. /\ spliced \in Seq(T) /\ Len(spliced) = Len(grown)
          /\ \A y \in 1..Len(grown) : spliced[y] = IF y = prev THEN b ELSE grown[y]
      BY <1>7, <3>4, <3>5, PutInSeq
    <3>7. r \in 1..Len(grown) /\ \A y \in 1..n : y \in 1..Len(grown)
      BY <1>1, <1>7
    <3> QED BY <1>7, <3>1, <3>4, <3>6, <3>7
  <2> QED BY <2>1, <2>2
<1> HIDE DEF spliced, grown
<1>9. /\ Len(rows') = r /\ \A y \in 1..n : Alike(y, rows'[y])
      /\ InsertedInto(rows'[r], kind, p, v)
  <2> DEFINE b == [a EXCEPT !.own_hist = TRUE]
  <2>1. b \in T /\ InsertedInto(b, kind, p, v)
    BY <1>5 DEF T, RowsOf, InsertedInto, Fresh
  <2>2. rows' = [spliced EXCEPT ![r] = b]
    BY <1>2, <1>8 DEF LogPush
  <2> HIDE DEF b
  <2>3. /\ Len(rows') = Len(spliced)
        /\ \A y \in 1..Len(spliced) : rows'[y] = IF y = r THEN b ELSE spliced[y]
    BY <1>8, <2>1, <2>2, PutInSeq
  <2>4. r \in 1..Len(spliced) /\ \A y \in 1..n : y \in 1..Len(spliced) /\ y # r
    BY <1>1, <1>8
  <2> QED BY SMTT(60), <1>8, <2>1, <2>3, <2>4
<1>10. Len(layers') = nl /\ \A i \in 1..nl : layers'[i].count = layers[i].count
  <2>1. layers[l] \in LayersOf(n) /\ layers \in Seq(LayersOf(n))
    BY <1>1, <1>3 DEF TypeOK
  <2>2. layer.count = layers[l].count
    BY <2>1 DEF LayersOf
  <2> HIDE DEF layer
  <2>3. DOMAIN layers = 1..nl
    BY <2>1
  <2> QED BY <1>2, <2>1, <2>2, <2>3
<1>11. RowIds' = 1..r /\ \A y \in 1..r : y \in 1..n \/ y = r
  BY <1>1, <1>9 DEF RowIds
<1>12. orphans' = orphans
  BY <1>2 DEF LogPush
<1>13. WritesSlot(None, Unopened, 1)
  BY <1>1, <1>9, <1>11, <1>12 DEF WritesSlot, SameRecord
<1>14. /\ log' = Append(log, [row |-> r, from |-> InsertedDeleted(v), fresh |-> TRUE])
       /\ pc' = "Hist" /\ climber' = r
       /\ job' = [row |-> r, to |-> Inserted(v), way |-> "raise"]
  BY <1>2, <1>5, <1>8 DEF LogPush, StateBefore
<1> QED BY <1>1, <1>9, <1>10, <1>11, <1>13, <1>14

----------------------------------------------------------------------------
(* The inductive invariant.                                                *)

\* A row is minted after the row it hangs from, and only a payload is opened.
Tree ==
  \A r \in RowIds :
    /\ rows[r].parent < r
    /\ IsOpened(rows[r]) => rows[r].kind = "Len" /\ rows[r].slot.layer # Root

\* No two rows share a layer.
Apart ==
  \A r, q \in RowIds :
    IsOpened(rows[r]) /\ IsOpened(rows[q]) /\ rows[r].slot.layer = rows[q].slot.layer => r = q

\* Rows under an authored payload carry no edit, and neither the log nor the
\* running command names one.
Browsed ==
  /\ \A r \in RowIds :
       /\ rows[r].authored => rows[r].edit = Intact /\ ~rows[r].own_hist
       /\ Live(r) /\ rows[r].parent # None /\ r \notin orphans =>
            rows[r].authored = UnderAuthored(rows[r].parent)
  /\ \A i \in 1..Len(log) : ~rows[log[i].row].authored
  /\ pc # "idle" => ~rows[job.row].authored

\* What the walk has reached hangs from a row that shows no interior any more.
Strays ==
  \A x \in orphans :
    /\ Live(x) /\ rows[x].parent # None
    /\ ~(Live(rows[x].parent) /\ IsOpened(rows[rows[x].parent]))

\* The members of r that its scan accounts for.
Mine(r) == {x \in Members(r) : rows[x].at >= 0}

\* The slot of r tells what a scan of its backing would find.
CurrentAt(r) ==
  LET recs == Scanned[Backing(r)]
  IN  /\ rows[r].slot.k = "Fault" => recs = Broken
      /\ IsOpened(rows[r]) =>
           /\ recs # Broken /\ Cardinality(Mine(r)) = Len(recs)
           /\ \A x \in Mine(r) : \E i \in 1..Len(recs) :
                rows[x].at = InteriorBase(r) + recs[i].at /\ rows[x].body = recs[i].body
Current == \A r \in RowIds : Live(r) => CurrentAt(r)

Interiors == Tree /\ Apart /\ Browsed /\ Strays /\ Current

----------------------------------------------------------------------------
(* What keeps a row's interior current.                                    *)

StoreKept == \A v \in 1..Len(store) : store'[v] = store[v]

LEMMA MembersAre ==
  ASSUME TypeOK, NEW p
  PROVE  /\ RowIds = 1..Len(rows) /\ Len(rows) \in Nat /\ Members(p) \subseteq RowIds
         /\ \A x \in RowIds : x \in Members(p) <=> ~rows[x].dead /\ rows[x].parent = p
  BY DEF TypeOK, Members, RowIds, Live

\* The bytes that speak for a row, while its speaking value stays.
LEMMA SpeaksOn ==
  ASSUME IInv, StoreKept, NEW r \in RowIds, SameRecord(r), rows'[r].edit.v = rows[r].edit.v
  PROVE  /\ Backing(r)' = Backing(r) /\ UnderAuthored(r)' = UnderAuthored(r)
         /\ InteriorBase(r)' = InteriorBase(r)
<1>1. rows[r].edit \in EditsOf(Len(store))
  BY RowFacts DEF IInv
<1>2. rows[r].edit.v # None => rows[r].edit.v \in 1..Len(store)
  BY <1>1 DEF EditsOf, None
<1>3. Backing(r)' = Backing(r)
  BY <1>2 DEF Backing, Effective, StoreKept, SameRecord
<1>4. UnderAuthored(r)' = UnderAuthored(r)
  BY DEF UnderAuthored, Effective, SameRecord
<1> QED BY <1>3, <1>4 DEF InteriorBase, SameRecord

LEMMA StaysCurrent ==
  ASSUME IInv, StoreKept, NEW r \in RowIds, SameRecord(r), rows'[r].edit.v = rows[r].edit.v,
         rows'[r].slot = rows[r].slot, CurrentAt(r),
         IsOpened(rows[r]) => Mine(r)' = Mine(r) /\ \A x \in Mine(r) : SameRecord(x)
  PROVE  CurrentAt(r)'
<1>1. Backing(r)' = Backing(r) /\ InteriorBase(r)' = InteriorBase(r)
  BY SpeaksOn
<1>2. IsOpened(rows[r])' = IsOpened(rows[r])
  BY DEF IsOpened
<1> QED BY <1>1, <1>2 DEF CurrentAt, SameRecord

\* A step that mints nothing leaves alone the members of rows it does not kill.
LEMMA MineStays ==
  ASSUME TypeOK, TypeOK', RowIds' = RowIds, NEW r \in RowIds,
         \A x \in RowIds : SameRecord(x),
         \A x \in RowIds : rows[x].parent = r => rows'[x].dead = rows[x].dead
  PROVE  Mine(r)' = Mine(r) /\ \A x \in Mine(r) : SameRecord(x)
<1>1. /\ Members(r) \subseteq RowIds
      /\ \A x \in RowIds : x \in Members(r) <=> ~rows[x].dead /\ rows[x].parent = r
  BY MembersAre
<1>2. /\ Members(r)' \subseteq RowIds
      /\ \A x \in RowIds : x \in Members(r)' <=> ~rows'[x].dead /\ rows'[x].parent = r
  BY SMTT(60) DEF TypeOK, Members, RowIds, Live
<1> QED BY <1>1, <1>2 DEF Mine, SameRecord

----------------------------------------------------------------------------
(* Each step.                                                              *)

\* A step that writes neither an edit, a slot nor a death.
LEMMA StillInteriors ==
  ASSUME IInv, IInv', Interiors, StoreKept, RowIds' = RowIds, orphans' = orphans,
         \A x \in RowIds : SameRecord(x) /\ SameState(x),
         \A x \in RowIds : rows'[x].own_hist => rows[x].own_hist \/ ~rows[x].authored,
         \A i \in 1..Len(log') : log'[i].row \in RowIds /\ ~rows[log'[i].row].authored,
         pc' # "idle" => job'.row \in RowIds /\ ~rows[job'.row].authored
  PROVE  Interiors'
<1>1. Tree' /\ Apart'
  BY DEF Interiors, Tree, Apart, SameRecord, SameState, IsOpened
<1>2. Browsed'
  <2>1. ASSUME NEW r \in RowIds
        PROVE  /\ rows'[r].authored => rows'[r].edit = Intact /\ ~rows'[r].own_hist
               /\ ~rows'[r].dead /\ rows'[r].parent # None /\ r \notin orphans' =>
                    rows'[r].authored = UnderAuthored(rows[r].parent)'
    <3>1. rows'[r].authored => rows'[r].edit = Intact /\ ~rows'[r].own_hist
      BY DEF Interiors, Browsed, SameRecord, SameState
    <3>2. ASSUME ~rows'[r].dead, rows'[r].parent # None, r \notin orphans'
          PROVE  rows'[r].authored = UnderAuthored(rows[r].parent)'
      <4> DEFINE p == rows[r].parent
      <4>1. p \in RowIds /\ rows'[r].parent = p
        BY <3>2, RowFacts DEF IInv, RowIds, None, SameRecord
      <4>2. UnderAuthored(p)' = UnderAuthored(p)
        BY <4>1 DEF UnderAuthored, Effective, SameRecord, SameState
      <4> QED BY <3>2, <4>1, <4>2 DEF Interiors, Browsed, SameRecord, SameState, Live
    <3> QED BY <3>1, <3>2
  <2>2. \A i \in 1..Len(log') : ~rows'[log'[i].row].authored
    BY DEF SameRecord
  <2>3. pc' # "idle" => ~rows'[job'.row].authored
    BY DEF SameRecord
  <2> QED BY <2>1, <2>2, <2>3 DEF Browsed, Live
<1>3. Strays'
  <2> SUFFICES ASSUME NEW x \in orphans
               PROVE  /\ ~rows'[x].dead /\ rows'[x].parent # None
                      /\ ~(~rows'[rows'[x].parent].dead /\ IsOpened(rows'[rows'[x].parent]))
    BY DEF Strays, Live
  <2>1. x \in RowIds /\ Live(x) /\ rows[x].parent # None
    BY DEF IInv, TypeOK, Interiors, Strays
  <2>2. rows[x].parent \in RowIds
    BY <2>1, RowFacts DEF IInv, RowIds, None
  <2> QED BY <2>1, <2>2 DEF Interiors, Strays, Live, SameRecord, SameState, IsOpened
<1>4. Current'
  <2> SUFFICES ASSUME NEW r \in RowIds, ~rows'[r].dead PROVE CurrentAt(r)'
    BY DEF Current, Live
  <2>1. CurrentAt(r)
    BY DEF Interiors, Current, Live, SameState
  <2>2. Mine(r)' = Mine(r) /\ \A x \in Mine(r) : SameRecord(x)
    BY MineStays DEF IInv, SameState
  <2> QED BY <2>1, <2>2, StaysCurrent DEF SameState
<1> QED BY <1>1, <1>2, <1>3, <1>4 DEF Interiors

LEMMA WriteInteriors ==
  ASSUME IInv, IInv', Interiors, WriteState PROVE Interiors'
<1> DEFINE r == job.row
           flips == Flips(rows[r].edit, job.to)
<1>1. /\ WritesEdit /\ r \in RowIds /\ RowIds' = RowIds /\ StoreKept /\ TypeOK
      /\ \A x \in RowIds : SameRecord(x)
      /\ log' = log /\ pc = "write" /\ job'.row = r /\ orphans = {}
      /\ orphans' = IF flips /\ IsOpened(rows[r]) THEN Members(r) ELSE {}
  <2>1. TypeOK /\ job \in JobsOf(Len(rows), Len(store))
    BY DEF IInv, TypeOK
  <2>2. job'.row = r
    BY <2>1 DEF WriteState, JobsOf
  <2> QED BY <2>1, <2>2, WriteEffect DEF WriteState, WritesEdit, StoreKept, IInv, Busy, Orphaned
<1>2. ASSUME NEW x \in RowIds
      PROVE  /\ rows'[x].dead = rows[x].dead /\ rows'[x].own_hist = rows[x].own_hist
             /\ rows'[x].edit = IF x = r THEN job.to ELSE rows[x].edit
             /\ rows'[x].slot = IF x = r /\ flips THEN Unopened ELSE rows[x].slot
             /\ IsOpened(rows'[x]) => IsOpened(rows[x]) /\ rows'[x].slot = rows[x].slot
  BY <1>1 DEF WritesEdit, IsOpened, Unopened
<1>3. ~rows[r].authored
  BY <1>1 DEF Interiors, Browsed
<1>4. Tree' /\ Apart'
  BY <1>1, <1>2 DEF Interiors, Tree, Apart, SameRecord
\* What hangs from r was not reached by an earlier walk, and r showed it.
<1>5. \A x \in RowIds : Live(x) /\ rows[x].parent = r => IsOpened(rows[r]) /\ x \in Members(r)
  <2>1. r # None
    BY <1>1 DEF RowIds, None
  <2> QED BY <1>1, <2>1, MembersAre DEF IInv, Held, Live
<1>6. Browsed'
  <2>1. ASSUME NEW x \in RowIds
        PROVE  /\ rows'[x].authored => rows'[x].edit = Intact /\ ~rows'[x].own_hist
               /\ ~rows'[x].dead /\ rows'[x].parent # None /\ x \notin orphans' =>
                    rows'[x].authored = UnderAuthored(rows[x].parent)'
    <3>1. rows'[x].authored => rows'[x].edit = Intact /\ ~rows'[x].own_hist
      BY <1>1, <1>2, <1>3 DEF Interiors, Browsed, SameRecord
    <3>2. ASSUME ~rows'[x].dead, rows'[x].parent # None, x \notin orphans'
          PROVE  rows'[x].authored = UnderAuthored(rows[x].parent)'
      <4> DEFINE p == rows[x].parent
      <4>1. p \in RowIds /\ rows'[x].parent = p /\ p # None /\ Live(x)
        BY <1>1, <1>2, <3>2, RowFacts DEF IInv, RowIds, None, SameRecord, Live
      <4>2. p = r => ~flips
        BY <1>1, <1>5, <3>2, <4>1
      <4>3. UnderAuthored(p)' = UnderAuthored(p)
        BY SMTT(60), <1>1, <1>2, <4>1, <4>2 DEF UnderAuthored, Effective, Flips, SameRecord
      <4> QED BY <1>1, <4>1, <4>3 DEF Interiors, Browsed, SameRecord
    <3> QED BY <3>1, <3>2
  <2>2. \A i \in 1..Len(log') : ~rows'[log'[i].row].authored
    <3> SUFFICES ASSUME NEW i \in 1..Len(log) PROVE ~rows'[log[i].row].authored
      BY <1>1
    <3>1. log[i] \in EntriesIn(Len(rows), Len(store))
      BY <1>1 DEF TypeOK
    <3>2. log[i].row \in RowIds
      BY <3>1 DEF EntriesIn, RowIds
    <3> QED BY <1>1, <3>2 DEF Interiors, Browsed, SameRecord
  <2>3. ~rows'[job'.row].authored
    BY <1>1, <1>3 DEF SameRecord
  <2> QED BY <1>1, <2>1, <2>2, <2>3 DEF Browsed, Live
<1>7. Strays'
  <2> SUFFICES ASSUME NEW x \in Members(r), flips, orphans' = Members(r)
               PROVE  /\ ~rows'[x].dead /\ rows'[x].parent # None
                      /\ ~(~rows'[rows'[x].parent].dead /\ IsOpened(rows'[rows'[x].parent]))
    BY <1>1 DEF Strays, Live
  <2>1. x \in RowIds /\ ~rows[x].dead /\ rows[x].parent = r /\ r # None
    BY <1>1, MembersAre DEF RowIds, None
  <2>2. ~IsOpened(rows'[r])
    BY <1>1, <1>2 DEF IsOpened, Unopened
  <2> QED BY <1>1, <1>2, <2>1, <2>2 DEF SameRecord
<1>8. Current'
  <2> SUFFICES ASSUME NEW x \in RowIds, ~rows'[x].dead PROVE CurrentAt(x)'
    BY <1>1 DEF Current, Live
  <2>1. CurrentAt(x)
    BY <1>2 DEF Interiors, Current, Live
  <2>2. CASE x = r /\ flips
    <3>1. rows'[x].slot = Unopened
      BY <1>2, <2>2
    <3> QED BY <3>1 DEF CurrentAt, IsOpened, Unopened
  <2>3. CASE ~(x = r /\ flips)
    <3>1. rows'[x].slot = rows[x].slot /\ rows'[x].edit.v = rows[x].edit.v
      BY <1>2, <2>3 DEF Flips, Effective
    <3>2. Mine(x)' = Mine(x) /\ \A y \in Mine(x) : SameRecord(y)
      BY <1>1, <1>2, MineStays DEF IInv
    <3> QED BY <1>1, <2>1, <3>1, <3>2, StaysCurrent
  <2> QED BY <2>2, <2>3
<1> QED BY SMTT(60), <1>4, <1>6, <1>7, <1>8 DEF Interiors

LEMMA WalkInteriors ==
  ASSUME IInv, IInv', Interiors, OrphanWalk PROVE Interiors'
<1>1. /\ WritesDead /\ RowIds' = RowIds /\ StoreKept /\ TypeOK /\ orphans \subseteq RowIds
      /\ \A x \in RowIds : SameRecord(x)
      /\ log' = log /\ pc = "orphan" /\ job' = job /\ job.row \in RowIds
      /\ orphans' = Deeper(orphans)
  BY WalkEffect DEF OrphanWalk, WritesDead, StoreKept, IInv, Busy, TypeOK
<1>2. ASSUME NEW x \in RowIds
      PROVE  /\ rows'[x].edit = rows[x].edit /\ rows'[x].slot = rows[x].slot
             /\ rows'[x].own_hist = rows[x].own_hist
             /\ rows'[x].dead = IF x \in orphans THEN TRUE ELSE rows[x].dead
  BY <1>1 DEF WritesDead
\* The next generation: members of an opened row that has just died.
<1>3. ASSUME NEW x \in orphans'
      PROVE  /\ x \in RowIds /\ Live(x) /\ x \notin orphans
             /\ rows[x].parent \in orphans /\ rows[x].parent # None
  <2>1. PICK r \in orphans : IsOpened(rows[r]) /\ x \in Members(r)
    BY <1>1, <1>3 DEF Deeper
  <2>2. r \in RowIds /\ r # None /\ x \in RowIds /\ ~rows[x].dead /\ rows[x].parent = r
    BY <1>1, <2>1, MembersAre DEF RowIds, None
  <2>3. ~rows[r].dead
    BY DEF Interiors, Strays, Live
  <2>4. ~(x \in orphans)
    BY <2>1, <2>2, <2>3 DEF Interiors, Strays, Live
  <2> QED BY <2>1, <2>2, <2>4 DEF Live
<1>4. Tree' /\ Apart'
  <2>1. Tree'
    BY ZenonT(60), <1>1, <1>2 DEF Interiors, Tree, SameRecord, IsOpened
  <2>2. Apart'
    <3>1. \A x \in RowIds : rows'[x].slot = rows[x].slot
      BY <1>2
    <3> QED BY <1>1, <3>1 DEF Interiors, Apart, IsOpened
  <2> QED BY <2>1, <2>2
<1>5. Browsed'
  <2>1. ASSUME NEW x \in RowIds
        PROVE  /\ rows'[x].authored => rows'[x].edit = Intact /\ ~rows'[x].own_hist
               /\ ~rows'[x].dead /\ rows'[x].parent # None =>
                    rows'[x].authored = UnderAuthored(rows[x].parent)'
    <3>1. rows'[x].authored => rows'[x].edit = Intact /\ ~rows'[x].own_hist
      BY ZenonT(60), <1>1, <1>2 DEF Interiors, Browsed, SameRecord
    <3>2. ASSUME ~rows'[x].dead, rows'[x].parent # None
          PROVE  rows'[x].authored = UnderAuthored(rows[x].parent)'
      <4> DEFINE p == rows[x].parent
      <4>1. p \in RowIds /\ p # None /\ Live(x) /\ x \notin orphans
        <5>1. ~rows[x].dead /\ x \notin orphans
          BY <1>2, <3>2
        <5>2. p # None
          BY <1>1, <3>2 DEF SameRecord
        <5> QED BY <1>1, <5>1, <5>2, RowFacts DEF RowIds, None, Live
      <4>2. UnderAuthored(p)' = UnderAuthored(p)
        BY ZenonT(60), <1>1, <1>2, <4>1 DEF UnderAuthored, Effective, SameRecord
      <4> QED BY <1>1, <4>1, <4>2 DEF Interiors, Browsed, SameRecord
    <3> QED BY <3>1, <3>2
  <2>2. \A i \in 1..Len(log') : ~rows'[log'[i].row].authored
    <3> SUFFICES ASSUME NEW i \in 1..Len(log) PROVE ~rows'[log[i].row].authored
      BY <1>1
    <3>1. log[i] \in EntriesIn(Len(rows), Len(store))
      BY <1>1 DEF TypeOK
    <3>2. log[i].row \in RowIds
      BY <3>1 DEF EntriesIn, RowIds
    <3> QED BY <1>1, <3>2 DEF Interiors, Browsed, SameRecord
  <2>3. ~rows'[job'.row].authored
    BY <1>1 DEF Interiors, Browsed, SameRecord
  <2> QED BY <1>1, <2>1, <2>2, <2>3 DEF Browsed, Live, SameRecord
<1>6. Strays'
  <2> SUFFICES ASSUME NEW x \in orphans'
               PROVE  /\ ~rows'[x].dead /\ rows'[x].parent # None
                      /\ rows'[rows'[x].parent].dead
    BY DEF Strays, Live
  <2>1. x \in RowIds /\ Live(x) /\ x \notin orphans /\ rows[x].parent # None
    BY <1>3
  <2>2. rows[x].parent \in RowIds /\ rows[x].parent \in orphans
    BY <1>1, <1>3
  <2>3. rows'[x].parent = rows[x].parent
    BY <1>1, <2>1 DEF SameRecord
  <2> QED BY <1>2, <2>1, <2>2, <2>3 DEF Live
<1>7. Current'
  <2> SUFFICES ASSUME NEW r \in RowIds, ~rows'[r].dead PROVE CurrentAt(r)'
    BY <1>1 DEF Current, Live
  <2>1. Live(r) /\ CurrentAt(r)
    BY <1>2 DEF Interiors, Current, Live
  <2>2. ASSUME IsOpened(rows[r]), NEW x \in RowIds, rows[x].parent = r
        PROVE  rows'[x].dead = rows[x].dead
    <3>1. x \notin orphans
      BY <2>1, <2>2 DEF Interiors, Strays
    <3> QED BY <1>2, <2>2, <3>1
  <2>3. IsOpened(rows[r]) => Mine(r)' = Mine(r) /\ \A x \in Mine(r) : SameRecord(x)
    BY <1>1, <2>2, MineStays DEF IInv
  <2> QED BY <1>1, <1>2, <2>1, <2>3, StaysCurrent
<1> QED BY <1>4, <1>5, <1>6, <1>7 DEF Interiors

\* A step that writes one slot, and may mint rows after the old ones.
LEMMA SlotInteriors ==
  ASSUME IInv, IInv', Interiors, pc = "idle", StoreKept,
         NEW r \in 0..Len(rows), NEW slot, NEW k \in Nat, WritesSlot(r, slot, k),
         IsOpened([slot |-> slot]) =>
           rows[r].kind = "Len" /\ slot.layer = Len(layers) + 1,
         \A x \in RowIds' : x \notin RowIds =>
           /\ rows'[x].slot = Unopened
           /\ rows'[x].authored => rows'[x].edit = Intact /\ ~rows'[x].own_hist
           /\ rows'[x].parent \in 0..Len(rows)
           /\ rows'[x].parent # None => rows'[x].authored = UnderAuthored(rows'[x].parent)
           /\ rows'[x].at = -1 \/ rows'[x].parent = r,
         r # None => CurrentAt(r)',
         \A i \in 1..Len(log') : ~rows'[log'[i].row].authored,
         pc' # "idle" => ~rows'[job'.row].authored
  PROVE  Interiors'
<1>1. /\ TypeOK /\ orphans = {} /\ orphans' = {} /\ Len(layers) \in Nat /\ Len(layers) > 0
      /\ RowIds = 1..Len(rows) /\ RowIds' = 1..(Len(rows) + k) /\ Len(rows) \in Nat
      /\ \A x \in RowIds : SameRecord(x) /\ x \in RowIds' /\ x # None
      /\ \A x \in RowIds' : x \notin RowIds => x > Len(rows)
  BY SMTT(60) DEF IInv, Busy, TypeOK, WritesSlot, None, RowIds
<1>2. ASSUME NEW x \in RowIds
      PROVE  /\ rows'[x].edit = rows[x].edit /\ rows'[x].dead = rows[x].dead
             /\ rows'[x].own_hist = rows[x].own_hist
             /\ rows'[x].slot = IF x = r THEN slot ELSE rows[x].slot
  BY DEF WritesSlot
<1>3. ASSUME NEW x \in RowIds'
      PROVE  /\ IsOpened(rows'[x]) =>
                  /\ x \in RowIds
                  /\ x = r => rows[r].kind = "Len" /\ rows'[x].slot.layer = Len(layers) + 1
                  /\ x # r => IsOpened(rows[x]) /\ rows'[x].slot.layer = rows[x].slot.layer
                              /\ rows[x].slot.layer \in 1..Len(layers)
             /\ rows'[x].parent < x
  <2>1. CASE x \in RowIds
    BY ZenonT(60), <1>1, <1>2, <2>1, RowFacts DEF IsOpened, Interiors, Tree, SameRecord
  <2>2. CASE x \notin RowIds
    BY <1>1, <2>2 DEF IsOpened, Unopened
  <2> QED BY <2>1, <2>2
<1>4. Tree' /\ Apart'
  <2>1. Tree'
    <3> SUFFICES ASSUME NEW x \in RowIds', IsOpened(rows'[x])
                 PROVE  rows'[x].kind = "Len" /\ rows'[x].slot.layer # Root
      BY <1>3 DEF Tree
    <3> QED BY SMTT(60), <1>1, <1>3 DEF Interiors, Tree, SameRecord, Root
  <2>2. Apart'
    <3> SUFFICES ASSUME NEW x \in RowIds', NEW y \in RowIds', IsOpened(rows'[x]),
                        IsOpened(rows'[y]), rows'[x].slot.layer = rows'[y].slot.layer
                 PROVE  x = y
      BY DEF Apart
    <3> QED BY <1>1, <1>3 DEF Interiors, Apart
  <2> QED BY <2>1, <2>2
<1>5. ASSUME NEW p \in RowIds PROVE UnderAuthored(p)' = UnderAuthored(p)
  BY <1>1, <1>2 DEF UnderAuthored, Effective, SameRecord
<1>6. Browsed'
  <2>1. ASSUME NEW x \in RowIds'
        PROVE  /\ rows'[x].authored => rows'[x].edit = Intact /\ ~rows'[x].own_hist
               /\ ~rows'[x].dead /\ rows'[x].parent # None =>
                    \E p \in RowIds : p = rows'[x].parent
                                      /\ rows'[x].authored = UnderAuthored(p)'
    <3>1. CASE x \in RowIds
      <4>1. rows[x].parent # None => rows[x].parent \in RowIds
        BY <1>1, <3>1, RowFacts DEF None
      <4> QED BY SMTT(60), <1>1, <1>2, <1>5, <3>1, <4>1 DEF Interiors, Browsed, SameRecord, Live
    <3>2. CASE x \notin RowIds
      BY <1>1, <1>5, <3>2 DEF None
    <3> QED BY <3>1, <3>2
  <2> QED BY <2>1 DEF Browsed, Live
<1>7. Strays'
  BY <1>1 DEF Strays
<1>8. Current'
  <2> SUFFICES ASSUME NEW x \in RowIds', ~rows'[x].dead PROVE CurrentAt(x)'
    BY DEF Current, Live
  <2>1. CASE x \notin RowIds
    BY <2>1 DEF CurrentAt, IsOpened, Unopened
  <2>2. CASE x = r
    BY <1>1, <2>1, <2>2 DEF None
  <2>3. CASE x \in RowIds /\ x # r
    <3>1. rows'[x].slot = rows[x].slot /\ CurrentAt(x)
      BY <1>2, <2>3 DEF Interiors, Current, Live
    <3>2. /\ Mine(x) \subseteq RowIds
          /\ \A y \in RowIds :
               y \in Mine(x) <=> ~rows[y].dead /\ rows[y].parent = x /\ rows[y].at >= 0
      BY <1>1, MembersAre DEF Mine
    <3>3. /\ Mine(x)' \subseteq RowIds'
          /\ \A y \in RowIds' :
               y \in Mine(x)' <=> ~rows'[y].dead /\ rows'[y].parent = x /\ rows'[y].at >= 0
      BY SMTT(60) DEF IInv, TypeOK, Members, RowIds, Live, Mine
    <3>4. \A y \in RowIds' : y \notin RowIds => ~(rows'[y].parent = x /\ rows'[y].at >= 0)
      BY <2>3
    <3>5. Mine(x)' = Mine(x) /\ \A y \in Mine(x) : SameRecord(y)
      <4>1. ASSUME NEW y \in RowIds PROVE y \in Mine(x)' <=> y \in Mine(x)
        BY SMTT(60), <1>1, <1>2, <3>2, <3>3 DEF SameRecord
      <4>2. Mine(x)' \subseteq RowIds
        BY <3>3, <3>4
      <4> QED BY <1>1, <3>2, <4>1, <4>2
    <3> QED BY <1>1, <1>2, <2>3, <3>1, <3>5, StaysCurrent
  <2> QED BY <2>1, <2>2, <2>3
<1> QED BY <1>4, <1>6, <1>7, <1>8 DEF Interiors

LEMMA FaultInteriors ==
  ASSUME IInv, IInv', Interiors, NEW r \in RowIds, DescendFaults(r) PROVE Interiors'
<1>1. /\ pc = "idle" /\ Scanned[Backing(r)] = Broken
      /\ StoreKept /\ log' = log /\ pc' = pc /\ job' = job
  BY DEF DescendFaults, Descendable, StoreKept
<1>2. /\ WritesSlot(r, FaultSlot, 0) /\ RowIds = 1..Len(rows) /\ RowIds' = 1..(Len(rows) + 0)
      /\ Len(rows) \in Nat /\ TypeOK
  BY FaultEffect DEF IInv, WritesSlot
<1>3. RowIds' = RowIds /\ r \in 0..Len(rows) /\ ~IsOpened([slot |-> FaultSlot])
  BY <1>2 DEF IsOpened, FaultSlot
<1>4. CurrentAt(r)'
  <2>1. SameRecord(r) /\ rows'[r].edit = rows[r].edit /\ rows'[r].slot = FaultSlot
    BY <1>2 DEF WritesSlot
  <2>2. Backing(r)' = Backing(r)
    BY <1>1, <2>1, SpeaksOn
  <2> QED BY <1>1, <2>1, <2>2 DEF CurrentAt, IsOpened, FaultSlot
<1>5. \A i \in 1..Len(log') : ~rows'[log'[i].row].authored
  <2> SUFFICES ASSUME NEW i \in 1..Len(log) PROVE ~rows'[log[i].row].authored
    BY <1>1
  <2>1. log[i] \in EntriesIn(Len(rows), Len(store))
    BY <1>2 DEF TypeOK
  <2>2. log[i].row \in RowIds
    BY <2>1 DEF EntriesIn, RowIds
  <2> QED BY <1>2, <2>2 DEF Interiors, Browsed, WritesSlot, SameRecord
<1>6. 0 \in Nat
  OBVIOUS
<1> QED BY <1>1, <1>2, <1>3, <1>4, <1>5, <1>6, SlotInteriors

LEMMA IntervalSize ==
  ASSUME NEW n \in Nat, NEW k \in Nat PROVE Cardinality((n + 1)..(n + k)) = k
<1> DEFINE a == n + 1
           b == n + k
<1>1. a \in Int /\ b \in Int /\ (IF a > b THEN 0 ELSE b - a + 1) = k
  OBVIOUS
<1> HIDE DEF a, b
<1>2. Cardinality(a..b) = k
  BY <1>1, FS_Interval
<1> QED BY <1>2 DEF a, b

LEMMA OpenInteriors ==
  ASSUME IInv, IInv', Interiors, NEW r \in RowIds, DescendOpens(r) PROVE Interiors'
<1> DEFINE recs == Scanned[Backing(r)]
           n == Len(rows)
           k == Len(recs)
           nl == Len(layers)
           base == InteriorBase(r)
           auth == UnderAuthored(r)
<1>1. /\ pc = "idle" /\ recs # Broken /\ orphans = {}
      /\ StoreKept /\ log' = log /\ pc' = pc /\ job' = job
      /\ rows[r].kind = "Len" /\ Live(r) /\ rows[r].slot = Unopened
  BY DEF DescendOpens, Descendable, StoreKept, IInv, Busy
<1>2. /\ recs \in Seq(Records) /\ base \in Nat /\ auth \in BOOLEAN
      /\ WritesSlot(r, Opened(nl + 1), k)
      /\ \A x \in RowIds' : x \notin RowIds =>
           x - n \in 1..k /\ MintedFrom(rows'[x], recs[x - n], base, r, auth)
  BY OpenEffect
<1>3. /\ k \in Nat /\ n \in Nat /\ RowIds = 1..n /\ RowIds' = 1..(n + k) /\ r \in 0..n
      /\ r # None /\ TypeOK
  <2>1. k \in Nat
    <3> HIDE DEF recs
    <3> QED BY <1>2
  <2> QED BY <1>2, <2>1 DEF WritesSlot, None, IInv
<1> HIDE DEF recs, k, base, auth, n, nl
<1>4. /\ SameRecord(r) /\ rows'[r].edit = rows[r].edit /\ rows'[r].slot = Opened(nl + 1)
      /\ rows'[r].dead = rows[r].dead
  BY <1>2 DEF WritesSlot
<1>5. Backing(r)' = Backing(r) /\ InteriorBase(r)' = InteriorBase(r)
  BY <1>1, <1>4, SpeaksOn
\* The new rows are all that hangs from r: it had shown nothing before.
<1>6. Mine(r)' = (n + 1)..(n + k)
  <2>1. /\ Mine(r)' \subseteq RowIds'
        /\ \A y \in RowIds' :
             y \in Mine(r)' <=> ~rows'[y].dead /\ rows'[y].parent = r /\ rows'[y].at >= 0
    BY SMTT(60) DEF IInv, TypeOK, Members, RowIds, Live, Mine
  <2>2. ASSUME NEW y \in RowIds PROVE y \notin Mine(r)'
    <3>1. rows[y].parent = r => ~Live(y)
      BY <1>1, <1>3 DEF IInv, Held, IsOpened, Unopened
    <3>2. rows'[y].parent = rows[y].parent /\ rows'[y].dead = rows[y].dead /\ y \in RowIds'
      BY <1>2 DEF WritesSlot, SameRecord
    <3> QED BY <2>1, <3>1, <3>2 DEF Live
  <2>3. ASSUME NEW y \in RowIds', y \notin RowIds PROVE y \in Mine(r)'
    <3>1. y - n \in 1..k /\ MintedFrom(rows'[y], recs[y - n], base, r, auth)
      BY <1>2, <2>3
    <3>2. recs[y - n] \in Records
      BY <1>2, <3>1 DEF k
    <3>3. base + recs[y - n].at >= 0
      BY <1>2, <3>2 DEF Records
    <3> QED BY <2>1, <2>3, <3>1, <3>3 DEF MintedFrom, Fresh
  <2>4. (n + 1)..(n + k) = RowIds' \ RowIds
    BY <1>3
  <2> QED BY <2>1, <2>2, <2>3, <2>4
<1>7. CurrentAt(r)'
  <2>1. Cardinality(Mine(r)') = k
    BY <1>3, <1>6, IntervalSize
  <2>2. ASSUME NEW x \in Mine(r)'
        PROVE  \E i \in 1..k : rows'[x].at = base + recs[i].at /\ rows'[x].body = recs[i].body
    <3>1. x \in RowIds' /\ x \notin RowIds
      BY <1>3, <1>6, <2>2
    <3> QED BY <1>2, <3>1 DEF MintedFrom
  <2> QED BY <1>1, <1>4, <1>5, <2>1, <2>2 DEF CurrentAt, IsOpened, Opened, recs, k, base
<1>8. \A x \in RowIds' : x \notin RowIds =>
        /\ rows'[x].slot = Unopened
        /\ rows'[x].authored => rows'[x].edit = Intact /\ ~rows'[x].own_hist
        /\ rows'[x].parent \in 0..Len(rows)
        /\ rows'[x].parent # None => rows'[x].authored = UnderAuthored(rows'[x].parent)
        /\ rows'[x].at = -1 \/ rows'[x].parent = r
  BY <1>2, <1>3 DEF MintedFrom, Fresh, auth, n
<1>9. \A i \in 1..Len(log') : ~rows'[log'[i].row].authored
  <2> SUFFICES ASSUME NEW i \in 1..Len(log) PROVE ~rows'[log[i].row].authored
    BY <1>1
  <2>1. log[i] \in EntriesIn(Len(rows), Len(store))
    BY <1>3 DEF TypeOK
  <2>2. log[i].row \in RowIds
    BY <2>1 DEF EntriesIn, RowIds
  <2> QED BY SMTT(60), <1>2, <2>2 DEF Interiors, Browsed, WritesSlot, SameRecord
<1>10. IsOpened([slot |-> Opened(nl + 1)]) =>
         rows[r].kind = "Len" /\ Opened(nl + 1).layer = Len(layers) + 1
  BY <1>1 DEF Opened, nl
<1>11. r \in 0..Len(rows)
  BY <1>3 DEF n
<1> QED BY <1>1, <1>2, <1>3, <1>7, <1>8, <1>9, <1>10, <1>11, SlotInteriors

LEMMA InsertInteriors ==
  ASSUME IInv, IInv', Interiors, NEW kind \in Kinds, NEW p \in 0..Len(rows),
         NEW prev \in 0..Len(rows), p # None => IsOpened(rows[p]) /\ ~UnderAuthored(p),
         Insert(kind, p, prev)
  PROVE  Interiors'
<1> DEFINE n == Len(rows)
           r == n + 1
           v == Len(store) + 1
<1>1. pc = "idle" /\ TypeOK /\ StoreKept /\ Len(rows) \in Nat
  <2>1. StoreGrows
    BY DEF Insert, StoreGrows
  <2> QED BY SMTT(60), <2>1, StoreFacts DEF Insert, Authoring, Room, IInv, TypeOK, StoreKept
<1>2. /\ WritesSlot(None, Unopened, 1) /\ r \in RowIds'
      /\ \A x \in RowIds' : x \notin RowIds => x = r
      /\ InsertedInto(rows'[r], kind, p, v)
      /\ log' = Append(log, [row |-> r, from |-> InsertedDeleted(v), fresh |-> TRUE])
      /\ job' = [row |-> r, to |-> Inserted(v), way |-> "raise"]
  BY InsertEffect
<1> HIDE DEF n, r, v
<1>3. \A x \in RowIds' : x \notin RowIds =>
        /\ rows'[x].slot = Unopened
        /\ rows'[x].authored => rows'[x].edit = Intact /\ ~rows'[x].own_hist
        /\ rows'[x].parent \in 0..Len(rows)
        /\ rows'[x].parent # None => rows'[x].authored = UnderAuthored(rows'[x].parent)
        /\ rows'[x].at = -1 \/ rows'[x].parent = None
  <2> SUFFICES /\ rows'[r].slot = Unopened
               /\ ~rows'[r].authored
               /\ rows'[r].parent \in 0..Len(rows)
               /\ rows'[r].parent # None => rows'[r].authored = UnderAuthored(rows'[r].parent)
               /\ rows'[r].at = -1
    BY <1>2
  <2>1. rows'[r].slot = Unopened /\ ~rows'[r].authored /\ rows'[r].parent = p /\ rows'[r].at = -1
    BY <1>2 DEF InsertedInto, Fresh
  <2>2. rows'[r].authored \in BOOLEAN
    <3>1. rows'[r] \in RowsOf(Len(rows'), Len(layers'), Len(store'))
      BY SMTT(60), <1>2 DEF IInv, TypeOK, RowIds
    <3> QED BY <3>1 DEF RowsOf
  <2>3. p # None => UnderAuthored(p) = FALSE
    BY DEF UnderAuthored
  <2> QED BY <2>1, <2>2, <2>3
<1>4. \A i \in 1..Len(log') : ~rows'[log'[i].row].authored
  <2> SUFFICES ASSUME NEW i \in 1..Len(log') PROVE ~rows'[log'[i].row].authored
    OBVIOUS
  <2>1. log \in Seq(EntriesIn(Len(rows), Len(store)))
    BY <1>1 DEF TypeOK
  <2>2. CASE i \in 1..Len(log)
    <3>1. log'[i] = log[i] /\ log[i] \in EntriesIn(Len(rows), Len(store))
      BY <1>2, <2>1, <2>2
    <3>2. log[i].row \in RowIds
      BY <3>1 DEF EntriesIn, RowIds
    <3> QED BY ZenonT(60), <1>2, <2>2, <3>1, <3>2 DEF Interiors, Browsed, WritesSlot, SameRecord
  <2>3. CASE i \notin 1..Len(log)
    <3>1. log'[i].row = r
      BY <1>2, <2>1, <2>3
    <3> QED BY <1>2, <3>1 DEF InsertedInto
  <2> QED BY <2>2, <2>3
<1>5. ~rows'[job'.row].authored
  BY <1>2 DEF InsertedInto
<1>6. None \in 0..Len(rows) /\ ~IsOpened([slot |-> Unopened]) /\ 1 \in Nat
  BY <1>1 DEF None, IsOpened, Unopened
<1> QED BY <1>1, <1>2, <1>3, <1>4, <1>5, <1>6, SlotInteriors

----------------------------------------------------------------------------
(* The theorems.                                                           *)

LEMMA InitInteriors == Init => Interiors
<1> SUFFICES ASSUME Init PROVE Interiors
  OBVIOUS
<1> DEFINE recs == Scanned[Source]
<1>1. recs \in Seq(Records) /\ TypeOK
  BY ReviseAssumption, InitInvariant DEF IInv
<1>2. /\ rows = Minted(recs, 0, None, 1, FALSE) /\ log = << >> /\ pc = "idle" /\ orphans = {}
  BY DEF Init
<1> HIDE DEF recs
<1>3. ASSUME NEW r \in RowIds
      PROVE  /\ rows[r].parent = None /\ r \in Nat /\ r > 0 /\ rows[r].slot = Unopened
             /\ rows[r].authored = FALSE
  <2> DEFINE row(i) == ScannedRow(recs[i], 0, None, IF i = Len(recs) THEN None ELSE 1 + i, FALSE)
  <2>1. rows = [i \in 1..Len(recs) |-> row(i)]
    BY <1>2 DEF Minted
  <2>2. DOMAIN rows = 1..Len(rows) /\ Len(rows) \in Nat
    BY <1>1 DEF TypeOK
  <2>3. r \in 1..Len(recs) /\ r \in Nat /\ r > 0
    <3> HIDE DEF row
    <3> QED BY <2>1, <2>2 DEF RowIds
  <2>4. rows[r] = row(r)
    <3> HIDE DEF row
    <3> QED BY <2>1, <2>3
  <2> QED BY <2>3, <2>4 DEF ScannedRow
<1>a. \A r \in RowIds : ~IsOpened(rows[r]) /\ rows[r].slot.k = "Unopened"
  <2>1. Unopened.k = "Unopened"
    BY DEF Unopened
  <2>2. \A r \in RowIds : rows[r].slot = Unopened
    BY <1>3
  <2> QED BY <2>1, <2>2 DEF IsOpened
<1>4. Tree /\ Apart
  <2>1. \A r \in RowIds : rows[r].parent < r
    BY <1>3 DEF None
  <2> QED BY <1>a, <2>1 DEF Tree, Apart
<1>5. Browsed
  <2>1. \A i \in 1..Len(log) : FALSE
    BY <1>2
  <2> QED BY <1>2, <1>3, <2>1 DEF Browsed
<1>6. Strays /\ Current
  BY <1>2, <1>a DEF Strays, Current, CurrentAt
<1> QED BY <1>4, <1>5, <1>6 DEF Interiors

\* The row a command names, or an entry the last command left.
LEMMA EditInteriors ==
  ASSUME IInv, IInv', Interiors, NEW r \in RowIds,
         SetScalar(r) \/ SetPayload(r) \/ Delete(r) \/ Undelete(r) \/ ClearEdit(r)
  PROVE  Interiors'
<1>1. PICK to : ApplyEdit(r, to)
  BY DEF SetScalar, SetPayload, Delete, Undelete, ClearEdit
<1>2. ~rows[r].authored /\ TypeOK /\ StoreGrows
  BY DEF SetScalar, SetPayload, Delete, Undelete, ClearEdit, ValueGate, Editable, StoreGrows, IInv
<1>3. WritesHist(r, TRUE) /\ StoreKept
  BY <1>1, <1>2, ApplyEditEffect, StoreFacts DEF StoreKept
<1>4. \A i \in 1..Len(log') : log'[i].row \in RowIds /\ ~rows[log'[i].row].authored
  <2> SUFFICES ASSUME NEW i \in 1..Len(log')
               PROVE  log'[i].row \in RowIds /\ ~rows[log'[i].row].authored
    OBVIOUS
  <2>1. /\ log \in Seq(EntriesIn(Len(rows), Len(store)))
        /\ log' = Append(log, [row |-> r, from |-> StateBefore(rows[r]), fresh |-> ~rows[r].own_hist])
    BY <1>1, <1>2 DEF ApplyEdit, LogPush, TypeOK
  <2>2. CASE i \in 1..Len(log)
    <3>1. log'[i] = log[i] /\ log[i] \in EntriesIn(Len(rows), Len(store))
      BY <2>1, <2>2
    <3> QED BY <2>2, <3>1 DEF Interiors, Browsed, EntriesIn, RowIds
  <2>3. CASE i \notin 1..Len(log)
    <3>1. log'[i].row = r
      BY <2>1, <2>3
    <3> QED BY <1>2, <3>1
  <2> QED BY <2>2, <2>3
<1>5. job'.row = r
  BY <1>1 DEF ApplyEdit, LogPush
<1>6. /\ RowIds' = RowIds /\ orphans' = orphans
      /\ \A x \in RowIds : SameRecord(x) /\ SameState(x)
      /\ \A x \in RowIds : rows'[x].own_hist => rows[x].own_hist \/ ~rows[x].authored
  BY <1>2, <1>3 DEF WritesHist
<1> QED BY <1>2, <1>3, <1>4, <1>5, <1>6, StillInteriors

LEMMA RevertInteriors ==
  ASSUME IInv, IInv', Interiors, Revert PROVE Interiors'
<1> DEFINE r == LastEntry.row
           b == rows[r].own_hist /\ ~Releases(LastEntry)
<1>1. /\ log \in Seq(EntriesIn(Len(rows), Len(store))) /\ log # << >>
      /\ log' = SubSeq(log, 1, Len(log) - 1) /\ TypeOK
  BY DEF Revert, IInv, TypeOK
<1>2. /\ Len(log) \in 1..Len(log)
      /\ \A i \in 1..Len(log') : log'[i] = log[i] /\ i \in 1..Len(log)
  BY <1>1, PopFacts
<1>3. \A i \in 1..Len(log) : log[i].row \in RowIds /\ ~rows[log[i].row].authored
  <2> SUFFICES ASSUME NEW i \in 1..Len(log)
               PROVE  log[i].row \in RowIds /\ ~rows[log[i].row].authored
    OBVIOUS
  <2>1. log[i] \in EntriesIn(Len(rows), Len(store))
    BY <1>1
  <2> QED BY <2>1 DEF Interiors, Browsed, EntriesIn, RowIds
<1>4. r \in RowIds /\ ~rows[r].authored /\ job'.row = r
  BY <1>2, <1>3 DEF LastEntry, Revert
<1>5. WritesHist(r, b)
  <2>1. rows' = [rows EXCEPT ![r].own_hist = b] /\ layers' = layers /\ orphans' = orphans
    BY DEF Revert
  <2>2. b \in BOOLEAN
    OBVIOUS
  <2> HIDE DEF b, r
  <2> QED BY <1>1, <1>4, <2>1, <2>2, HistEffect
<1>6. /\ RowIds' = RowIds /\ orphans' = orphans
      /\ \A x \in RowIds : SameRecord(x) /\ SameState(x)
      /\ \A x \in RowIds : rows'[x].own_hist => rows[x].own_hist \/ ~rows[x].authored
  BY <1>4, <1>5 DEF WritesHist
<1>7. StoreKept
  BY DEF StoreKept, Revert
<1>8. \A i \in 1..Len(log') : log'[i].row \in RowIds /\ ~rows[log'[i].row].authored
  BY <1>2, <1>3
<1> QED BY <1>4, <1>6, <1>7, <1>8, StillInteriors

\* A log that stays names what it named.
LEMMA LogStays ==
  ASSUME IInv, Interiors, log' = log
  PROVE  \A i \in 1..Len(log') : log'[i].row \in RowIds /\ ~rows[log'[i].row].authored
<1> SUFFICES ASSUME NEW i \in 1..Len(log) PROVE log[i].row \in RowIds /\ ~rows[log[i].row].authored
  OBVIOUS
<1>1. log[i] \in EntriesIn(Len(rows), Len(store))
  BY DEF IInv, TypeOK
<1> QED BY <1>1 DEF Interiors, Browsed, EntriesIn, RowIds

LEMMA MarkInteriors ==
  ASSUME IInv, IInv', Interiors, NEW m \in Marks, Raise(m) \/ Lower(m) PROVE Interiors'
<1>1. /\ pc = m /\ log' = log /\ orphans' = orphans /\ StoreKept /\ TypeOK
      /\ \/ Climbed(m) /\ rows' = rows /\ layers' = layers
         \/ ClimbOn(m) /\ \E b \in BOOLEAN, by \in Int : Flag(m, b, by)
  <2>1. -1 \in Int /\ 1 \in Int
    OBVIOUS
  <2>2. CASE Raise(m)
    BY <2>1, <2>2 DEF Raise, StoreKept, IInv
  <2>3. CASE Lower(m)
    BY <2>1, <2>3 DEF Lower, StoreKept, IInv
  <2> QED BY <2>2, <2>3
<1>2. climber \in RowIds /\ job.row \in RowIds /\ ~rows[job.row].authored /\ orphans = {}
  BY <1>1 DEF IInv, Busy, Marks, Interiors, Browsed
<1>3. /\ RowIds' = RowIds
      /\ \A x \in RowIds : SameRecord(x) /\ SameState(x) /\ rows'[x].own_hist = rows[x].own_hist
  <2>1. CASE rows' = rows
    BY <2>1 DEF SameRecord, SameState, RowIds
  <2>2. CASE \E b \in BOOLEAN, by \in Int : Flag(m, b, by)
    <3>1. PICK b \in BOOLEAN, by \in Int : Flag(m, b, by)
      BY <2>2
    <3> QED BY <1>1, <1>2, <3>1, MarkEffect DEF WritesMark
  <2> QED BY <1>1, <2>1, <2>2
<1>4. pc' # "idle" => job'.row = job.row
  BY <1>1 DEF Climbed, ClimbOn
<1>5. \A i \in 1..Len(log') : log'[i].row \in RowIds /\ ~rows[log'[i].row].authored
  BY <1>1, LogStays
<1> QED BY <1>1, <1>2, <1>3, <1>4, <1>5, StillInteriors

LEMMA NextInteriors == IInv /\ IInv' /\ Interiors /\ [Next]_vars => Interiors'
<1> SUFFICES ASSUME IInv, IInv', Interiors, [Next]_vars PROVE Interiors'
  OBVIOUS
<1>1. /\ RowIds = DOMAIN rows /\ RowIds = 1..Len(rows) /\ Len(rows) \in Nat /\ TypeOK
      /\ None \in 0..Len(rows)
  BY DEF IInv, TypeOK, RowIds, None
<1>2. CASE \E r \in DOMAIN rows :
             SetScalar(r) \/ SetPayload(r) \/ Delete(r) \/ Undelete(r) \/ ClearEdit(r)
  BY <1>1, <1>2, EditInteriors
<1>3. CASE \E r \in DOMAIN rows : DescendOpens(r) \/ DescendFaults(r)
  BY <1>1, <1>3, OpenInteriors, FaultInteriors
<1>4. CASE \E r \in DOMAIN rows, kind \in Kinds : InsertAfter(kind, r)
  <2>1. PICK r \in DOMAIN rows, kind \in Kinds : InsertAfter(kind, r)
    BY <1>4
  <2> DEFINE p == rows[r].parent
  <2>2. Insert(kind, p, r) /\ Live(r) /\ ~rows[r].authored /\ orphans = {}
    BY <2>1 DEF InsertAfter, Editable, Insert, Authoring, Room, IInv, Busy
  <2>3. p \in 0..Len(rows) /\ r \in 0..Len(rows)
    BY <1>1, RowFacts
  <2>4. p # None => IsOpened(rows[p]) /\ ~UnderAuthored(p)
    BY <1>1, <2>2 DEF IInv, Held, Interiors, Browsed
  <2> HIDE DEF p
  <2> QED BY <2>2, <2>3, <2>4, InsertInteriors
<1>5. CASE \E kind \in Kinds, c \in DOMAIN rows \cup {None} :
             InsertHead(kind, c) \/ InsertTail(kind, c)
  <2>1. PICK kind \in Kinds, c \in DOMAIN rows \cup {None} :
          InsertHead(kind, c) \/ InsertTail(kind, c)
    BY <1>5
  <2>2. /\ c \in 0..Len(rows)
        /\ c # None => IsOpened(rows[c]) /\ ~UnderAuthored(c)
    BY <1>1, <2>1 DEF InsertHead, InsertTail, ContainerGate, Editable, UnderAuthored
  <2>3. PICK prev \in 0..Len(rows) : Insert(kind, c, prev)
    <3>1. CASE InsertHead(kind, c)
      BY <1>1, <3>1 DEF InsertHead
    <3>2. CASE InsertTail(kind, c)
      <4>1. HoldingLayer(c) \in 1..Len(layers)
        <5>1. 1 \in 1..Len(layers)
          BY <1>1 DEF TypeOK
        <5>2. c # None => c \in RowIds
          BY <1>1
        <5> QED BY <1>1, <2>2, <5>1, <5>2, RowFacts DEF HoldingLayer, Root
      <4>2. layers[HoldingLayer(c)] \in LayersOf(Len(rows))
        BY <1>1, <4>1 DEF TypeOK
      <4>3. layers[HoldingLayer(c)].last \in 0..Len(rows)
        BY <4>2 DEF LayersOf
      <4> QED BY <3>2, <4>3 DEF InsertTail
    <3> QED BY <2>1, <3>1, <3>2
  <2> QED BY <2>2, <2>3, InsertInteriors
<1>6. CASE Revert
  BY <1>6, RevertInteriors
<1>7. CASE Internal
  <2>1. CASE \E m \in Marks : Raise(m) \/ Lower(m)
    BY <2>1, MarkInteriors
  <2> QED BY <1>7, <2>1, WriteInteriors, WalkInteriors DEF Internal
<1>8. CASE UNCHANGED vars
  <2>1. rows' = rows /\ log' = log /\ pc' = pc /\ job' = job /\ orphans' = orphans /\ store' = store
    BY <1>8 DEF vars
  <2>2. RowIds' = RowIds /\ StoreKept /\ \A x \in RowIds : SameRecord(x) /\ SameState(x)
    BY <2>1 DEF RowIds, StoreKept, SameRecord, SameState
  <2>3. pc' # "idle" => job'.row \in RowIds /\ ~rows[job'.row].authored
    BY <2>1 DEF IInv, Busy, Interiors, Browsed
  <2> QED BY <2>1, <2>2, <2>3, LogStays, StillInteriors
<1> QED BY <1>2, <1>3, <1>4, <1>5, <1>6, <1>7, <1>8 DEF Next, Command

\* A row's shown interior is the scan of the bytes that speak for it now, no two
\* rows show one layer, and nothing under an authored payload is edited, at every
\* state of a command too (descend seals the flag and publishes the slot last;
\* write_state drops the slot of a changed backing and has orphan_interior walk
\* what hung there).
THEOREM ReviseInteriors == Spec => []Interiors
<1>1. Init => Interiors
  BY InitInteriors
<1>2. IInv /\ IInv' /\ Interiors /\ [Next]_vars => Interiors'
  BY NextInteriors
<1> QED BY <1>1, <1>2, ReviseInvariant, PTL DEF Spec

\* A row under an authored payload takes no edit, and the flag descend sealed
\* into it never goes stale: a write that changes the speaking value lets go of
\* the whole interior first (write_state, orphan_interior).
THEOREM ReviseAuthoredInteriorsBrowseOnly == Spec => []AuthoredInteriorsBrowseOnly
<1>1. IInv /\ Interiors => AuthoredInteriorsBrowseOnly
  BY DEF IInv, Busy, Interiors, Browsed, AuthoredInteriorsBrowseOnly, Quiet
<1> QED BY <1>1, ReviseInvariant, ReviseInteriors, PTL

\* An interior shown is the scan of the bytes that speak now: descend (its slot
\* published last) and write_state (its slot dropped with a changed backing)
\* leave no resident verdict or opened layer that outlives its backing.
THEOREM ReviseSlotsAreCurrent == Spec => []SlotsAreCurrent
<1>1. IInv /\ Interiors => SlotsAreCurrent
  <2> SUFFICES ASSUME IInv, Interiors, Quiet, NEW r \in RowIds, Live(r)
               PROVE  LET recs == Scanned[Backing(r)]
                          mine == {x \in Members(r) : rows[x].at >= 0}
                      IN  CASE rows[r].slot.k = "Fault" -> recs = Broken
                            [] IsOpened(rows[r]) ->
                                 recs # Broken /\ Cardinality(mine) = Len(recs)
                                 /\ \A x \in mine : \E i \in DOMAIN recs :
                                      rows[x].at = InteriorBase(r) + recs[i].at
                                      /\ rows[x].body = recs[i].body
                            [] OTHER -> Members(r) = {}
    BY DEF SlotsAreCurrent
  <2> DEFINE recs == Scanned[Backing(r)]
  <2>1. CurrentAt(r)
    BY DEF Interiors, Current
  <2>2. CASE rows[r].slot.k = "Fault"
    BY <2>1, <2>2 DEF CurrentAt, IsOpened
  <2>3. CASE IsOpened(rows[r])
    <3>1. rows[r].kind = "Len" /\ recs # Broken /\ Cardinality(Mine(r)) = Len(recs)
      BY <2>1, <2>3 DEF CurrentAt, Interiors, Tree
    <3>2. recs \in Seq(Records)
      BY <3>1, BackingFacts, ReviseAssumption
    <3>3. DOMAIN recs = 1..Len(recs)
      <4> HIDE DEF recs
      <4> QED BY <3>2
    <3> QED BY <2>1, <2>3, <3>1, <3>3 DEF CurrentAt, IsOpened, Mine
  <2>4. CASE rows[r].slot.k # "Fault" /\ ~IsOpened(rows[r])
    <3>1. r # None /\ orphans = {} /\ TypeOK
      BY DEF IInv, Busy, Quiet, RowIds, None
    <3>2. \A x \in RowIds : ~(Live(x) /\ rows[x].parent = r)
      BY <2>4, <3>1 DEF IInv, Held
    <3>3. Members(r) = {}
      BY <3>1, <3>2, MembersAre DEF Live
    <3> QED BY <2>4, <3>3
  <2> QED BY <2>2, <2>3, <2>4
<1> QED BY <1>1, ReviseInvariant, ReviseInteriors, PTL

----------------------------------------------------------------------------
(* A running command is at each step closer to its return.                 *)

Alive == {r \in RowIds : Live(r)}

\* The steps a command may still take: up the parents, once through the write,
\* down the generations it orphans, and up the parents again.
StepsLeft ==
  CASE pc = "Hist" -> Len(rows) + Len(rows) + 2 + climber
    [] pc = "write" -> Len(rows) + Len(rows) + 2
    [] pc = "orphan" -> Len(rows) + 1 + Cardinality(Alive)
    [] pc = "Dirt" -> climber
    [] OTHER -> 0

\* The walk never runs on nothing.
Walking == pc = "orphan" => orphans # {}

Bounded ==
  /\ StepsLeft \in Nat
  /\ pc # "idle" => 0 < StepsLeft /\ StepsLeft <= 3 * Len(rows) + 2

RunsDown == pc # "idle" => StepsLeft' < StepsLeft

LEMMA AliveFacts ==
  ASSUME TypeOK
  PROVE  /\ IsFiniteSet(Alive) /\ Cardinality(Alive) \in Nat
         /\ Len(rows) \in Nat /\ Cardinality(Alive) <= Len(rows)
         /\ \A x : x \in Alive <=> x \in 1..Len(rows) /\ ~rows[x].dead
<1>1. RowIds = 1..Len(rows) /\ Len(rows) \in Nat
  BY MembersAre
<1>2. IsFiniteSet(RowIds) /\ Cardinality(RowIds) = Len(rows)
  <2>1. 1 \in Int /\ Len(rows) \in Int /\ (IF 1 > Len(rows) THEN 0 ELSE Len(rows) - 1 + 1) = Len(rows)
    BY <1>1
  <2>2. IsFiniteSet(1..Len(rows)) /\ Cardinality(1..Len(rows)) = Len(rows)
    BY <2>1, FS_Interval
  <2> QED BY <1>1, <2>2
<1>3. Alive \in SUBSET RowIds
  BY DEF Alive
<1>4. IsFiniteSet(Alive) /\ Cardinality(Alive) <= Len(rows)
  BY <1>2, <1>3, FS_Subset
<1> QED BY <1>1, <1>4, FS_CardinalityType DEF Alive, Live

LEMMA StepsBounded == IInv => Bounded
<1> SUFFICES ASSUME IInv PROVE Bounded
  OBVIOUS
<1>1. TypeOK
  BY DEF IInv
<1>2. Cardinality(Alive) \in Nat /\ Len(rows) \in Nat /\ Cardinality(Alive) <= Len(rows)
  BY <1>1, AliveFacts
<1>3. /\ climber \in 0..Len(rows)
      /\ pc \in {"idle", "Hist", "write", "orphan", "Dirt"}
      /\ pc # "idle" => climber \in 1..Len(rows)
  BY <1>1 DEF IInv, Busy, TypeOK, RowIds
<1> QED BY <1>2, <1>3 DEF Bounded, StepsLeft

\* A round of a climb goes to the parent, which was minted before, or is over.
LEMMA MarkRunsDown ==
  ASSUME IInv, Interiors, NEW m \in Marks, Raise(m) \/ Lower(m) PROVE RunsDown
<1>1. /\ pc = m /\ pc \in {"Hist", "Dirt"} /\ TypeOK
      /\ \/ Climbed(m) /\ rows' = rows
         \/ ClimbOn(m) /\ \E b \in BOOLEAN, by \in Int : Flag(m, b, by)
  <2>1. -1 \in Int /\ 1 \in Int
    OBVIOUS
  <2>2. CASE Raise(m)
    BY <2>1, <2>2 DEF Raise, IInv, Marks
  <2>3. CASE Lower(m)
    BY <2>1, <2>3 DEF Lower, IInv, Marks
  <2> QED BY <2>2, <2>3
<1>2. climber \in 1..Len(rows) /\ Len(rows) \in Nat /\ DOMAIN rows = 1..Len(rows)
  BY <1>1, AliveFacts DEF IInv, Busy, RowIds, TypeOK
<1>3. rows[climber].parent \in 0..Len(rows) /\ rows[climber].parent < climber
  BY <1>1, <1>2, RowFacts DEF Interiors, Tree, RowIds, RowsOf
<1>4. Len(rows') = Len(rows)
  <2>1. CASE rows' = rows
    BY SMTT(60), <2>1
  <2>2. CASE \E b \in BOOLEAN, by \in Int : Flag(m, b, by)
    <3>1. PICK b \in BOOLEAN, by \in Int : Flag(m, b, by)
      BY <2>2
    <3> QED BY <1>1, <1>2, <3>1 DEF Flag, TypeOK
  <2> QED BY <1>1, <2>1, <2>2
<1>5. \/ Climbed(m)
      \/ climber' = rows[climber].parent /\ pc' = pc
  BY <1>1 DEF ClimbOn
<1>6. CASE Climbed(m)
  BY <1>1, <1>2, <1>4, <1>6 DEF Climbed, RunsDown, StepsLeft
<1>7. CASE climber' = rows[climber].parent /\ pc' = pc
  BY <1>1, <1>2, <1>3, <1>4, <1>7 DEF RunsDown, StepsLeft
<1> QED BY <1>5, <1>6, <1>7

LEMMA WriteRunsDown ==
  ASSUME IInv, IInv', WriteState PROVE RunsDown /\ Walking'
<1>1. /\ pc = "write" /\ climber' = job.row /\ pc' \in {"Dirt", "orphan"}
      /\ pc' = "orphan" => orphans' # {}
  BY DEF WriteState
<1>2. /\ Len(rows) \in Nat /\ Len(rows') = Len(rows) /\ job.row \in 1..Len(rows)
      /\ Cardinality(Alive)' \in Nat /\ Cardinality(Alive)' <= Len(rows')
  <2>1. TypeOK /\ TypeOK'
    BY DEF IInv
  <2>2. Len(rows') = Len(rows)
    BY <2>1 DEF WriteState, TypeOK
  <2>3. /\ Len(rows) \in Nat
        /\ Cardinality(Alive)' \in Nat /\ Cardinality(Alive)' <= Len(rows')
    <3>1. Len(rows) \in Nat
      BY <2>1, AliveFacts
    <3>2. (Cardinality(Alive) \in Nat /\ Cardinality(Alive) <= Len(rows))'
      BY <2>1, AliveFacts, PTL
    <3> QED BY <3>1, <3>2
  <2> QED BY <1>1, <2>2, <2>3 DEF IInv, Busy, RowIds
<1>3. RunsDown
  BY <1>1, <1>2 DEF RunsDown, StepsLeft
<1> QED BY <1>1, <1>3 DEF Walking

\* A generation of the walk leaves fewer rows alive.
LEMMA WalkRunsDown ==
  ASSUME IInv, IInv', Interiors, Walking, OrphanWalk PROVE RunsDown /\ Walking'
<1>1. /\ pc = "orphan" /\ climber' = climber /\ pc' \in {"Dirt", "orphan"}
      /\ pc' = "orphan" => orphans' # {}
      /\ orphans # {} /\ TypeOK /\ TypeOK'
  BY DEF OrphanWalk, Walking, IInv
<1>2. climber \in 1..Len(rows) /\ Len(rows) \in Nat /\ Cardinality(Alive) \in Nat
  BY <1>1, AliveFacts DEF IInv, Busy, RowIds
<1>3. WritesDead
  BY <1>1, WalkEffect
<1>4. Len(rows') = Len(rows) /\ Cardinality(Alive') < Cardinality(Alive)
        /\ Cardinality(Alive') \in Nat
  <2>1. PICK x \in orphans : TRUE
    BY <1>1
  <2>2. x \in Alive /\ rows'[x].dead
    BY <1>1, <1>3, <2>1 DEF Interiors, Strays, WritesDead, Alive, Live, TypeOK
  <2>3. Alive' \subseteq Alive /\ x \notin Alive'
    BY <1>3, <2>2 DEF Alive, Live, WritesDead
  <2>4. Len(rows') = Len(rows)
    BY <1>1 DEF OrphanWalk, TypeOK
  <2>5. IsFiniteSet(Alive) /\ Alive' # Alive
    BY <1>1, <2>2, <2>3, AliveFacts
  <2>6. /\ IsFiniteSet(Alive') /\ Cardinality(Alive') <= Cardinality(Alive)
        /\ Cardinality(Alive) # Cardinality(Alive')
    <3>1. Alive' \in SUBSET Alive
      BY <2>3
    <3> QED BY <2>5, <3>1, FS_Subset, Zenon
  <2>7. Cardinality(Alive') \in Nat
    BY <2>6, FS_CardinalityType, Zenon
  <2> QED BY <1>2, <2>4, <2>6, <2>7
<1>5. RunsDown
  BY <1>1, <1>2, <1>4 DEF RunsDown, StepsLeft
<1> QED BY <1>1, <1>5 DEF Walking

\* Only a write begins the walk, and no command begins inside another.
LEMMA NextRunsDown ==
  IInv /\ IInv' /\ Interiors /\ Walking /\ [Next]_vars => [RunsDown]_vars /\ Walking'
<1> SUFFICES ASSUME IInv, IInv', Interiors, Walking, [Next]_vars
             PROVE  [RunsDown]_vars /\ Walking'
  OBVIOUS
<1>1. CASE Command
  <2>1. ASSUME NEW rs, NEW r, NEW to, LogPush(rs, r, to), pc = "idle"
        PROVE  pc = "idle" /\ pc' \in {"idle", "Hist", "write"}
    BY <2>1 DEF LogPush
  <2>2. ASSUME NEW kind, NEW p, NEW prev, Insert(kind, p, prev)
        PROVE  pc = "idle" /\ pc' \in {"idle", "Hist", "write"}
    BY <2>1, <2>2 DEF Insert, Splice, Authoring, Room
  <2>3. ASSUME NEW r, \/ SetScalar(r) \/ SetPayload(r) \/ Delete(r) \/ Undelete(r) \/ ClearEdit(r)
        PROVE  pc = "idle" /\ pc' \in {"idle", "Hist", "write"}
    BY <2>1, <2>3 DEF SetScalar, SetPayload, Delete, Undelete, ClearEdit, Authoring, Room, ApplyEdit
  <2>4. ASSUME NEW r, DescendOpens(r) \/ DescendFaults(r)
        PROVE  pc = "idle" /\ pc' \in {"idle", "Hist", "write"}
    BY <2>4 DEF DescendOpens, DescendFaults, Descendable
  <2>5. Revert => pc = "idle" /\ pc' \in {"idle", "Hist", "write"}
    BY DEF Revert
  <2>6. pc = "idle" /\ pc' \in {"idle", "Hist", "write"}
    BY <1>1, <2>2, <2>3, <2>4, <2>5 DEF Command, InsertAfter, InsertHead, InsertTail
  <2> QED BY <2>6 DEF RunsDown, Walking
<1>2. CASE \E m \in Marks : Raise(m) \/ Lower(m)
  <2>1. PICK m \in Marks : Raise(m) \/ Lower(m)
    BY <1>2
  <2>2. pc' # "orphan"
    BY <2>1 DEF Raise, Lower, Climbed, ClimbOn, Marks
  <2> QED BY <2>1, <2>2, MarkRunsDown DEF Walking
<1>3. CASE WriteState
  BY <1>3, WriteRunsDown
<1>4. CASE OrphanWalk
  BY <1>4, WalkRunsDown
<1>5. CASE UNCHANGED vars
  BY <1>5 DEF Walking, vars
<1> QED BY <1>1, <1>2, <1>3, <1>4, <1>5 DEF Next, Internal

\* A command is over after at most three steps for each row of the arena, and
\* two: the climbs of raise_mark and lower_mark follow parent links that lead to
\* rows minted earlier, and orphan_interior never comes to a row twice.
THEOREM ReviseCommandsRunDown == Spec => []Bounded /\ [][RunsDown]_vars
<1>1. Init => Walking
  BY DEF Init, Walking
<1>2. IInv /\ IInv' /\ Interiors /\ Walking /\ [Next]_vars => [RunsDown]_vars /\ Walking'
  BY NextRunsDown
<1>3. IInv => Bounded
  BY StepsBounded
<1> QED BY <1>1, <1>2, <1>3, ReviseInvariant, ReviseInteriors, PTL DEF Spec
=============================================================================
