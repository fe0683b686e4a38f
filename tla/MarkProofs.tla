----------------------------- MODULE MarkProofs -----------------------------
(***************************************************************************)
(* Proofs about the marks and the undo log of the revising editor: the     *)
(* marks are exact between two calls, the log names only rows a revert may *)
(* write, and what a flip orphans carries neither an edit nor history.     *)
(***************************************************************************)
EXTENDS InteriorProofs

----------------------------------------------------------------------------
(* The inductive invariant.                                                *)

\* What r's mark m stands for; and the one row whose mark a climb has not yet
\* brought in line.
Asks(m, r) == Own(m, rows[r]) \/ HeldBelow(m, rows[r])
Behind(m, r) == r = climber /\ (pc = m \/ (m = "Dirt" /\ pc = "orphan"))

Flagged(m, p) == {r \in Members(p) : rows[r].mark[m]}

\* A command works on a live row and climbs from it.
Working ==
  pc # "idle" =>
    /\ Live(job.row) /\ Live(climber) /\ climber <= job.row
    /\ pc \in {"write", "orphan"} => climber = job.row
    /\ job.way \in {"raise", "lower"}

\* Each mark says what it stands for.  A raising climb is at a row that asks
\* for its mark, a lowering one at a row that may have it for nothing.
MarksFit ==
  \A r \in RowIds, m \in Marks :
    /\ ~Behind(m, r) => (rows[r].mark[m] <=> Asks(m, r))
    /\ Behind(m, r) /\ job.way = "raise" => Asks(m, r)
    /\ Behind(m, r) /\ Asks(m, r) => job.way = "raise" \/ rows[r].mark[m]

\* Each layer that is shown counts its flagged members.
LayersFit ==
  \A m \in Marks :
    /\ layers[Root].count[m] = Cardinality(Flagged(m, None))
    /\ \A p \in RowIds : Live(p) /\ IsOpened(rows[p]) =>
         layers[rows[p].slot.layer].count[m] = Cardinality(Flagged(m, p))

\* Between log_push or log_pop and the write.
Pending == pc \in {"Hist", "write"}

\* What a row's edit has written, an entry can undo.
EditsLogged ==
  /\ \A r \in RowIds :
       ~rows[r].own_hist => ~OwnDirty(IF Pending /\ r = job.row THEN job.to ELSE rows[r].edit)
  /\ \A i \in 1..Len(log) : log[i].fresh => ~OwnDirty(log[i].from)

Logged ==
  /\ \A i \in 1..Len(log) : Live(log[i].row)
  /\ \A r \in RowIds : rows[r].own_hist <=> \E i \in 1..Len(log) : log[i].row = r
  /\ \A i \in 1..Len(log) :
       log[i].fresh <=> \A j \in 1..Len(log) : log[j].row = log[i].row => i <= j

\* What has died, and what the walk is about to kill.
CleanRow(r) ==
  ~rows[r].own_hist /\ ~OwnDirty(rows[r].edit) /\ \A m \in Marks : ~rows[r].mark[m]
LostAreClean ==
  /\ \A r \in RowIds : ~Live(r) => CleanRow(r)
  /\ \A r \in orphans : CleanRow(r) /\ r > job.row

\* The write about to happen orphans no history.
InteriorClean ==
  Pending /\ Flips(rows[job.row].edit, job.to) => ~HeldBelow("Hist", rows[job.row])

\* x hangs from r, at any depth: no set closed under parents has x and not r.
ParentClosed(S) == \A y \in S : rows[y].parent # None => rows[y].parent \in S
Below(x, r) == \A S \in SUBSET RowIds : x \in S /\ ParentClosed(S) => r \in S

\* An entry whose undoing flips its row's backing is older than the entries of
\* the interior that backing shows: they are undone first.
PastsPrecede ==
  \A i, j \in 1..Len(log) :
    /\ log[j].row # log[i].row /\ Below(log[j].row, log[i].row)
    /\ Flips(rows[log[i].row].edit, log[i].from)
    => i < j

Accounts ==
  /\ Working /\ MarksFit /\ LayersFit /\ EditsLogged /\ Logged
  /\ LostAreClean /\ InteriorClean /\ PastsPrecede

----------------------------------------------------------------------------
(* Counting, and the greatest of a set of rows.                            *)

LEMMA NatOrder == OpToRel(<, Nat) = {ss \in Nat \X Nat : ss[1] < ss[2]}
  BY DEF OpToRel

LEMMA GreatestOf ==
  ASSUME NEW n \in Nat, NEW T \in SUBSET (1..n), T # {}
  PROVE  \E z \in T : \A y \in T : y <= z
<1> DEFINE R == {ss \in Nat \X Nat : ss[1] < ss[2]}
           U == {n - z : z \in T}
<1>1. IsWellFoundedOn(R, Nat)
  BY NatLessThanWellFounded, NatOrder, Zenon
<1>2. U \subseteq Nat /\ U # {}
  <2>1. \A z \in T : n - z \in Nat /\ z \in Int
    OBVIOUS
  <2>2. PICK z \in T : TRUE
    OBVIOUS
  <2>3. n - z \in U
    OBVIOUS
  <2> QED BY <2>1, <2>3
<1>3. \A x, y \in Nat : <<y, x>> \in R <=> y < x
  OBVIOUS
<1> HIDE DEF R
<1>4. PICK u \in U : \A w \in U : ~(<<w, u>> \in R)
  BY <1>1, <1>2, WFMin
<1>5. PICK z \in T : u = n - z
  OBVIOUS
<1>6. \A y \in T : n - y \in U
  OBVIOUS
<1>7. \A y \in T : ~(n - y < n - z)
  BY <1>2, <1>3, <1>4, <1>5, <1>6
<1> QED BY <1>7

LEMMA FlaggedFacts ==
  ASSUME TypeOK, NEW m, NEW p
  PROVE  /\ IsFiniteSet(Flagged(m, p)) /\ Cardinality(Flagged(m, p)) \in Nat
         /\ Cardinality(Flagged(m, p)) = 0 <=> Flagged(m, p) = {}
         /\ \A x : x \in Flagged(m, p) <=>
              x \in RowIds /\ ~rows[x].dead /\ rows[x].parent = p /\ rows[x].mark[m]
<1>1. /\ RowIds = 1..Len(rows) /\ Len(rows) \in Nat /\ Members(p) \subseteq RowIds
      /\ \A x \in RowIds : x \in Members(p) <=> ~rows[x].dead /\ rows[x].parent = p
  BY MembersAre
<1>2. IsFiniteSet(RowIds)
  <2>1. 1 \in Int /\ Len(rows) \in Int
    BY <1>1
  <2> QED BY <1>1, <2>1, FS_Interval
<1>3. Flagged(m, p) \in SUBSET RowIds
  BY <1>1 DEF Flagged
<1>4. IsFiniteSet(Flagged(m, p))
  BY <1>2, <1>3, FS_Subset
<1>5. \A x : x \in Flagged(m, p) <=>
        x \in RowIds /\ ~rows[x].dead /\ rows[x].parent = p /\ rows[x].mark[m]
  BY <1>1 DEF Flagged
<1> QED BY <1>4, <1>5, FS_CardinalityType, FS_EmptySet

\* A row's interior asks for a mark exactly when a member of it has it.
LEMMA HeldMeans ==
  ASSUME TypeOK, LayersFit, NEW m \in Marks, NEW r \in RowIds, Live(r)
  PROVE  HeldBelow(m, rows[r]) <=>
           IsOpened(rows[r]) /\ \E x \in RowIds : Live(x) /\ rows[x].parent = r /\ rows[x].mark[m]
<1>1. IsOpened(rows[r]) =>
        layers[rows[r].slot.layer].count[m] = Cardinality(Flagged(m, r))
  BY DEF LayersFit
<1>2. /\ Cardinality(Flagged(m, r)) \in Nat
      /\ Cardinality(Flagged(m, r)) = 0 <=> Flagged(m, r) = {}
      /\ \A x : x \in Flagged(m, r) <=>
           x \in RowIds /\ ~rows[x].dead /\ rows[x].parent = r /\ rows[x].mark[m]
  BY FlaggedFacts
<1>3. Cardinality(Flagged(m, r)) > 0 <=> \E x : x \in Flagged(m, r)
  BY <1>2
<1> QED BY <1>1, <1>2, <1>3 DEF HeldBelow, Live

----------------------------------------------------------------------------
(* What a step that leaves the marks alone keeps.                          *)

CountsKept == \A i \in 1..Len(layers), k \in Marks : layers'[i].count[k] = layers[i].count[k]

\* A row written nowhere that its marks rest on.
LEMMA AsksStays ==
  ASSUME TypeOK, CountsKept, NEW x \in RowIds, NEW m \in Marks,
         rows'[x].own_hist = rows[x].own_hist, rows'[x].edit = rows[x].edit,
         rows'[x].slot = rows[x].slot
  PROVE  Asks(m, x)' <=> Asks(m, x)
<1>1. IsOpened(rows[x]) => rows[x].slot.layer \in 1..Len(layers)
  BY RowFacts
<1>2. HeldBelow(m, rows[x])' <=> HeldBelow(m, rows[x])
  BY SMTT(60), <1>1 DEF HeldBelow, IsOpened, CountsKept
<1>3. Own(m, rows[x])' <=> Own(m, rows[x])
  BY DEF Own
<1> QED BY <1>2, <1>3 DEF Asks

LEMMA FlaggedStays ==
  ASSUME TypeOK, TypeOK', NEW m \in Marks, NEW p, RowIds \subseteq RowIds',
         \A x \in RowIds : SameRecord(x),
         \A x \in RowIds : rows[x].parent = p =>
           /\ rows'[x].mark[m] = rows[x].mark[m]
           /\ rows[x].mark[m] => rows'[x].dead = rows[x].dead,
         \A x \in RowIds' : x \notin RowIds => ~rows'[x].mark[m]
  PROVE  Flagged(m, p)' = Flagged(m, p)
<1>1. \A x : x \in Flagged(m, p) <=>
        x \in RowIds /\ ~rows[x].dead /\ rows[x].parent = p /\ rows[x].mark[m]
  BY FlaggedFacts
<1>2. \A x : x \in Flagged(m, p)' <=>
        x \in RowIds' /\ ~rows'[x].dead /\ rows'[x].parent = p /\ rows'[x].mark[m]
  BY SMTT(60) DEF TypeOK, Flagged, Members, RowIds, Live
<1>3. \A x \in RowIds : rows'[x].parent = rows[x].parent
  BY DEF SameRecord
<1>4. \A x : x \in Flagged(m, p)' <=> x \in Flagged(m, p)
  BY <1>1, <1>2, <1>3
<1> HIDE DEF Flagged
<1> QED BY <1>4

LEMMA LayersStay ==
  ASSUME TypeOK, TypeOK', LayersFit, CountsKept, RowIds \subseteq RowIds',
         \A m \in Marks : \A p : Flagged(m, p)' = Flagged(m, p),
         \A p \in RowIds' : ~rows'[p].dead /\ IsOpened(rows'[p]) =>
           \/ p \in RowIds /\ Live(p) /\ rows'[p].slot = rows[p].slot
           \/ \A m \in Marks :
                layers'[rows'[p].slot.layer].count[m] = 0 /\ Flagged(m, p) = {}
  PROVE  LayersFit'
<1>1. Root \in 1..Len(layers)
  BY DEF TypeOK, Root
<1>2. ASSUME NEW m \in Marks
      PROVE  layers'[Root].count[m] = Cardinality(Flagged(m, None)')
  BY <1>1 DEF LayersFit, CountsKept
<1>3. ASSUME NEW m \in Marks, NEW p \in RowIds', ~rows'[p].dead, IsOpened(rows'[p])
      PROVE  layers'[rows'[p].slot.layer].count[m] = Cardinality(Flagged(m, p)')
  <2>1. CASE p \in RowIds /\ Live(p) /\ rows'[p].slot = rows[p].slot
    <3>1. IsOpened(rows[p]) /\ rows[p].slot.layer \in 1..Len(layers)
      BY <1>3, <2>1, RowFacts DEF IsOpened
    <3> QED BY <2>1, <3>1 DEF LayersFit, CountsKept
  <2>2. CASE layers'[rows'[p].slot.layer].count[m] = 0 /\ Flagged(m, p) = {}
    BY <2>2, FS_EmptySet
  <2> QED BY <1>3, <2>1, <2>2
<1> QED BY <1>2, <1>3 DEF LayersFit, Live

\* What hangs from an old row hung from it before.
LEMMA BelowKept ==
  ASSUME RowIds \subseteq RowIds', \A x \in RowIds : SameRecord(x),
         NEW x \in RowIds, NEW r \in RowIds, Below(x, r)'
  PROVE  Below(x, r)
<1> SUFFICES ASSUME NEW S \in SUBSET RowIds, x \in S, ParentClosed(S) PROVE r \in S
  BY DEF Below
<1>1. ParentClosed(S)'
  BY DEF ParentClosed, SameRecord
<1>2. S \in SUBSET RowIds'
  OBVIOUS
<1> QED BY <1>1, <1>2 DEF Below

----------------------------------------------------------------------------
(* What the marks tell when no history climb runs.                         *)

\* A live row that hangs from p makes p answer for its marks.
LEMMA HolderAnswers ==
  ASSUME IInv, LayersFit, orphans = {}, NEW m \in Marks, NEW x \in RowIds, Live(x),
         rows[x].mark[m], rows[x].parent # None
  PROVE  /\ rows[x].parent \in RowIds /\ Live(rows[x].parent)
         /\ HeldBelow(m, rows[rows[x].parent])
<1> DEFINE p == rows[x].parent
<1>1. p \in RowIds
  BY RowFacts DEF IInv, RowIds, None
<1>2. Live(p) /\ IsOpened(rows[p])
  BY DEF IInv, Held
<1> QED BY <1>1, <1>2, HeldMeans DEF IInv

\* A mark that holds for an interior holds for a member of it.
LEMMA HeldByMember ==
  ASSUME IInv, Tree, LayersFit, NEW m \in Marks, NEW r \in RowIds, Live(r), HeldBelow(m, rows[r])
  PROVE  \E x \in RowIds :
           Live(x) /\ rows[x].parent = r /\ rows[x].mark[m] /\ r < x
<1>1. PICK x \in RowIds : Live(x) /\ rows[x].parent = r /\ rows[x].mark[m]
  BY HeldMeans DEF IInv
<1> QED BY <1>1 DEF Tree

\* A set of rows each of which has a greater one in it is empty.
LEMMA NoneRises ==
  ASSUME TypeOK, NEW T \in SUBSET RowIds, \A z \in T : \E x \in T : z < x
  PROVE  T = {}
<1>1. T \in SUBSET (1..Len(rows)) /\ Len(rows) \in Nat
  BY DEF TypeOK, RowIds
<1>2. SUFFICES ASSUME T # {} PROVE FALSE
  OBVIOUS
<1>3. PICK z \in T : \A y \in T : y <= z
  BY <1>1, <1>2, GreatestOf
<1>4. PICK x \in T : z < x
  OBVIOUS
<1>5. x \in Nat /\ z \in Nat /\ x <= z
  BY <1>1, <1>3
<1> QED BY <1>4, <1>5

\* Before the write nothing past the job's row is dirty but for an entry.
LEMMA DirtUnderHist ==
  ASSUME IInv, Tree, Accounts, pc = "write", NEW y \in RowIds, Live(y), y > job.row,
         rows[y].mark["Dirt"]
  PROVE  rows[y].mark["Hist"]
<1> DEFINE T == {z \in RowIds : /\ Live(z) /\ z > job.row
                                /\ rows[z].mark["Dirt"] /\ ~rows[z].mark["Hist"]}
<1>1. \A z \in RowIds, m \in Marks : rows[z].mark[m] <=> Asks(m, z)
  BY DEF Accounts, MarksFit, Behind, Marks
<1>2. ASSUME NEW z \in T PROVE \E x \in T : z < x
  <2>1. z \in RowIds /\ Live(z) /\ "Hist" \in Marks /\ "Dirt" \in Marks /\ z # job.row
    BY DEF Marks, IInv, TypeOK, RowIds, JobsOf
  <2>2. ~Own("Hist", rows[z]) /\ ~HeldBelow("Hist", rows[z])
    BY <1>1, <2>1 DEF Asks
  <2>3. ~OwnDirty(rows[z].edit)
    BY <2>1, <2>2 DEF Own, Accounts, EditsLogged
  <2>4. HeldBelow("Dirt", rows[z])
    BY <1>1, <2>1, <2>3 DEF Asks, Own
  <2>5. PICK x \in RowIds : Live(x) /\ rows[x].parent = z /\ rows[x].mark["Dirt"] /\ z < x
    BY <2>1, <2>4, HeldByMember DEF Accounts
  <2>6. z \in Nat /\ x \in Nat /\ job.row \in Nat /\ z > job.row
    BY DEF IInv, TypeOK, RowIds, JobsOf
  <2>7. rows[x].mark["Hist"] => HeldBelow("Hist", rows[z])
    <3>1. IsOpened(rows[z])
      BY <2>4 DEF HeldBelow
    <3> QED BY <2>1, <2>5, <3>1, HeldMeans DEF IInv, Accounts
  <2>8. x \in T
    BY <2>2, <2>5, <2>6, <2>7
  <2> QED BY <2>5, <2>8
<1>3. TypeOK
  BY DEF IInv
<1>4. T = {}
  <2> HIDE DEF T
  <2>1. T \in SUBSET RowIds
    BY DEF T
  <2> QED BY <1>2, <1>3, <2>1, NoneRises
<1> QED BY <1>4

\* Rows under an authored payload carry no history, at any depth.
LEMMA AuthoredQuiet ==
  ASSUME IInv, Interiors, Accounts, pc = "idle", NEW y \in RowIds, Live(y), rows[y].authored
  PROVE  ~rows[y].mark["Hist"]
<1> DEFINE T == {z \in RowIds : Live(z) /\ rows[z].authored /\ rows[z].mark["Hist"]}
<1>1. /\ \A z \in RowIds : rows[z].mark["Hist"] <=> Asks("Hist", z)
      /\ orphans = {} /\ TypeOK /\ Tree /\ "Hist" \in Marks
  BY DEF Accounts, MarksFit, Behind, Marks, IInv, Busy, Interiors
<1>2. ASSUME NEW z \in T PROVE \E x \in T : z < x
  <2>1. z \in RowIds /\ Live(z) /\ rows[z].authored /\ Asks("Hist", z) /\ z # None
    BY <1>1 DEF RowIds, None
  <2>2. ~rows[z].own_hist
    BY <2>1 DEF Interiors, Browsed
  <2>3. HeldBelow("Hist", rows[z])
    BY <2>1, <2>2 DEF Asks, Own
  <2>4. PICK x \in RowIds : Live(x) /\ rows[x].parent = z /\ rows[x].mark["Hist"] /\ z < x
    BY <1>1, <2>1, <2>3, HeldByMember DEF Accounts
  <2>5. rows[x].authored = UnderAuthored(z)
    BY <1>1, <2>1, <2>4 DEF Interiors, Browsed
  <2>6. UnderAuthored(z)
    BY <2>1 DEF UnderAuthored
  <2>7. x \in T
    BY <2>4, <2>5, <2>6
  <2> QED BY <2>4, <2>7
<1>3. T = {}
  <2> HIDE DEF T
  <2>1. T \in SUBSET RowIds
    BY DEF T
  <2> QED BY <1>1, <1>2, <2>1, NoneRises
<1> QED BY <1>3

\* A row that hangs from a member of r's interior hangs from r, and is not r.
LEMMA BelowParent ==
  ASSUME Tree, TypeOK, NEW x \in RowIds, NEW y \in RowIds, Below(x, y), rows[y].parent \in RowIds
  PROVE  Below(x, rows[y].parent) /\ x # rows[y].parent
<1> DEFINE r == rows[y].parent
           S == {z \in RowIds : z < y}
<1>1. r # None /\ r < y /\ \A z \in RowIds : z \in Nat /\ rows[z].parent < z
  BY DEF Tree, RowIds, None, TypeOK
<1>2. Below(x, r)
  BY <1>1 DEF Below, ParentClosed
<1>3. ParentClosed(S)
  <2> SUFFICES ASSUME NEW z \in S, rows[z].parent # None PROVE rows[z].parent \in S
    BY DEF ParentClosed
  <2>1. rows[z].parent \in RowIds
    BY RowFacts DEF RowIds, None
  <2> QED BY <1>1, <2>1
<1>4. y \notin S /\ S \in SUBSET RowIds
  BY <1>1
<1>5. x \notin S
  BY <1>3, <1>4 DEF Below
<1> QED BY <1>1, <1>2, <1>5

\* A history mark has an entry under it that it is there for.
LEMMA MarkHasSource ==
  ASSUME IInv, Interiors, Accounts, pc = "idle", NEW y \in RowIds, Live(y), rows[y].mark["Hist"]
  PROVE  \E x \in RowIds : Below(x, y) /\ rows[x].own_hist
<1> DEFINE T == {z \in RowIds : /\ Live(z) /\ rows[z].mark["Hist"]
                                /\ \A x \in RowIds : Below(x, z) => ~rows[x].own_hist}
<1>1. /\ \A z \in RowIds : rows[z].mark["Hist"] <=> Asks("Hist", z)
      /\ TypeOK /\ Tree /\ "Hist" \in Marks
  BY DEF Accounts, MarksFit, Behind, Marks, IInv, Interiors
<1>2. ASSUME NEW z \in T PROVE \E x \in T : z < x
  <2>1. z \in RowIds /\ Live(z) /\ Asks("Hist", z)
    BY <1>1
  <2>2. Below(z, z)
    BY DEF Below
  <2>3. HeldBelow("Hist", rows[z])
    BY <2>1, <2>2 DEF Asks, Own
  <2>4. PICK x \in RowIds : Live(x) /\ rows[x].parent = z /\ rows[x].mark["Hist"] /\ z < x
    BY <1>1, <2>1, <2>3, HeldByMember DEF Accounts
  <2>5. \A w \in RowIds : Below(w, x) => Below(w, z)
    BY <1>1, <2>1, <2>4, BelowParent
  <2>6. x \in T
    BY <2>4, <2>5
  <2> QED BY <2>4, <2>6
<1>3. T = {}
  <2> HIDE DEF T
  <2>1. T \in SUBSET RowIds
    BY DEF T
  <2> QED BY <1>1, <1>2, <2>1, NoneRises
<1> QED BY <1>3

\* An interior without a history mark has no entry at any depth.
LEMMA InteriorQuiet ==
  ASSUME IInv, Accounts, pc = "write", NEW r \in RowIds, ~HeldBelow("Hist", rows[r]),
         NEW x \in RowIds, Live(x), Below(x, r), rows[x].own_hist
  PROVE  x = r
<1> DEFINE S == {y \in RowIds : Live(y) /\ rows[y].mark["Hist"] /\ y # r}
<1>1. /\ \A z \in RowIds : rows[z].mark["Hist"] <=> Asks("Hist", z)
      /\ orphans = {} /\ "Hist" \in Marks
  BY DEF Accounts, MarksFit, Behind, Marks, IInv, Busy
<1>2. ParentClosed(S)
  <2> SUFFICES ASSUME NEW y \in S, rows[y].parent # None PROVE rows[y].parent \in S
    BY DEF ParentClosed
  <2>1. /\ rows[y].parent \in RowIds /\ Live(rows[y].parent)
        /\ HeldBelow("Hist", rows[rows[y].parent])
    BY <1>1, HolderAnswers DEF Accounts
  <2> QED BY <1>1, <2>1 DEF Asks
<1>3. SUFFICES ASSUME x # r PROVE FALSE
  OBVIOUS
<1>4. x \in S
  BY <1>1, <1>3 DEF Asks, Own
<1>5. r \in S
  BY <1>2, <1>4 DEF Below
<1> QED BY <1>5

----------------------------------------------------------------------------
(* Each step.                                                              *)

LEMMA EntryFacts ==
  ASSUME TypeOK, NEW i \in 1..Len(log)
  PROVE  log[i].row \in RowIds /\ log[i].fresh \in BOOLEAN
<1>1. log[i] \in EntriesIn(Len(rows), Len(store))
  BY DEF TypeOK
<1> QED BY <1>1 DEF EntriesIn, RowIds

LEMMA RowNat == TypeOK => \A r \in RowIds : r \in Nat /\ r # None
  BY DEF TypeOK, RowIds, None

LEMMA HistTyped ==
  ASSUME TypeOK, NEW r \in RowIds PROVE rows[r].own_hist \in BOOLEAN
<1>1. rows[r] \in RowsOf(Len(rows), Len(layers), Len(store))
  BY RowFacts
<1> QED BY <1>1 DEF RowsOf

\* The log with an entry at its end.
LEMMA PushFacts ==
  ASSUME TypeOK, NEW e, log' = Append(log, e)
  PROVE  /\ Len(log) \in Nat /\ Len(log') = Len(log) + 1 /\ log'[Len(log) + 1] = e
         /\ Len(log) + 1 \in 1..(Len(log) + 1)
         /\ \A i \in 1..Len(log) :
              /\ log'[i] = log[i] /\ log[i].row \in RowIds
              /\ i \in 1..(Len(log) + 1) /\ i < Len(log) + 1
         /\ \A i \in 1..(Len(log) + 1) : i \in 1..Len(log) \/ i = Len(log) + 1
<1>1. log \in Seq(EntriesIn(Len(rows), Len(store)))
  BY DEF TypeOK
<1>2. Len(log) \in Nat
  BY <1>1
<1>3. /\ Len(log') = Len(log) + 1 /\ log'[Len(log) + 1] = e
      /\ \A i \in 1..Len(log) : log'[i] = log[i]
  BY <1>1
<1>4. \A i \in 1..Len(log) : log[i].row \in RowIds
  BY EntryFacts
<1>5. /\ \A i \in 1..Len(log) : i \in 1..(Len(log) + 1) /\ i < Len(log) + 1
      /\ \A i \in 1..(Len(log) + 1) : i \in 1..Len(log) \/ i = Len(log) + 1
      /\ Len(log) + 1 \in 1..(Len(log) + 1)
  BY <1>2
<1> QED BY <1>2, <1>3, <1>4, <1>5

\* log_push and log_pop touch one row's own history and no mark.
LEMMA HistMarks ==
  ASSUME IInv, IInv', Accounts, pc = "idle", NEW r \in RowIds, NEW b \in BOOLEAN,
         WritesHist(r, b), climber' = r, pc' \in {"Hist", "write"},
         pc' = "write" => rows[r].own_hist = b,
         job'.way = "raise" => b,
         b => rows[r].own_hist \/ job'.way = "raise"
  PROVE  MarksFit' /\ LayersFit'
<1>1. /\ TypeOK /\ TypeOK' /\ MarksFit /\ LayersFit /\ RowIds' = RowIds /\ CountsKept
      /\ \A x \in RowIds : SameRecord(x) /\ SameState(x) /\ rows'[x].mark = rows[x].mark
  BY DEF IInv, Accounts, WritesHist, CountsKept
<1>2. ASSUME NEW x \in RowIds, NEW m \in Marks
      PROVE  /\ ~Behind(m, x)' => (rows'[x].mark[m] <=> Asks(m, x)')
             /\ Behind(m, x)' /\ job'.way = "raise" => Asks(m, x)'
             /\ Behind(m, x)' /\ Asks(m, x)' => job'.way = "raise" \/ rows'[x].mark[m]
  <2>1. (rows[x].mark[m] <=> Asks(m, x)) /\ rows'[x].mark = rows[x].mark
    BY <1>1 DEF MarksFit, Behind, Marks
  <2>2. CASE m = "Hist" /\ x = r /\ rows[r].own_hist # b
    <3>1. Behind(m, x)' /\ pc' = "Hist"
      BY <2>2 DEF Behind
    <3>2. Own(m, rows[x])' <=> b
      BY <2>2 DEF Own, WritesHist
    <3>3. rows[r].own_hist \in BOOLEAN
      BY <1>1, HistTyped
    <3>4. b => job'.way = "raise"
      BY <2>2, <3>3
    <3>5. ~b /\ Asks(m, x)' => Asks(m, x)
      <4>1. HeldBelow(m, rows[x])' <=> HeldBelow(m, rows[x])
        BY <1>1 DEF HeldBelow, IsOpened, SameState, WritesHist
      <4> QED BY <3>2, <4>1 DEF Asks
    <3> QED BY <2>1, <3>1, <3>2, <3>4, <3>5 DEF Asks
  <2>3. CASE ~(m = "Hist" /\ x = r /\ rows[r].own_hist # b)
    <3>1. HeldBelow(m, rows[x])' <=> HeldBelow(m, rows[x])
      BY <1>1 DEF HeldBelow, IsOpened, SameState, WritesHist
    <3>2. Own(m, rows[x])' <=> Own(m, rows[x])
      BY <1>1, <2>3 DEF Own, SameState, WritesHist, Marks
    <3>3. Asks(m, x)' <=> Asks(m, x)
      BY <3>1, <3>2 DEF Asks
    <3>4. Behind(m, x)' /\ job'.way = "raise" => Asks(m, x)'
      <4> SUFFICES ASSUME Behind(m, x)', job'.way = "raise" PROVE Asks(m, x)'
        OBVIOUS
      <4>1. m = "Hist" /\ x = r
        BY DEF Behind, Marks
      <4>2. Own(m, rows[x])'
        BY <4>1 DEF Own, WritesHist
      <4> QED BY <4>2 DEF Asks
    <3> QED BY <2>1, <3>3, <3>4
  <2> QED BY <2>2, <2>3
<1>3. MarksFit'
  BY <1>1, <1>2 DEF MarksFit
<1>4. LayersFit'
  <2>1. \A m \in Marks : \A p : Flagged(m, p)' = Flagged(m, p)
    BY <1>1, FlaggedStays DEF SameState
  <2>2. \A p \in RowIds' : ~rows'[p].dead /\ IsOpened(rows'[p]) =>
          p \in RowIds /\ Live(p) /\ rows'[p].slot = rows[p].slot
    BY <1>1 DEF SameState, Live
  <2> QED BY <1>1, <2>1, <2>2, LayersStay
<1> QED BY <1>3, <1>4

\* A command that writes a row's edit, when a flip finds no history inside.
LEMMA EditAccounts ==
  ASSUME IInv, IInv', Interiors, Accounts, pc = "idle", NEW r \in RowIds, NEW to, Live(r),
         ApplyEdit(r, to), Flips(rows[r].edit, to) => ~HeldBelow("Hist", rows[r])
  PROVE  Accounts'
<1> DEFINE fresh == ~rows[r].own_hist
           entry == [row |-> r, from |-> rows[r].edit, fresh |-> fresh]
<1>1. /\ TypeOK /\ TypeOK' /\ WritesHist(r, TRUE) /\ orphans = {} /\ orphans' = {}
      /\ log \in Seq(EntriesIn(Len(rows), Len(store))) /\ log' = Append(log, entry)
      /\ pc' = IF fresh THEN "Hist" ELSE "write"
      /\ climber' = r /\ job' = [row |-> r, to |-> to, way |-> "raise"] /\ layers' = layers
  BY ApplyEditEffect DEF IInv, TypeOK, Busy, ApplyEdit, LogPush, StateBefore
<1>2. /\ RowIds' = RowIds
      /\ \A x \in RowIds :
           /\ SameRecord(x) /\ rows'[x].edit = rows[x].edit /\ rows'[x].slot = rows[x].slot
           /\ rows'[x].dead = rows[x].dead /\ rows'[x].mark = rows[x].mark
           /\ rows'[x].own_hist = IF x = r THEN TRUE ELSE rows[x].own_hist
  BY <1>1 DEF WritesHist, SameState
<1> DEFINE n == Len(log)
<1>3. /\ n \in Nat /\ Len(log') = n + 1 /\ log'[n + 1] = entry /\ n + 1 \in 1..(n + 1)
      /\ \A i \in 1..n :
           log'[i] = log[i] /\ log[i].row \in RowIds /\ i \in 1..(n + 1) /\ i < n + 1
      /\ \A i \in 1..(n + 1) : i \in 1..n \/ i = n + 1
  <2> HIDE DEF entry
  <2> QED BY <1>1, PushFacts
<1>a. /\ log'[n + 1].row = r /\ log'[n + 1].from = rows[r].edit
      /\ log'[n + 1].fresh <=> ~rows[r].own_hist
  <2>1. entry.row = r /\ entry.from = rows[r].edit /\ (entry.fresh <=> ~rows[r].own_hist)
    OBVIOUS
  <2> HIDE DEF entry
  <2> QED BY <1>3, <2>1
<1>b. /\ \A i \in 1..n : Live(log[i].row)
      /\ \A x \in RowIds : rows[x].own_hist <=> \E i \in 1..n : log[i].row = x
  BY DEF Accounts, Logged
<1>c. \A i \in 1..n : log[i].fresh <=> \A j \in 1..n : log[j].row = log[i].row => i <= j
  BY DEF Accounts, Logged
<1>d. /\ \A i \in 1..n : log[i].fresh => ~OwnDirty(log[i].from)
      /\ \A x \in RowIds : ~rows[x].own_hist => ~OwnDirty(rows[x].edit)
  BY DEF Accounts, EditsLogged, Pending
<1>e. \A i, j \in 1..n :
        /\ log[j].row # log[i].row /\ Below(log[j].row, log[i].row)
        /\ Flips(rows[log[i].row].edit, log[i].from)
        => i < j
  BY DEF Accounts, PastsPrecede
<1>f. Len(log') = n + 1
  BY <1>3
<1> HIDE DEF entry, n
<1>4. Working'
  <2>1. r \in Nat
    BY <1>1, RowNat
  <2>2. r <= r
    BY <2>1
  <2>3. ~rows'[r].dead
    BY <1>2 DEF Live
  <2> QED BY <1>1, <2>2, <2>3 DEF Working, Live
<1>5. MarksFit' /\ LayersFit'
  <2>1. pc' \in {"Hist", "write"} /\ (pc' = "write" => rows[r].own_hist = TRUE)
    BY <1>1, RowFacts
  <2> QED BY <1>1, <2>1, HistMarks
<1>6. EditsLogged'
  <2>1. ASSUME NEW x \in RowIds, ~rows'[x].own_hist
        PROVE  ~OwnDirty(IF Pending' /\ x = job'.row THEN job'.to ELSE rows'[x].edit)
    <3>1. x # r /\ ~rows[x].own_hist
      BY <1>2, <2>1
    <3> QED BY <1>1, <1>2, <1>d, <3>1
  <2>2. ASSUME NEW i \in 1..(n + 1), log'[i].fresh PROVE ~OwnDirty(log'[i].from)
    <3>1. CASE i \in 1..n
      BY <1>3, <1>d, <2>2, <3>1
    <3>2. CASE i = n + 1
      BY <1>a, <1>d, <2>2, <3>2
    <3> QED BY <1>3, <3>1, <3>2
  <2> QED BY <1>2, <1>f, <2>1, <2>2 DEF EditsLogged
<1>7. Logged'
  <2>1. \A i \in 1..(n + 1) : ~rows'[log'[i].row].dead
    <3> SUFFICES ASSUME NEW i \in 1..(n + 1) PROVE ~rows'[log'[i].row].dead
      OBVIOUS
    <3>1. CASE i \in 1..n
      BY ZenonT(60), <1>2, <1>3, <1>b, <3>1 DEF Live
    <3>2. CASE i = n + 1
      BY <1>2, <1>a, <3>2 DEF Live
    <3> QED BY <1>3, <3>1, <3>2
  <2>2. ASSUME NEW x \in RowIds
        PROVE  rows'[x].own_hist <=> \E i \in 1..(n + 1) : log'[i].row = x
    <3>1. CASE x = r
      BY <1>2, <1>3, <1>a, <3>1
    <3>2. CASE x # r
      <4>1. (\E i \in 1..(n + 1) : log'[i].row = x) <=> \E i \in 1..n : log[i].row = x
        BY <1>3, <1>a, <3>2
      <4> QED BY <1>2, <1>b, <3>2, <4>1
    <3> QED BY <3>1, <3>2
  <2>3. ASSUME NEW i \in 1..(n + 1)
        PROVE  log'[i].fresh <=> \A j \in 1..(n + 1) : log'[j].row = log'[i].row => i <= j
    <3>1. CASE i \in 1..n
      <4>1. log[i].fresh <=> \A j \in 1..n : log[j].row = log[i].row => i <= j
        BY <1>c, <3>1
      <4>2. i <= n + 1
        BY <1>3, <3>1
      <4> QED BY <1>3, <3>1, <4>1, <4>2
    <3>2. CASE i = n + 1
      <4>1. log'[i].row = r /\ (log'[i].fresh <=> ~\E j \in 1..n : log[j].row = r)
        BY <1>a, <1>b, <3>2
      <4>2. \A j \in 1..n : ~(n + 1 <= j)
        BY <1>3
      <4> QED BY <1>3, <3>2, <4>1, <4>2
    <3> QED BY <1>3, <3>1, <3>2
  <2> QED BY <1>2, <1>f, <2>1, <2>2, <2>3 DEF Logged, Live
<1>8. LostAreClean'
  <2>1. \A x \in RowIds : rows'[x].dead => CleanRow(x)'
    <3> SUFFICES ASSUME NEW x \in RowIds, rows[x].dead PROVE CleanRow(x)'
      BY <1>2
    <3>1. CleanRow(x) /\ x # r
      BY DEF Accounts, LostAreClean, Live
    <3> QED BY <1>2, <3>1 DEF CleanRow
  <2> QED BY <1>1, <1>2, <2>1 DEF LostAreClean, Live
<1>9. InteriorClean'
  <2>1. HeldBelow("Hist", rows[r])' <=> HeldBelow("Hist", rows[r])
    BY <1>1, <1>2 DEF HeldBelow, IsOpened
  <2>2. job'.row = r /\ job'.to = to /\ rows'[r].edit = rows[r].edit
    BY <1>1, <1>2
  <2> QED BY <2>1, <2>2 DEF InteriorClean
<1>10. PastsPrecede'
  <2> SUFFICES ASSUME NEW i \in 1..(n + 1), NEW j \in 1..(n + 1),
                      log'[j].row # log'[i].row, Below(log[j].row, log[i].row)',
                      Flips(rows'[log'[i].row].edit, log'[i].from)
               PROVE  i < j
    BY <1>f DEF PastsPrecede
  <2>1. CASE i \in 1..n /\ j \in 1..n
    <3>1. Below(log[j].row, log[i].row)
      BY <1>2, <1>3, <2>1, BelowKept
    <3>2. Flips(rows[log[i].row].edit, log[i].from)
      BY ZenonT(60), <1>2, <1>3, <2>1
    <3>3. log[j].row # log[i].row
      BY <1>3, <2>1
    <3> QED BY <1>e, <2>1, <3>1, <3>2, <3>3
  <2>2. CASE i = n + 1
    <3>1. log'[i].row = r /\ log'[i].from = rows[r].edit
      BY <1>a, <2>2
    <3> QED BY <1>2, <3>1 DEF Flips
  <2>3. CASE i \in 1..n /\ j = n + 1
    BY <1>3, <2>3
  <2> QED BY <1>3, <2>1, <2>2, <2>3
<1> QED BY <1>4, <1>5, <1>6, <1>7, <1>8, <1>9, <1>10 DEF Accounts

\* A value command, a shroud or a clear: only the first and the last may flip,
\* and what a replaced row shows is all authored.
LEMMA CommandAccounts ==
  ASSUME IInv, IInv', Interiors, Accounts, NEW r \in RowIds,
         SetScalar(r) \/ SetPayload(r) \/ Delete(r) \/ Undelete(r) \/ ClearEdit(r)
  PROVE  Accounts'
<1>1. Live(r) /\ pc = "idle" /\ TypeOK /\ orphans = {}
  BY DEF SetScalar, SetPayload, Delete, Undelete, ClearEdit, ValueGate, Editable, Authoring,
         Room, IInv, Busy
<1>2. CASE SetScalar(r)
  <2>1. ~IsOpened(rows[r])
    BY <1>2 DEF SetScalar, ValueGate, Interiors, Tree
  <2> QED BY <1>1, <1>2, <2>1, EditAccounts DEF SetScalar, HeldBelow
<1>3. CASE SetPayload(r)
  BY <1>1, <1>3, EditAccounts DEF SetPayload, InteriorGate
<1>4. CASE Delete(r)
  <2>1. ~Flips(rows[r].edit, Shrouded(rows[r].edit))
    BY DEF Flips, Effective, Shrouded, InsertedDeleted, Deleted
  <2> QED BY <1>1, <1>4, <2>1, EditAccounts DEF Delete
<1>5. CASE Undelete(r)
  <2>1. ~Flips(rows[r].edit, Lifted(rows[r].edit))
    BY DEF Flips, Effective, Lifted, Inserted, Intact, Replaced
  <2> QED BY <1>1, <1>5, <2>1, EditAccounts DEF Undelete
<1>6. CASE ClearEdit(r)
  <2>1. ~HeldBelow("Hist", rows[r])
    <3>1. SUFFICES ASSUME HeldBelow("Hist", rows[r]) PROVE FALSE
      OBVIOUS
    <3>2. "Hist" \in Marks /\ Tree /\ LayersFit /\ r # None
      BY <1>1, RowNat DEF Marks, Interiors, Accounts
    <3>3. PICK x \in RowIds : Live(x) /\ rows[x].parent = r /\ rows[x].mark["Hist"]
      BY <1>1, <3>1, <3>2, HeldByMember
    <3>4. UnderAuthored(r)
      BY <1>6 DEF ClearEdit, UnderAuthored, Effective, IInv, RowsFit, Fits
    <3>5. rows[x].authored
      BY <1>1, <3>2, <3>3, <3>4 DEF Interiors, Browsed
    <3> QED BY <1>1, <3>3, <3>5, AuthoredQuiet
  <2> QED BY <1>1, <1>6, <2>1, EditAccounts DEF ClearEdit
<1> QED BY <1>2, <1>3, <1>4, <1>5, <1>6

LEMMA RevertAccounts ==
  ASSUME IInv, IInv', Interiors, Accounts, Revert PROVE Accounts'
<1> SUFFICES ASSUME NEW n, NEW r, NEW to, NEW fresh, NEW b,
                    n = Len(log), r = log[n].row, to = log[n].from, fresh = log[n].fresh,
                    b = (rows[r].own_hist /\ ~fresh)
             PROVE  Accounts'
  OBVIOUS
<1>1. /\ TypeOK /\ TypeOK' /\ orphans = {} /\ orphans' = {} /\ pc = "idle"
      /\ log \in Seq(EntriesIn(Len(rows), Len(store))) /\ log # << >>
      /\ log' = SubSeq(log, 1, n - 1) /\ layers' = layers
      /\ rows' = [rows EXCEPT ![r].own_hist = b]
      /\ pc' = IF fresh THEN "Hist" ELSE "write"
      /\ climber' = r /\ job' = [row |-> r, to |-> to, way |-> "lower"]
  BY DEF IInv, TypeOK, Busy, Revert, LastEntry, Releases
<1>2. /\ n \in Nat /\ n \in 1..n /\ Len(log') = n - 1
      /\ \A i \in 1..(n - 1) : log'[i] = log[i] /\ i \in 1..n /\ i < n
      /\ \A i \in 1..n : i \in 1..(n - 1) \/ i = n
  <2>1. n \in Nat /\ n \in 1..n /\ Len(log') = n - 1 /\ \A i \in 1..(n - 1) : log'[i] = log[i]
    BY <1>1, PopFacts
  <2> QED BY <2>1
<1>3. \A i \in 1..n : log[i].row \in RowIds /\ log[i].fresh \in BOOLEAN
  BY <1>1, EntryFacts
<1>4. r \in RowIds /\ fresh \in BOOLEAN /\ b \in BOOLEAN
  BY <1>2, <1>3
<1>b. /\ \A i \in 1..n : Live(log[i].row)
      /\ \A x \in RowIds : rows[x].own_hist <=> \E i \in 1..n : log[i].row = x
  BY DEF Accounts, Logged
<1>c. \A i \in 1..n : log[i].fresh <=> \A j \in 1..n : log[j].row = log[i].row => i <= j
  BY DEF Accounts, Logged
<1>d. /\ \A i \in 1..n : log[i].fresh => ~OwnDirty(log[i].from)
      /\ \A x \in RowIds : ~rows[x].own_hist => ~OwnDirty(rows[x].edit)
  BY <1>1 DEF Accounts, EditsLogged, Pending
<1>e. \A i, j \in 1..n :
        /\ log[j].row # log[i].row /\ Below(log[j].row, log[i].row)
        /\ Flips(rows[log[i].row].edit, log[i].from)
        => i < j
  BY DEF Accounts, PastsPrecede
<1>5. WritesHist(r, b)
  <2> QED BY <1>1, <1>4, HistEffect
<1>6. rows[r].own_hist = TRUE /\ b = ~fresh
  <2>1. rows[r].own_hist
    BY <1>2, <1>4, <1>b
  <2> QED BY <1>1, <1>4, <2>1, HistTyped
<1>7. /\ RowIds' = RowIds
      /\ \A x \in RowIds :
           /\ SameRecord(x) /\ rows'[x].edit = rows[x].edit /\ rows'[x].slot = rows[x].slot
           /\ rows'[x].dead = rows[x].dead /\ rows'[x].mark = rows[x].mark
           /\ rows'[x].own_hist = IF x = r THEN b ELSE rows[x].own_hist
  BY <1>5 DEF WritesHist, SameState
<1>8. Working'
  <2>1. r \in Nat
    BY <1>1, <1>4, RowNat
  <2>2. ~rows'[r].dead /\ r <= r
    BY SMTT(60), <1>2, <1>4, <1>7, <1>b, <2>1 DEF Live
  <2> QED BY <1>1, <2>2 DEF Working, Live
<1>9. MarksFit' /\ LayersFit'
  <2>1. /\ pc' \in {"Hist", "write"} /\ (pc' = "write" => rows[r].own_hist = b)
        /\ job'.way # "raise"
    BY <1>1, <1>4, <1>6
  <2> QED BY <1>1, <1>4, <1>5, <1>6, <2>1, HistMarks
<1>10. EditsLogged'
  <2>1. ASSUME NEW x \in RowIds, ~rows'[x].own_hist
        PROVE  ~OwnDirty(IF Pending' /\ x = job'.row THEN job'.to ELSE rows'[x].edit)
    <3>1. CASE x = r
      <4>1. fresh /\ Pending' /\ job'.row = x /\ job'.to = to
        BY ZenonT(60), <1>1, <1>6, <1>7, <2>1, <3>1 DEF Pending
      <4>2. ~OwnDirty(to)
        BY <1>2, <1>d, <4>1
      <4> QED BY SMTT(60), <4>1, <4>2
    <3>2. CASE x # r
      BY <1>1, <1>7, <1>d, <2>1, <3>2
    <3> QED BY <3>1, <3>2
  <2>2. \A i \in 1..(n - 1) : log'[i].fresh => ~OwnDirty(log'[i].from)
    BY <1>2, <1>d
  <2> QED BY <1>2, <1>7, <2>1, <2>2 DEF EditsLogged
<1>11. Logged'
  <2>1. ASSUME NEW i \in 1..(n - 1) PROVE ~rows'[log'[i].row].dead
    <3>1. log'[i] = log[i] /\ log[i].row \in RowIds /\ Live(log[i].row)
      BY <1>2, <1>3, <1>b
    <3> QED BY <1>7, <3>1 DEF Live
  <2>2. ASSUME NEW x \in RowIds
        PROVE  rows'[x].own_hist <=> \E i \in 1..(n - 1) : log'[i].row = x
    <3>1. CASE x # r
      <4>1. (\E i \in 1..(n - 1) : log'[i].row = x) <=> \E i \in 1..n : log[i].row = x
        BY <1>2, <3>1
      <4> QED BY <1>7, <1>b, <3>1, <4>1
    <3>2. CASE x = r
      <4>1. fresh <=> \A j \in 1..n : log[j].row = r => n <= j
        BY <1>2, <1>c
      <4>2. (\E i \in 1..(n - 1) : log'[i].row = x) <=> ~fresh
        <5>1. \A j \in 1..n : n <= j <=> j = n
          BY <1>2
        <5>2. \A j \in 1..(n - 1) : j # n
          BY <1>2
        <5> QED BY <1>2, <3>2, <4>1, <5>1, <5>2
      <4> QED BY <1>6, <1>7, <3>2, <4>2
    <3> QED BY <3>1, <3>2
  <2>3. ASSUME NEW i \in 1..(n - 1)
        PROVE  log'[i].fresh <=> \A j \in 1..(n - 1) : log'[j].row = log'[i].row => i <= j
    <3>1. log[i].fresh <=> \A j \in 1..n : log[j].row = log[i].row => i <= j
      BY <1>2, <1>c
    <3>2. i <= n
      BY SMTT(60), <1>2
    <3> QED BY <1>2, <3>1, <3>2
  <2> QED BY <1>2, <1>7, <2>1, <2>2, <2>3 DEF Logged, Live
<1>12. LostAreClean'
  <2>1. \A x \in RowIds : rows'[x].dead => CleanRow(x)'
    <3> SUFFICES ASSUME NEW x \in RowIds, rows[x].dead PROVE CleanRow(x)'
      BY <1>7
    <3>1. CleanRow(x) /\ x # r
      BY <1>2, <1>b DEF Accounts, LostAreClean, Live
    <3> QED BY <1>7, <3>1 DEF CleanRow
  <2> QED BY <1>1, <1>7, <2>1 DEF LostAreClean, Live
\* The pasts of the interior are undone first: nothing is left under a flip.
<1>13. InteriorClean'
  <2> SUFFICES ASSUME Flips(rows[r].edit, to) PROVE ~HeldBelow("Hist", rows[r])'
    BY SMTT(60), <1>1, <1>4, <1>7 DEF InteriorClean
  <2>1. HeldBelow("Hist", rows[r])' <=> HeldBelow("Hist", rows[r])
    BY <1>1, <1>4, <1>7 DEF HeldBelow, IsOpened
  <2>2. SUFFICES ASSUME HeldBelow("Hist", rows[r]) PROVE FALSE
    BY <2>1
  <2>3. "Hist" \in Marks /\ Tree /\ LayersFit /\ Live(r)
    BY <1>2, <1>b DEF Marks, Interiors, Accounts
  <2>4. PICK y \in RowIds : Live(y) /\ rows[y].parent = r /\ rows[y].mark["Hist"]
    BY <1>4, <2>2, <2>3, HeldByMember
  <2>5. PICK x \in RowIds : Below(x, y) /\ rows[x].own_hist
    BY <1>1, <2>4, MarkHasSource
  <2>6. Below(x, r) /\ x # r
    BY <1>1, <1>4, <2>3, <2>4, <2>5, BelowParent
  <2>7. PICK j \in 1..n : log[j].row = x
    BY <1>b, <2>5
  <2>8. n < j
    BY <1>2, <1>e, <2>6, <2>7
  <2> QED BY SMTT(60), <1>2, <2>8
<1>14. PastsPrecede'
  <2>a. Len(log') = n - 1
    BY <1>2
  <2> SUFFICES ASSUME NEW i \in 1..(n - 1), NEW j \in 1..(n - 1),
                      log'[j].row # log'[i].row, Below(log[j].row, log[i].row)',
                      Flips(rows'[log'[i].row].edit, log'[i].from)
               PROVE  i < j
    BY <2>a DEF PastsPrecede
  <2>b. log'[i] = log[i] /\ log'[j] = log[j] /\ log[i].row \in RowIds /\ log[j].row \in RowIds
    BY <1>2, <1>3
  <2>1. Below(log[j].row, log[i].row)
    BY <1>7, <2>b, BelowKept
  <2>2. Flips(rows[log[i].row].edit, log[i].from) /\ log[j].row # log[i].row
    BY <1>7, <2>b
  <2> QED BY <1>2, <1>e, <2>1, <2>2
<1> QED BY <1>8, <1>9, <1>10, <1>11, <1>12, <1>13, <1>14 DEF Accounts

\* A round of a climb that stops: its row's mark is in line already.
LEMMA StopAccounts ==
  ASSUME IInv, IInv', Accounts, NEW m \in Marks, pc = m, Climbed(m),
         rows' = rows, layers' = layers, log' = log, orphans' = orphans,
         rows[climber].mark[m] <=> Asks(m, climber)
  PROVE  Accounts'
<1>1. /\ climber \in RowIds /\ job.row \in RowIds /\ RowIds' = RowIds /\ m \in {"Hist", "Dirt"}
      /\ pc # "idle" /\ pc' \in {"write", "idle"} /\ orphans = {}
  BY DEF IInv, Busy, RowIds, Climbed, Marks
<1>2. Working'
  <2>1. Live(job.row) /\ job.way \in {"raise", "lower"}
    BY <1>1 DEF Accounts, Working
  <2>2. job.row <= job.row
    BY <1>1, RowNat DEF IInv
  <2>3. pc' # "idle" => climber' = job.row /\ job' = job
    BY DEF Climbed
  <2> QED BY <2>1, <2>2, <2>3 DEF Working, Live
<1>3. \A r \in RowIds, k \in Marks : Asks(k, r)' <=> Asks(k, r)
  BY DEF Asks, Own, HeldBelow
<1>4. MarksFit'
  <2> SUFFICES ASSUME NEW r \in RowIds, NEW k \in Marks
               PROVE  ~Behind(k, r)' /\ (rows'[r].mark[k] <=> Asks(k, r)')
    BY <1>1 DEF MarksFit
  <2>1. ~Behind(k, r)'
    BY <1>1 DEF Behind, Marks
  <2>2. rows[r].mark[k] <=> Asks(k, r)
    <3>1. CASE Behind(k, r)
      BY <1>1, <3>1 DEF Behind, Marks
    <3>2. CASE ~Behind(k, r)
      BY <3>2 DEF Accounts, MarksFit
    <3> QED BY <3>1, <3>2
  <2> QED BY <1>3, <2>1, <2>2
<1>5. LayersFit'
  <2>1. \A k \in Marks : \A p : Flagged(k, p)' = Flagged(k, p)
    BY DEF Flagged, Members, Live
  <2> QED BY <1>1, <2>1 DEF Accounts, LayersFit, Live, IsOpened
<1>6. EditsLogged' /\ InteriorClean'
  <2>1. CASE m = "Hist"
    <3>1. Pending /\ Pending' /\ job' = job
      BY <2>1 DEF Pending, Climbed
    <3> QED BY <1>1, <3>1 DEF Accounts, EditsLogged, InteriorClean, HeldBelow
  <2>2. CASE m # "Hist"
    <3>1. ~Pending /\ ~Pending'
      BY <1>1, <2>2 DEF Pending, Climbed
    <3> QED BY <1>1, <3>1 DEF Accounts, EditsLogged, InteriorClean
  <2> QED BY <2>1, <2>2
<1>7. Logged' /\ PastsPrecede'
  BY SMTT(60), <1>1 DEF Accounts, Logged, PastsPrecede, Live, Below, ParentClosed
<1>8. LostAreClean'
  BY <1>1 DEF Accounts, LostAreClean, Live, CleanRow
<1> QED BY <1>2, <1>4, <1>5, <1>6, <1>7, <1>8 DEF Accounts

\* A round that flags: one mark, one count, and the climb goes to the parent.
LEMMA FlagAccounts ==
  ASSUME IInv, IInv', Interiors, Accounts, NEW m \in Marks, NEW on \in BOOLEAN,
         pc = m, ClimbOn(m), log' = log, orphans' = orphans,
         Flag(m, on, IF on THEN 1 ELSE -1), on <=> job.way = "raise",
         on <=> Asks(m, climber), on <=> ~rows[climber].mark[m]
  PROVE  Accounts'
<1> SUFFICES ASSUME NEW c, NEW p, NEW by, c = climber, p = rows[climber].parent,
                    by = IF on THEN 1 ELSE -1
             PROVE  Accounts'
  OBVIOUS
<1>1. /\ TypeOK /\ TypeOK' /\ c \in RowIds /\ job.row \in RowIds /\ orphans = {} /\ orphans' = {}
      /\ m \in {"Hist", "Dirt"} /\ pc # "idle" /\ pc # "orphan" /\ by \in Int
      /\ Live(c) /\ Live(job.row) /\ c <= job.row /\ job.way \in {"raise", "lower"}
      /\ p < c /\ p \in 0..Len(rows) /\ c \in Nat /\ job.row \in Nat
  <2>1. TypeOK /\ TypeOK' /\ m \in {"Hist", "Dirt"} /\ pc # "idle" /\ pc # "orphan" /\ by \in Int
    BY DEF IInv, Marks
  <2>2. c \in RowIds /\ job.row \in RowIds /\ orphans = {} /\ orphans' = {}
    BY <2>1 DEF IInv, Busy
  <2>3. Live(c) /\ Live(job.row) /\ c <= job.row /\ job.way \in {"raise", "lower"}
    BY <2>1 DEF Accounts, Working
  <2>4. p < c /\ p \in 0..Len(rows) /\ c \in Nat /\ job.row \in Nat
    BY <2>1, <2>2, RowFacts, RowNat DEF Interiors, Tree
  <2> QED BY <2>1, <2>2, <2>3, <2>4
<1>2. WritesMark(m, on, by)
  BY <1>1, MarkEffect
\* Only the parent counts in the layer written.
<1> DEFINE l == IF p = None THEN Root ELSE rows[p].slot.layer
<1>3. /\ p # None => p \in RowIds /\ Live(p) /\ IsOpened(rows[p])
      /\ l \in 1..Len(layers)
      /\ \A q \in RowIds : IsOpened(rows[q]) /\ rows[q].slot.layer = l => q = p
  <2>1. p # None => p \in RowIds /\ Live(p) /\ IsOpened(rows[p])
    BY <1>1 DEF IInv, Held, RowIds, None
  <2>2. Root \in 1..Len(layers)
    BY <1>1 DEF TypeOK, Root
  <2>3. l \in 1..Len(layers)
    BY <1>1, <2>1, <2>2, RowFacts
  <2>4. \A q \in RowIds : IsOpened(rows[q]) /\ rows[q].slot.layer = l => q = p
    BY <2>1 DEF Interiors, Tree, Apart
  <2> QED BY <2>1, <2>3, <2>4
<1>4. /\ RowIds' = RowIds
      /\ \A x \in RowIds :
           /\ SameRecord(x) /\ rows'[x].edit = rows[x].edit /\ rows'[x].slot = rows[x].slot
           /\ rows'[x].dead = rows[x].dead /\ rows'[x].own_hist = rows[x].own_hist
           /\ \A k \in Marks :
                rows'[x].mark[k] = IF x = c /\ k = m THEN on ELSE rows[x].mark[k]
  BY <1>2 DEF WritesMark, SameState
<1>5. \A i \in 1..Len(layers), k \in Marks :
        layers'[i].count[k] = IF i = l /\ k = m THEN layers[i].count[k] + by ELSE layers[i].count[k]
  BY <1>2 DEF WritesMark, HoldingLayer
<1>6. \A i \in 1..Len(layers), k \in Marks : layers[i].count[k] \in Int
  <2> SUFFICES ASSUME NEW i \in 1..Len(layers), NEW k \in Marks PROVE layers[i].count[k] \in Int
    OBVIOUS
  <2>1. layers[i] \in LayersOf(Len(rows))
    BY <1>1 DEF TypeOK
  <2> QED BY <2>1 DEF LayersOf
<1> HIDE DEF l
\* What a row asks for changes at the parent only.
<1>7. ASSUME NEW x \in RowIds, NEW k \in Marks, x # p \/ k # m PROVE Asks(k, x)' <=> Asks(k, x)
  <2>1. Own(k, rows[x])' <=> Own(k, rows[x])
    BY <1>4 DEF Own
  <2>2. IsOpened(rows[x])' <=> IsOpened(rows[x])
    BY <1>4 DEF IsOpened
  <2>3. IsOpened(rows[x]) =>
          layers'[rows'[x].slot.layer].count[k] = layers[rows[x].slot.layer].count[k]
    <3> SUFFICES ASSUME IsOpened(rows[x])
                 PROVE  layers'[rows'[x].slot.layer].count[k] = layers[rows[x].slot.layer].count[k]
      OBVIOUS
    <3>1. rows[x].slot.layer \in 1..Len(layers) /\ rows'[x].slot = rows[x].slot
      BY <1>1, <1>4, RowFacts
    <3>2. rows[x].slot.layer = l => k # m
      BY <1>3, <1>7
    <3> QED BY <1>5, <3>1, <3>2
  <2>4. HeldBelow(k, rows[x])' <=> HeldBelow(k, rows[x])
    BY <2>2, <2>3 DEF HeldBelow
  <2> QED BY <2>1, <2>4 DEF Asks
<1>8. p # None =>
        /\ on => Asks(m, p)'
        /\ Asks(m, p)' => on \/ rows[p].mark[m]
  <2> SUFFICES ASSUME p # None
               PROVE  (on => Asks(m, p)') /\ (Asks(m, p)' => on \/ rows[p].mark[m])
    OBVIOUS
  <2>1. l = rows[p].slot.layer /\ rows'[p].slot = rows[p].slot
    BY <1>3, <1>4 DEF l
  <2>2. layers'[l].count[m] = layers[l].count[m] + by /\ layers[l].count[m] \in Int
    BY SMTT(60), <1>3, <1>5, <1>6
  <2>3. layers[l].count[m] = Cardinality(Flagged(m, p)) /\ Cardinality(Flagged(m, p)) \in Nat
    BY ZenonT(60), <1>1, <1>3, <2>1, FlaggedFacts DEF Accounts, LayersFit
  <2>4. HeldBelow(m, rows[p])' <=> layers[l].count[m] + by > 0
    BY ZenonT(60), <1>3, <2>1, <2>2 DEF HeldBelow, IsOpened
  <2>5. HeldBelow(m, rows[p]) <=> layers[l].count[m] > 0
    BY <1>3, <2>1 DEF HeldBelow
  <2>6. on => Asks(m, p)'
    <3>1. on => layers[l].count[m] + by > 0
      BY <2>3
    <3> QED BY <2>4, <3>1 DEF Asks
  <2>7. ~on /\ Asks(m, p)' => Asks(m, p)
    <3>1. ~on /\ layers[l].count[m] + by > 0 => layers[l].count[m] > 0
      BY <2>2
    <3>2. Own(m, rows[p])' <=> Own(m, rows[p])
      BY <1>3, <1>4 DEF Own
    <3> QED BY <2>4, <2>5, <3>1, <3>2 DEF Asks
  <2>8. Asks(m, p) <=> rows[p].mark[m]
    <3>1. ~Behind(m, p)
      BY <1>1 DEF Behind
    <3> QED BY <1>3, <3>1 DEF Accounts, MarksFit
  <2> QED BY <2>6, <2>7, <2>8
<1>9. /\ p # None => pc' = pc /\ climber' = p /\ job' = job
      /\ p = None => pc' \in {"write", "idle"}
      /\ pc' # "idle" => job' = job
      /\ pc' = "write" => climber' = job.row
      /\ Pending' <=> Pending
  BY <1>1 DEF ClimbOn, Climbed, Pending
<1>10. Working'
  <2>1. ~rows'[job.row].dead /\ (p # None => ~rows'[p].dead)
    BY <1>1, <1>3, <1>4 DEF Live
  <2>2. p <= job.row /\ job.row <= job.row
    BY <1>1
  <2>3. pc' # "idle" => (climber' = p /\ p # None) \/ climber' = job.row
    BY <1>9
  <2>4. pc' \in {"write", "orphan"} => climber' = job.row
    BY <1>1, <1>9, <2>3
  <2> QED BY <1>1, <1>9, <2>1, <2>2, <2>3, <2>4 DEF Working, Live
<1>11. MarksFit'
  <2> SUFFICES ASSUME NEW x \in RowIds, NEW k \in Marks
               PROVE  /\ ~Behind(k, x)' => (rows'[x].mark[k] <=> Asks(k, x)')
                      /\ Behind(k, x)' /\ job'.way = "raise" => Asks(k, x)'
                      /\ Behind(k, x)' /\ Asks(k, x)' =>
                           job'.way = "raise" \/ rows'[x].mark[k]
    BY <1>4 DEF MarksFit
  <2>1. Behind(k, x)' <=> x = p /\ k = m
    <3>1. CASE p # None
      BY <1>1, <1>9, <3>1 DEF Behind, Marks
    <3>2. CASE p = None
      <4>1. x # None
        BY <1>1, RowNat
      <4> QED BY <1>9, <3>2, <4>1 DEF Behind, Marks
    <3> QED BY <3>1, <3>2
  <2>2. CASE x = p /\ k = m
    <3>1. x # c /\ p # None
      BY <1>1, <2>2, RowNat
    <3>2. rows'[x].mark[k] = rows[x].mark[k]
      BY <1>4, <3>1
    <3> QED BY <1>8, <1>9, <2>1, <2>2, <3>1, <3>2
  <2>3. CASE x = c /\ k = m
    <3>1. x # p
      BY <1>1, <2>3
    <3>2. rows'[x].mark[k] <=> Asks(k, x)'
      BY <1>4, <1>7, <2>3, <3>1
    <3> QED BY <2>1, <3>1, <3>2
  <2>4. CASE ~(x = p /\ k = m) /\ ~(x = c /\ k = m)
    <3>1. ~Behind(k, x)
      BY <1>1, <2>4 DEF Behind, Marks
    <3>2. rows[x].mark[k] <=> Asks(k, x)
      BY <3>1 DEF Accounts, MarksFit
    <3>3. rows'[x].mark[k] = rows[x].mark[k]
      BY <1>4, <2>4
    <3>4. Asks(k, x)' <=> Asks(k, x)
      BY <1>7, <2>4
    <3> QED BY <2>1, <2>4, <3>2, <3>3, <3>4
  <2> QED BY <2>2, <2>3, <2>4
<1>12. ASSUME NEW q, NEW k \in Marks
       PROVE  Cardinality(Flagged(k, q)') =
                IF q = p /\ k = m THEN Cardinality(Flagged(k, q)) + by ELSE Cardinality(Flagged(k, q))
  <2>1. CASE q = p /\ k = m
    <3>1. /\ IsFiniteSet(Flagged(k, q)) /\ Cardinality(Flagged(k, q)) \in Nat
          /\ \A x : x \in Flagged(k, q) <=>
               x \in RowIds /\ ~rows[x].dead /\ rows[x].parent = q /\ rows[x].mark[k]
      BY <1>1, FlaggedFacts
    <3>2. \A x : x \in Flagged(k, q)' <=>
            x \in RowIds' /\ ~rows'[x].dead /\ rows'[x].parent = q /\ rows'[x].mark[k]
      BY SMTT(60), <1>1 DEF TypeOK, Flagged, Members, RowIds, Live
    <3>3. \A x \in RowIds : rows'[x].parent = rows[x].parent
      BY <1>4 DEF SameRecord
    <3>4. \A x : x \in Flagged(k, q)' <=>
            IF x = c THEN on ELSE x \in Flagged(k, q)
      <4> SUFFICES ASSUME NEW x
                   PROVE  x \in Flagged(k, q)' <=> IF x = c THEN on ELSE x \in Flagged(k, q)
        OBVIOUS
      <4>1. CASE x = c
        <5>1. c \in RowIds' /\ ~rows'[c].dead /\ rows'[c].parent = q
          BY <1>1, <1>4, <2>1, <3>3 DEF Live
        <5>2. rows'[c].mark[k] = on
          BY <1>1, <1>4, <2>1
        <5> QED BY <3>2, <4>1, <5>1, <5>2
      <4>2. CASE x # c
        <5>1. x \in RowIds =>
                /\ rows'[x].dead = rows[x].dead /\ rows'[x].parent = rows[x].parent
                /\ rows'[x].mark[k] = rows[x].mark[k]
          BY <1>4, <3>3, <4>2
        <5> QED BY <1>4, <3>1, <3>2, <4>2, <5>1
      <4> QED BY <4>1, <4>2
    <3>5. c \in Flagged(k, q) <=> ~on
      BY <1>1, <2>1, <3>1 DEF Live
    <3>6. CASE on
      <4>1. Flagged(k, q)' = Flagged(k, q) \cup {c} /\ c \notin Flagged(k, q)
        BY <3>4, <3>5, <3>6
      <4>2. Cardinality(Flagged(k, q) \cup {c}) = Cardinality(Flagged(k, q)) + 1
        BY ZenonT(60), <3>1, <4>1, FS_AddElement
      <4> QED BY <2>1, <3>6, <4>1, <4>2
    <3>7. CASE ~on
      <4>1. Flagged(k, q)' = Flagged(k, q) \ {c} /\ c \in Flagged(k, q)
        BY <3>4, <3>5, <3>7
      <4>2. Cardinality(Flagged(k, q) \ {c}) = Cardinality(Flagged(k, q)) - 1
        BY <3>1, <4>1, FS_RemoveElement
      <4>3. Cardinality(Flagged(k, q)') = Cardinality(Flagged(k, q)) + by
        BY <3>1, <3>7, <4>1, <4>2
      <4> QED BY <2>1, <4>3
    <3> QED BY <3>6, <3>7
  <2>2. CASE ~(q = p /\ k = m)
    <3>1. \A x \in RowIds : rows[x].parent = q => rows'[x].mark[k] = rows[x].mark[k]
      BY <1>4, <2>2
    <3>2. Flagged(k, q)' = Flagged(k, q)
      BY <1>1, <1>4, <3>1, FlaggedStays
    <3> QED BY <2>2, <3>2
  <2> QED BY <2>1, <2>2
<1>13. LayersFit'
  <2>1. Root \in 1..Len(layers)
    BY <1>1 DEF TypeOK, Root
  <2>2. p # None => l # Root
    BY <1>3 DEF l, Interiors, Tree
  <2>3. \A k \in Marks : layers'[Root].count[k] = Cardinality(Flagged(k, None)')
    <3> SUFFICES ASSUME NEW k \in Marks
                 PROVE  layers'[Root].count[k] = Cardinality(Flagged(k, None)')
      OBVIOUS
    <3>1. Root = l <=> p = None
      BY <2>2 DEF l
    <3>2. layers[Root].count[k] = Cardinality(Flagged(k, None))
      BY DEF Accounts, LayersFit
    <3> QED BY <1>5, <1>12, <2>1, <3>1, <3>2
  <2>4. ASSUME NEW k \in Marks, NEW q \in RowIds, ~rows'[q].dead, IsOpened(rows'[q])
        PROVE  layers'[rows'[q].slot.layer].count[k] = Cardinality(Flagged(k, q)')
    <3>1. Live(q) /\ IsOpened(rows[q]) /\ rows'[q].slot = rows[q].slot
      BY <1>4, <2>4 DEF Live, IsOpened
    <3>2. rows[q].slot.layer \in 1..Len(layers)
      BY <1>1, <3>1, RowFacts
    <3>3. rows[q].slot.layer = l <=> q = p
      <4>1. q # None
        BY <1>1, RowNat
      <4>2. q = p => rows[q].slot.layer = l
        BY <4>1 DEF l
      <4> QED BY <1>3, <3>1, <4>2
    <3>4. layers[rows[q].slot.layer].count[k] = Cardinality(Flagged(k, q))
      BY <3>1 DEF Accounts, LayersFit
    <3> QED BY <1>5, <1>12, <3>1, <3>2, <3>3, <3>4
  <2> QED BY <1>4, <2>3, <2>4 DEF LayersFit, Live
<1>14. EditsLogged'
  <2>1. Pending => job' = job
    BY <1>1, <1>9 DEF Pending
  <2> QED BY <1>4, <1>9, <2>1 DEF Accounts, EditsLogged
<1>15. Logged'
  <2>1. \A i \in 1..Len(log) : ~rows'[log[i].row].dead
    <3> SUFFICES ASSUME NEW i \in 1..Len(log) PROVE ~rows'[log[i].row].dead
      OBVIOUS
    <3>1. Live(log[i].row) /\ log[i].row \in RowIds
      BY <1>1, EntryFacts DEF Accounts, Logged
    <3> QED BY <1>4, <3>1 DEF Live
  <2> QED BY <1>4, <2>1 DEF Accounts, Logged, Live
<1>16. LostAreClean'
  <2> SUFFICES ASSUME NEW x \in RowIds, rows'[x].dead PROVE CleanRow(x)'
    BY <1>1, <1>4 DEF LostAreClean, Live
  <2>1. rows[x].dead
    BY <1>4
  <2>2. CleanRow(x) /\ x # c
    BY <1>1, <2>1 DEF Accounts, LostAreClean, Live
  <2> QED BY <1>4, <2>2 DEF CleanRow
\* The job's row is not past the climber: its own interior is not counted again.
<1>17. InteriorClean'
  <2> SUFFICES ASSUME Pending', Flips(rows'[job'.row].edit, job'.to)
               PROVE  ~HeldBelow("Hist", rows[job.row])'
    BY DEF InteriorClean
  <2>1. Pending /\ job' = job /\ "Hist" \in Marks
    BY <1>1, <1>9 DEF Pending, Marks
  <2>2. ~HeldBelow("Hist", rows[job.row])
    BY <1>1, <1>4, <2>1 DEF Accounts, InteriorClean
  <2>3. job.row # p
    BY SMTT(60), <1>1
  <2>4. SUFFICES ASSUME IsOpened(rows[job.row])
                 PROVE  layers'[rows'[job.row].slot.layer].count["Hist"] =
                          layers[rows[job.row].slot.layer].count["Hist"]
    BY <1>1, <1>4, <2>1, <2>2 DEF HeldBelow, IsOpened
  <2>5. /\ rows'[job.row].slot = rows[job.row].slot
        /\ rows[job.row].slot.layer \in 1..Len(layers) /\ rows[job.row].slot.layer # l
    BY <1>1, <1>3, <1>4, <2>3, <2>4, RowFacts
  <2> QED BY <1>5, <2>1, <2>5
<1>18. PastsPrecede'
  <2> SUFFICES ASSUME NEW i \in 1..Len(log), NEW j \in 1..Len(log),
                      log[j].row # log[i].row, Below(log[j].row, log[i].row)',
                      Flips(rows'[log[i].row].edit, log[i].from)
               PROVE  i < j
    BY DEF PastsPrecede
  <2>1. log[i].row \in RowIds /\ log[j].row \in RowIds
    BY <1>1, EntryFacts
  <2>2. Below(log[j].row, log[i].row)
    BY <1>4, <2>1, BelowKept
  <2>3. Flips(rows[log[i].row].edit, log[i].from)
    BY <1>4, <2>1
  <2> QED BY <2>2, <2>3 DEF Accounts, PastsPrecede
<1> QED BY <1>10, <1>11, <1>13, <1>14, <1>15, <1>16, <1>17, <1>18 DEF Accounts

LEMMA MarkAccounts ==
  ASSUME IInv, IInv', Interiors, Accounts, NEW m \in Marks, Raise(m) \/ Lower(m)
  PROVE  Accounts'
<1>1. /\ pc = m /\ log' = log /\ orphans' = orphans /\ climber \in RowIds /\ Behind(m, climber)
      /\ rows[climber].mark[m] \in BOOLEAN
  <2>1. pc = m /\ log' = log /\ orphans' = orphans
    BY DEF Raise, Lower
  <2>2. climber \in RowIds
    BY <2>1 DEF IInv, Busy, Marks
  <2>3. rows[climber] \in RowsOf(Len(rows), Len(layers), Len(store))
    BY <2>2, RowFacts DEF IInv
  <2>4. rows[climber].mark[m] \in BOOLEAN
    BY <2>3 DEF RowsOf
  <2> QED BY <2>1, <2>2, <2>4 DEF Behind
<1>2. /\ job.way = "raise" => Asks(m, climber)
      /\ Asks(m, climber) => job.way = "raise" \/ rows[climber].mark[m]
  BY <1>1 DEF Accounts, MarksFit
<1>3. Keeps(m, rows[climber]) <=> Asks(m, climber)
  BY DEF Keeps, Asks
<1>4. CASE Raise(m)
  <2>1. CASE rows[climber].mark[m] /\ Climbed(m) /\ UNCHANGED <<rows, layers>>
    <3>1. rows[climber].mark[m] <=> Asks(m, climber)
      BY <1>2, <1>4, <2>1 DEF Raise
    <3> QED BY <1>1, <2>1, <3>1, StopAccounts
  <2>2. CASE ~rows[climber].mark[m] /\ Flag(m, TRUE, 1) /\ ClimbOn(m)
    <3>1. job.way = "raise" /\ Flag(m, TRUE, IF TRUE THEN 1 ELSE -1)
      BY <1>4, <2>2 DEF Raise
    <3>2. TRUE \in BOOLEAN /\ (TRUE <=> job.way = "raise") /\ (TRUE <=> Asks(m, climber))
      BY <1>2, <3>1
    <3>3. TRUE <=> ~rows[climber].mark[m]
      BY <2>2
    <3> QED BY <1>1, <2>2, <3>1, <3>2, <3>3, FlagAccounts
  <2> QED BY <1>4, <2>1, <2>2 DEF Raise
<1>5. CASE Lower(m)
  <2>1. CASE (~rows[climber].mark[m] \/ Keeps(m, rows[climber])) /\ Climbed(m)
             /\ UNCHANGED <<rows, layers>>
    <3>1. job.way # "raise"
      BY <1>5 DEF Lower
    <3>2. rows[climber].mark[m] <=> Asks(m, climber)
      BY <1>2, <1>3, <2>1, <3>1
    <3> QED BY <1>1, <2>1, <3>2, StopAccounts
  <2>2. CASE rows[climber].mark[m] /\ ~Keeps(m, rows[climber]) /\ Flag(m, FALSE, -1) /\ ClimbOn(m)
    <3>1. job.way # "raise" /\ Flag(m, FALSE, IF FALSE THEN 1 ELSE -1)
      BY <1>5, <2>2 DEF Lower
    <3>2. FALSE \in BOOLEAN /\ (FALSE <=> job.way = "raise") /\ (FALSE <=> Asks(m, climber))
      BY <1>3, <2>2, <3>1
    <3>3. FALSE <=> ~rows[climber].mark[m]
      BY <2>2
    <3> QED BY <1>1, <2>2, <3>1, <3>2, <3>3, FlagAccounts
  <2> QED BY <1>5, <2>1, <2>2 DEF Lower
<1> QED BY <1>4, <1>5

\* write_state: what a flip lets go of is clean, and its entries' flips look
\* into interiors that show no history.
LEMMA WriteAccounts ==
  ASSUME IInv, IInv', Interiors, Accounts, WriteState PROVE Accounts'
<1> SUFFICES ASSUME NEW r, NEW to, r = job.row, to = job.to PROVE Accounts'
  OBVIOUS
<1>1. /\ TypeOK /\ TypeOK' /\ WritesEdit /\ r \in RowIds /\ pc = "write" /\ orphans = {}
      /\ layers' = layers /\ log' = log /\ climber' = r
      /\ job'.row = r /\ job'.way = IF OwnDirty(to) THEN "raise" ELSE "lower"
      /\ pc' \in {"Dirt", "orphan"} /\ Live(r) /\ climber = r
      /\ orphans' = Orphaned(rows[r], r, to)
  <2>1. TypeOK /\ TypeOK' /\ pc = "write" /\ orphans = {} /\ layers' = layers /\ log' = log
    BY DEF IInv, Busy, WriteState
  <2>2. job \in JobsOf(Len(rows), Len(store))
    BY <2>1 DEF TypeOK
  <2>3. job'.row = r /\ job'.way = IF OwnDirty(to) THEN "raise" ELSE "lower"
    BY <2>2 DEF WriteState, JobsOf
  <2>4. Live(r) /\ climber = r
    BY <2>1 DEF Accounts, Working
  <2> QED BY <2>1, <2>3, <2>4, WriteEffect DEF WriteState
<1> DEFINE flips == Flips(rows[r].edit, to)
<1>2. /\ RowIds' = RowIds
      /\ \A x \in RowIds :
           /\ SameRecord(x) /\ rows'[x].dead = rows[x].dead
           /\ rows'[x].own_hist = rows[x].own_hist /\ rows'[x].mark = rows[x].mark
           /\ rows'[x].edit = IF x = r THEN to ELSE rows[x].edit
           /\ rows'[x].slot = IF x = r /\ flips THEN Unopened ELSE rows[x].slot
  <2>1. \A x \in RowIds : x = r => Flips(rows[x].edit, to) = flips
    OBVIOUS
  <2> HIDE DEF flips
  <2> QED BY <1>1, <2>1 DEF WritesEdit
<1>3. \A x \in RowIds, m \in Marks : rows[x].mark[m] <=> Asks(m, x)
  BY <1>1 DEF Accounts, MarksFit, Behind, Marks
<1>4. flips => ~HeldBelow("Hist", rows[r])
  BY <1>1 DEF Accounts, InteriorClean, Pending
<1> HIDE DEF flips
<1>5. CountsKept
  BY <1>1 DEF CountsKept
<1>6. Working'
  <2>1. r \in Nat
    BY <1>1, RowNat
  <2>2. r <= r
    BY <2>1
  <2>3. ~rows'[r].dead
    BY <1>1, <1>2 DEF Live
  <2> QED BY <1>1, <2>2, <2>3 DEF Working, Live
<1>7. MarksFit'
  <2> SUFFICES ASSUME NEW x \in RowIds, NEW m \in Marks
               PROVE  /\ ~Behind(m, x)' => (rows'[x].mark[m] <=> Asks(m, x)')
                      /\ Behind(m, x)' /\ job'.way = "raise" => Asks(m, x)'
                      /\ Behind(m, x)' /\ Asks(m, x)' =>
                           job'.way = "raise" \/ rows'[x].mark[m]
    BY <1>2 DEF MarksFit
  <2>1. Behind(m, x)' <=> x = r /\ m = "Dirt"
    BY <1>1 DEF Behind, Marks
  <2>2. (rows[x].mark[m] <=> Asks(m, x)) /\ rows'[x].mark[m] = rows[x].mark[m]
    BY <1>2, <1>3
  <2>3. CASE x # r
    <3>1. Asks(m, x)' <=> Asks(m, x)
      BY <1>1, <1>2, <1>5, <2>3, AsksStays
    <3> QED BY <2>1, <2>2, <2>3, <3>1
  <2>4. CASE x = r /\ m = "Hist"
    <3>1. Own(m, rows[x])' <=> Own(m, rows[x])
      BY <1>2, <2>4 DEF Own
    <3>2. HeldBelow(m, rows[x])' <=> HeldBelow(m, rows[x])
      <4>1. CASE flips
        <5>1. rows'[x].slot = Unopened
          BY <1>2, <2>4, <4>1
        <5>2. ~HeldBelow(m, rows[x])'
          BY <5>1 DEF HeldBelow, IsOpened, Unopened
        <5> QED BY <1>4, <2>4, <4>1, <5>2
      <4>2. CASE ~flips
        <5>1. rows'[x].slot = rows[x].slot
          BY <1>2, <4>2
        <5> QED BY <1>1, <5>1 DEF HeldBelow, IsOpened
      <4> QED BY <4>1, <4>2
    <3> QED BY <2>1, <2>2, <2>4, <3>1, <3>2 DEF Asks
  <2>5. CASE x = r /\ m = "Dirt"
    <3>1. Own(m, rows[x])' <=> OwnDirty(to)
      BY <1>2, <2>5 DEF Own
    <3>2. HeldBelow(m, rows[x])' => HeldBelow(m, rows[x])
      <4>1. CASE flips
        <5>1. rows'[x].slot = Unopened
          BY <1>2, <2>5, <4>1
        <5> QED BY <5>1 DEF HeldBelow, IsOpened, Unopened
      <4>2. CASE ~flips
        <5>1. rows'[x].slot = rows[x].slot
          BY <1>2, <4>2
        <5> QED BY <1>1, <5>1 DEF HeldBelow, IsOpened
      <4> QED BY <4>1, <4>2
    <3>3. job'.way = "raise" <=> OwnDirty(to)
      BY <1>1
    <3> QED BY <2>1, <2>2, <2>5, <3>1, <3>2, <3>3 DEF Asks
  <2> QED BY <2>3, <2>4, <2>5 DEF Marks
<1>8. LayersFit'
  <2>1. \A m \in Marks : \A p : Flagged(m, p)' = Flagged(m, p)
    BY <1>1, <1>2, FlaggedStays
  <2>2. ASSUME NEW p \in RowIds, ~rows'[p].dead, IsOpened(rows'[p])
        PROVE  Live(p) /\ rows'[p].slot = rows[p].slot
    BY <1>2, <2>2 DEF Live, IsOpened, Unopened
  <2> QED BY <1>1, <1>2, <1>5, <2>1, <2>2, LayersStay DEF Accounts
<1>9. EditsLogged'
  <2>1. \A x \in RowIds : ~rows'[x].own_hist => ~OwnDirty(rows'[x].edit)
    <3> SUFFICES ASSUME NEW x \in RowIds, ~rows[x].own_hist PROVE ~OwnDirty(rows'[x].edit)
      BY <1>2
    <3>1. ~OwnDirty(IF x = r THEN to ELSE rows[x].edit)
      BY <1>1 DEF Accounts, EditsLogged, Pending
    <3> QED BY <1>2, <3>1
  <2>2. ~Pending'
    BY <1>1 DEF Pending
  <2> QED BY <1>1, <1>2, <2>1, <2>2 DEF Accounts, EditsLogged
<1>a. \A i \in 1..Len(log) : Live(log[i].row) /\ log[i].row \in RowIds /\ rows[log[i].row].own_hist
  BY <1>1, EntryFacts DEF Accounts, Logged
<1>10. Logged'
  <2>1. \A i \in 1..Len(log) : ~rows'[log[i].row].dead
    BY <1>2, <1>a DEF Live
  <2> QED BY SMTT(60), <1>1, <1>2, <2>1 DEF Accounts, Logged, Live
<1>11. LostAreClean'
  <2>1. \A x \in RowIds : rows'[x].dead => CleanRow(x)'
    <3> SUFFICES ASSUME NEW x \in RowIds, rows[x].dead PROVE CleanRow(x)'
      BY <1>2
    <3>1. CleanRow(x) /\ x # r
      BY <1>1 DEF Accounts, LostAreClean, Live
    <3> QED BY <1>2, <3>1 DEF CleanRow
  <2>2. ASSUME NEW x \in orphans' PROVE CleanRow(x)' /\ x > r
    <3>1. flips /\ IsOpened(rows[r]) /\ x \in Members(r)
      BY <1>1, <2>2 DEF Orphaned, flips
    <3>2. x \in RowIds /\ Live(x) /\ rows[x].parent = r
      BY <1>1, <3>1, MembersAre DEF Live
    <3>3. x > r /\ x # r
      <4>1. r < x
        BY <3>2 DEF Interiors, Tree
      <4> QED BY <1>1, <3>2, <4>1, RowNat
    <3>4. ~rows[x].mark["Hist"]
      <4>1. "Hist" \in Marks /\ LayersFit
        BY DEF Marks, Accounts
      <4> QED BY <1>1, <1>4, <3>1, <3>2, <4>1, HeldMeans
    <3>5. ~rows[x].mark["Dirt"]
      BY <1>1, <3>2, <3>3, <3>4, DirtUnderHist DEF Interiors
    <3>6. ~rows[x].own_hist /\ ~OwnDirty(rows[x].edit)
      BY <1>3, <3>2, <3>4, <3>5 DEF Asks, Own, Marks
    <3> QED BY <1>2, <3>2, <3>3, <3>4, <3>5, <3>6 DEF CleanRow, Marks
  <2> QED BY <1>1, <1>2, <2>1, <2>2 DEF LostAreClean, Live
<1>12. InteriorClean'
  BY <1>1 DEF InteriorClean, Pending
<1>13. PastsPrecede'
  <2> SUFFICES ASSUME NEW i \in 1..Len(log), NEW j \in 1..Len(log),
                      log[j].row # log[i].row, Below(log[j].row, log[i].row)',
                      Flips(rows'[log[i].row].edit, log[i].from)
               PROVE  i < j
    BY <1>1 DEF PastsPrecede
  <2>1. Below(log[j].row, log[i].row)
    BY <1>1, <1>2, <1>a, BelowKept
  <2>2. CASE log[i].row = r /\ flips
    <3>1. log[j].row = r
      BY <1>1, <1>4, <1>a, <2>1, <2>2, InteriorQuiet
    <3> QED BY <2>2, <3>1
  <2>3. CASE ~(log[i].row = r /\ flips)
    <3>1. Effective(rows'[log[i].row].edit) = Effective(rows[log[i].row].edit)
      BY <1>2, <1>a, <2>3 DEF flips, Flips
    <3>2. Flips(rows[log[i].row].edit, log[i].from)
      BY <3>1 DEF Flips
    <3> QED BY <2>1, <3>2 DEF Accounts, PastsPrecede
  <2> QED BY <2>2, <2>3
<1> QED BY <1>6, <1>7, <1>8, <1>9, <1>10, <1>11, <1>12, <1>13 DEF Accounts

\* orphan_interior: the next generation is as clean as the one that dies.
LEMMA WalkAccounts ==
  ASSUME IInv, IInv', Interiors, Accounts, OrphanWalk PROVE Accounts'
<1>1. /\ TypeOK /\ TypeOK' /\ WritesDead /\ pc = "orphan" /\ pc' \in {"Dirt", "orphan"}
      /\ layers' = layers /\ log' = log /\ climber' = climber /\ job' = job
      /\ job.row \in RowIds /\ climber = job.row /\ orphans' = Deeper(orphans)
      /\ orphans \subseteq RowIds /\ CountsKept
  <2>1. TypeOK /\ TypeOK' /\ pc = "orphan" /\ layers' = layers
    BY DEF IInv, OrphanWalk
  <2>2. job.row \in RowIds /\ climber = job.row /\ orphans \subseteq RowIds
    BY <2>1 DEF IInv, Busy, TypeOK, Accounts, Working
  <2> QED BY <2>1, <2>2, WalkEffect DEF OrphanWalk, CountsKept
<1>2. /\ RowIds' = RowIds
      /\ \A x \in RowIds :
           /\ SameRecord(x) /\ rows'[x].edit = rows[x].edit /\ rows'[x].slot = rows[x].slot
           /\ rows'[x].own_hist = rows[x].own_hist /\ rows'[x].mark = rows[x].mark
           /\ rows'[x].dead = IF x \in orphans THEN TRUE ELSE rows[x].dead
  BY <1>1 DEF WritesDead
<1>3. \A x \in orphans : CleanRow(x) /\ x > job.row /\ Live(x)
  BY DEF Accounts, LostAreClean, Interiors, Strays
<1>4. ASSUME NEW x \in RowIds, x > job.row, NEW m \in Marks PROVE rows[x].mark[m] <=> Asks(m, x)
  <2>1. job.row \in Nat /\ x \in Nat
    BY <1>1, RowNat
  <2>2. x # climber
    BY <1>1, <1>4, <2>1
  <2> QED BY <2>2 DEF Accounts, MarksFit, Behind
<1>5. Working'
  <2>1. job.row \in Nat
    BY <1>1, RowNat
  <2>2. job.row \notin orphans /\ Live(job.row) /\ job.way \in {"raise", "lower"}
    <3>1. ~(job.row > job.row)
      BY <2>1
    <3> QED BY <1>1, <1>3, <3>1 DEF Accounts, Working
  <2>3. ~rows'[job.row].dead
    BY <1>1, <1>2, <2>2 DEF Live
  <2>4. job.row <= job.row
    BY <2>1
  <2> QED BY <1>1, <2>2, <2>3, <2>4 DEF Working, Live
<1>6. MarksFit'
  <2> SUFFICES ASSUME NEW x \in RowIds, NEW m \in Marks
               PROVE  /\ ~Behind(m, x)' => (rows'[x].mark[m] <=> Asks(m, x)')
                      /\ Behind(m, x)' /\ job'.way = "raise" => Asks(m, x)'
                      /\ Behind(m, x)' /\ Asks(m, x)' =>
                           job'.way = "raise" \/ rows'[x].mark[m]
    BY <1>2 DEF MarksFit
  <2>1. Behind(m, x)' <=> Behind(m, x)
    BY <1>1 DEF Behind, Marks
  <2>2. Asks(m, x)' <=> Asks(m, x)
    BY <1>1, <1>2, AsksStays
  <2>3. rows'[x].mark[m] = rows[x].mark[m]
    BY <1>2
  <2> QED BY <1>1, <2>1, <2>2, <2>3 DEF Accounts, MarksFit
<1>7. LayersFit'
  <2>1. \A x \in RowIds, m \in Marks : rows[x].mark[m] => rows'[x].dead = rows[x].dead
    BY <1>2, <1>3 DEF CleanRow
  <2>2. \A m \in Marks : \A p : Flagged(m, p)' = Flagged(m, p)
    BY <1>1, <1>2, <2>1, FlaggedStays
  <2>3. ASSUME NEW p \in RowIds, ~rows'[p].dead PROVE Live(p) /\ rows'[p].slot = rows[p].slot
    BY <1>2, <2>3 DEF Live
  <2> QED BY <1>1, <1>2, <2>2, <2>3, LayersStay DEF Accounts
<1>8. EditsLogged' /\ InteriorClean'
  <2>1. ~Pending /\ ~Pending'
    BY <1>1 DEF Pending
  <2> QED BY <1>1, <1>2, <2>1 DEF Accounts, EditsLogged, InteriorClean
<1>a. \A i \in 1..Len(log) : Live(log[i].row) /\ log[i].row \in RowIds /\ rows[log[i].row].own_hist
  BY <1>1, EntryFacts DEF Accounts, Logged
<1>9. Logged'
  <2>1. \A i \in 1..Len(log) : ~rows'[log[i].row].dead
    BY <1>2, <1>3, <1>a DEF Live, CleanRow
  <2> QED BY ZenonT(60), <1>1, <1>2, <2>1 DEF Accounts, Logged, Live
<1>10. LostAreClean'
  <2>1. \A x \in RowIds : rows'[x].dead => CleanRow(x)'
    <3> SUFFICES ASSUME NEW x \in RowIds, rows'[x].dead PROVE CleanRow(x)'
      OBVIOUS
    <3>1. CASE x \in orphans
      BY <1>2, <1>3, <3>1 DEF CleanRow
    <3>2. CASE x \notin orphans
      <4>1. CleanRow(x)
        BY <1>2, <3>2 DEF Accounts, LostAreClean, Live
      <4> QED BY <1>2, <4>1 DEF CleanRow
    <3> QED BY <3>1, <3>2
  <2>2. ASSUME NEW y \in orphans' PROVE CleanRow(y)' /\ y > job.row
    <3>1. PICK x \in orphans : IsOpened(rows[x]) /\ y \in Members(x)
      BY <1>1, <2>2 DEF Deeper
    <3>2. x \in RowIds /\ Live(x) /\ CleanRow(x) /\ x > job.row
      BY <1>1, <1>3
    <3>3. y \in RowIds /\ Live(y) /\ rows[y].parent = x
      BY <1>1, <3>1, MembersAre DEF Live
    <3>4. y > job.row
      <4>1. x < y
        BY <3>3 DEF Interiors, Tree
      <4>2. x \in Nat /\ y \in Nat /\ job.row \in Nat
        BY <1>1, <3>2, <3>3, RowNat
      <4> QED BY <3>2, <4>1, <4>2
    <3>5. \A m \in Marks : ~rows[y].mark[m]
      <4> SUFFICES ASSUME NEW m \in Marks PROVE ~rows[y].mark[m]
        OBVIOUS
      <4>1. ~HeldBelow(m, rows[x])
        BY <1>4, <3>2 DEF CleanRow, Asks
      <4> QED BY <1>1, <3>1, <3>2, <3>3, <4>1, HeldMeans DEF Accounts
    <3>6. ~rows[y].own_hist /\ ~OwnDirty(rows[y].edit)
      BY <1>4, <3>3, <3>4, <3>5 DEF Asks, Own, Marks
    <3> QED BY <1>2, <3>3, <3>4, <3>5, <3>6 DEF CleanRow
  <2> QED BY <1>1, <1>2, <2>1, <2>2 DEF LostAreClean, Live
<1>11. PastsPrecede'
  <2> SUFFICES ASSUME NEW i \in 1..Len(log), NEW j \in 1..Len(log),
                      log[j].row # log[i].row, Below(log[j].row, log[i].row)',
                      Flips(rows'[log[i].row].edit, log[i].from)
               PROVE  i < j
    BY <1>1 DEF PastsPrecede
  <2>1. Below(log[j].row, log[i].row)
    BY <1>1, <1>2, <1>a, BelowKept
  <2>2. Flips(rows[log[i].row].edit, log[i].from)
    BY <1>2, <1>a
  <2> QED BY <2>1, <2>2 DEF Accounts, PastsPrecede
<1> QED BY <1>5, <1>6, <1>7, <1>8, <1>9, <1>10, <1>11 DEF Accounts

\* A slot written where nothing was, and the rows minted under it.
LEMMA SlotMarks ==
  ASSUME IInv, IInv', Accounts, pc = "idle",
         NEW r \in 0..Len(rows), NEW slot, NEW k \in Nat, WritesSlot(r, slot, k), CountsKept,
         r # None => Live(r) /\ rows[r].slot = Unopened,
         IsOpened([slot |-> slot]) => \A m \in Marks : layers'[slot.layer].count[m] = 0,
         \A x \in RowIds' : x \notin RowIds => Fresh(rows'[x])
  PROVE  /\ LayersFit'
         /\ \A x \in RowIds, m \in Marks : rows'[x].mark[m] <=> Asks(m, x)'
         /\ \A x \in RowIds' : x \notin RowIds => \A m \in Marks :
              ~rows'[x].mark[m] /\ ~HeldBelow(m, rows[x])'
<1>1. /\ TypeOK /\ TypeOK' /\ orphans = {} /\ RowIds \subseteq RowIds' /\ LayersFit
      /\ \A x \in RowIds :
           /\ SameRecord(x) /\ rows'[x].edit = rows[x].edit /\ rows'[x].dead = rows[x].dead
           /\ rows'[x].own_hist = rows[x].own_hist /\ rows'[x].mark = rows[x].mark
           /\ rows'[x].slot = IF x = r THEN slot ELSE rows[x].slot
  BY DEF IInv, Busy, WritesSlot, Accounts
<1>2. ASSUME NEW x \in RowIds', x \notin RowIds, NEW m \in Marks
      PROVE  /\ ~rows'[x].mark[m] /\ ~IsOpened(rows'[x])
             /\ ~HeldBelow(m, rows[x])'
  <2>1. Fresh(rows'[x])
    BY <1>2
  <2>2. ~rows'[x].mark[m]
    BY <2>1 DEF Fresh, Unmarked
  <2>3. ~IsOpened(rows'[x])
    BY <2>1 DEF Fresh, IsOpened, Unopened
  <2> QED BY <2>2, <2>3 DEF HeldBelow
<1>3. \A x \in RowIds, m \in Marks : rows[x].mark[m] <=> Asks(m, x)
  BY DEF Accounts, MarksFit, Behind, Marks
<1>4. ASSUME NEW x \in RowIds, NEW m \in Marks PROVE rows'[x].mark[m] <=> Asks(m, x)'
  <2>1. CASE x # r
    <3>1. Asks(m, x)' <=> Asks(m, x)
      BY <1>1, <2>1, AsksStays
    <3> QED BY <1>1, <1>3, <3>1
  <2>2. CASE x = r
    <3>1. r # None /\ rows[x].slot = Unopened /\ rows'[x].slot = slot
      BY <1>1, <2>2, RowNat
    <3>2. ~HeldBelow(m, rows[x])
      BY <3>1 DEF HeldBelow, IsOpened, Unopened
    <3>3. ~HeldBelow(m, rows[x])'
      <4>1. IsOpened(rows'[x]) <=> IsOpened([slot |-> slot])
        BY <3>1 DEF IsOpened
      <4> QED BY <3>1, <4>1 DEF HeldBelow
    <3>4. Own(m, rows[x])' <=> Own(m, rows[x])
      BY <1>1 DEF Own
    <3>5. Asks(m, x)' <=> Asks(m, x)
      BY <3>2, <3>3, <3>4 DEF Asks
    <3> QED BY <1>1, <1>3, <3>5
  <2> QED BY <2>1, <2>2
<1>5. LayersFit'
  <2>1. \A m \in Marks : \A p : Flagged(m, p)' = Flagged(m, p)
    BY <1>1, <1>2, FlaggedStays
  <2>2. ASSUME NEW p \in RowIds', ~rows'[p].dead, IsOpened(rows'[p])
        PROVE  \/ p \in RowIds /\ Live(p) /\ rows'[p].slot = rows[p].slot
               \/ \A m \in Marks :
                    layers'[rows'[p].slot.layer].count[m] = 0 /\ Flagged(m, p) = {}
    <3>1. p \in RowIds
      BY <1>2, <2>2 DEF Marks
    <3>2. CASE p # r
      BY <1>1, <2>2, <3>1, <3>2 DEF Live
    <3>3. CASE p = r
      <4>1. r # None /\ rows[r].slot = Unopened /\ rows'[r].slot = slot
        BY <1>1, <3>1, <3>3, RowNat
      <4>2. ~IsOpened(rows[r])
        BY <4>1 DEF IsOpened, Unopened
      <4>3. ASSUME NEW m \in Marks PROVE Flagged(m, p) = {}
        <5>1. \A x : x \notin Flagged(m, p)
          BY ZenonT(60), <1>1, <3>3, <4>1, <4>2, FlaggedFacts DEF IInv, Held, Live
        <5> HIDE DEF Flagged
        <5> QED BY <5>1
      <4>4. IsOpened([slot |-> slot])
        BY <2>2, <3>3, <4>1 DEF IsOpened
      <4> QED BY <3>3, <4>1, <4>3, <4>4
    <3> QED BY <3>2, <3>3
  <2> QED BY <1>1, <2>1, <2>2, LayersStay
<1> QED BY <1>2, <1>4, <1>5

\* A descent: scanned rows carry neither an edit nor history.
LEMMA DescentAccounts ==
  ASSUME IInv, IInv', Accounts, pc = "idle", pc' = "idle", log' = log,
         NEW r \in RowIds, Live(r), rows[r].slot = Unopened,
         NEW slot, NEW k \in Nat, WritesSlot(r, slot, k), CountsKept,
         IsOpened([slot |-> slot]) => \A m \in Marks : layers'[slot.layer].count[m] = 0,
         \A x \in RowIds' : x \notin RowIds =>
           Fresh(rows'[x]) /\ rows'[x].edit = Intact /\ ~rows'[x].own_hist
  PROVE  Accounts'
<1>1. /\ TypeOK /\ orphans = {} /\ orphans' = {} /\ RowIds \subseteq RowIds' /\ r \in 0..Len(rows)
      /\ \A x \in RowIds :
           /\ SameRecord(x) /\ rows'[x].edit = rows[x].edit /\ rows'[x].dead = rows[x].dead
           /\ rows'[x].own_hist = rows[x].own_hist /\ rows'[x].mark = rows[x].mark
  <2>1. r \in 0..Len(rows)
    BY DEF IInv, TypeOK, RowIds
  <2> QED BY <2>1 DEF IInv, Busy, WritesSlot
<1>2. /\ LayersFit'
      /\ \A x \in RowIds, m \in Marks : rows'[x].mark[m] <=> Asks(m, x)'
      /\ \A x \in RowIds' : x \notin RowIds => \A m \in Marks :
           ~rows'[x].mark[m] /\ ~HeldBelow(m, rows[x])'
  BY <1>1, SlotMarks
<1>3. ~OwnDirty(Intact)
  BY DEF OwnDirty, Intact
<1>4. Working' /\ InteriorClean' /\ ~Pending' /\ ~Pending
  BY DEF Working, InteriorClean, Pending
<1>5. MarksFit'
  <2> SUFFICES ASSUME NEW x \in RowIds', NEW m \in Marks
               PROVE  ~Behind(m, x)' /\ (rows'[x].mark[m] <=> Asks(m, x)')
    BY DEF MarksFit
  <2>1. ~Behind(m, x)'
    BY DEF Behind, Marks
  <2>2. CASE x \notin RowIds
    <3>1. ~rows'[x].own_hist /\ ~OwnDirty(rows'[x].edit)
      BY <1>3, <2>2
    <3>2. ~Own(m, rows[x])'
      BY <3>1 DEF Own
    <3> QED BY <1>2, <2>1, <2>2, <3>2 DEF Asks
  <2> QED BY <1>2, <2>1, <2>2
<1>6. EditsLogged'
  <2> SUFFICES ASSUME NEW x \in RowIds', ~rows'[x].own_hist PROVE ~OwnDirty(rows'[x].edit)
    BY <1>4 DEF Accounts, EditsLogged
  <2>1. CASE x \in RowIds
    <3>1. ~OwnDirty(rows[x].edit)
      BY <1>1, <1>4, <2>1 DEF Accounts, EditsLogged
    <3> QED BY <1>1, <2>1, <3>1
  <2>2. CASE x \notin RowIds
    BY <1>3, <2>2
  <2> QED BY <2>1, <2>2
<1>a. \A i \in 1..Len(log) : Live(log[i].row) /\ log[i].row \in RowIds
  BY <1>1, EntryFacts DEF Accounts, Logged
<1>7. Logged'
  <2>1. \A i \in 1..Len(log) : ~rows'[log[i].row].dead
    BY <1>1, <1>a DEF Live
  <2>2. ASSUME NEW x \in RowIds' PROVE rows'[x].own_hist <=> \E i \in 1..Len(log) : log[i].row = x
    <3>1. CASE x \in RowIds
      BY <1>1, <3>1 DEF Accounts, Logged
    <3>2. CASE x \notin RowIds
      BY <1>a, <3>2
    <3> QED BY <3>1, <3>2
  <2> QED BY <2>1, <2>2 DEF Accounts, Logged, Live
<1>8. LostAreClean'
  <2> SUFFICES ASSUME NEW x \in RowIds', rows'[x].dead PROVE CleanRow(x)'
    BY <1>1 DEF LostAreClean, Live
  <2>1. x \in RowIds
    BY DEF Fresh
  <2>2. CleanRow(x)
    BY <1>1, <2>1 DEF Accounts, LostAreClean, Live
  <2> QED BY <1>1, <2>1, <2>2 DEF CleanRow
<1>9. PastsPrecede'
  <2> SUFFICES ASSUME NEW i \in 1..Len(log), NEW j \in 1..Len(log),
                      log[j].row # log[i].row, Below(log[j].row, log[i].row)',
                      Flips(rows'[log[i].row].edit, log[i].from)
               PROVE  i < j
    BY DEF PastsPrecede
  <2>1. Below(log[j].row, log[i].row)
    BY <1>1, <1>a, BelowKept
  <2>2. Flips(rows[log[i].row].edit, log[i].from)
    BY <1>1, <1>a
  <2> QED BY <2>1, <2>2 DEF Accounts, PastsPrecede
<1> QED BY <1>2, <1>4, <1>5, <1>6, <1>7, <1>8, <1>9 DEF Accounts

LEMMA FaultAccounts ==
  ASSUME IInv, IInv', Accounts, NEW r \in RowIds, DescendFaults(r) PROVE Accounts'
<1>1. /\ pc = "idle" /\ pc' = "idle" /\ log' = log /\ Live(r) /\ rows[r].slot = Unopened
      /\ TypeOK /\ 0 \in Nat
  BY DEF DescendFaults, Descendable, IInv
<1>2. WritesSlot(r, FaultSlot, 0) /\ layers' = layers
  BY <1>1, FaultEffect
<1>3. CountsKept /\ ~IsOpened([slot |-> FaultSlot])
  BY <1>2 DEF CountsKept, IsOpened, FaultSlot
<1>4. RowIds' = RowIds
  BY <1>2 DEF WritesSlot
<1> QED BY <1>1, <1>2, <1>3, <1>4, DescentAccounts

LEMMA OpenAccounts ==
  ASSUME IInv, IInv', Accounts, NEW r \in RowIds, DescendOpens(r) PROVE Accounts'
<1> DEFINE recs == Scanned[Backing(r)]
           slot == Opened(Len(layers) + 1)
<1>1. /\ pc = "idle" /\ pc' = "idle" /\ log' = log /\ Live(r) /\ rows[r].slot = Unopened
  BY DEF DescendOpens, Descendable
<1>2. /\ recs \in Seq(Records) /\ WritesSlot(r, slot, Len(recs))
      /\ \A x \in RowIds' : x \notin RowIds =>
           MintedFrom(rows'[x], recs[x - Len(rows)], InteriorBase(r), r, UnderAuthored(r))
      /\ \A i \in 1..Len(layers) : layers'[i] = layers[i]
      /\ \A m \in Marks : layers'[Len(layers) + 1].count[m] = 0
  BY OpenEffect
<1>3. slot.layer = Len(layers) + 1
  BY DEF Opened
<1> HIDE DEF recs, slot
<1>4. CountsKept /\ Len(recs) \in Nat
  BY <1>2 DEF CountsKept
<1>5. \A x \in RowIds' : x \notin RowIds =>
        Fresh(rows'[x]) /\ rows'[x].edit = Intact /\ ~rows'[x].own_hist
  BY <1>2 DEF MintedFrom
<1>6. \A m \in Marks : layers'[slot.layer].count[m] = 0
  BY <1>2, <1>3
<1> QED BY <1>1, <1>2, <1>4, <1>5, <1>6, DescentAccounts

\* An insertion: the new row is the only one with a new entry, and that entry
\* puts it back as it was minted.
LEMMA InsertAccounts ==
  ASSUME IInv, IInv', Accounts, NEW kind \in Kinds, NEW p \in 0..Len(rows),
         NEW prev \in 0..Len(rows), p # None => IsOpened(rows[p]), Insert(kind, p, prev)
  PROVE  Accounts'
<1> SUFFICES ASSUME NEW n, NEW r, NEW v, NEW e, n = Len(log), r = Len(rows) + 1,
                    v = Len(store) + 1,
                    e = [row |-> r, from |-> InsertedDeleted(v), fresh |-> TRUE]
             PROVE  Accounts'
  OBVIOUS
<1>1. /\ WritesSlot(None, Unopened, 1) /\ r \in RowIds'
      /\ \A x \in RowIds' : x \notin RowIds => x = r
      /\ InsertedInto(rows'[r], kind, p, v)
      /\ \A i \in 1..Len(layers) : layers'[i].count = layers[i].count
      /\ log' = Append(log, e) /\ pc' = "Hist" /\ climber' = r
      /\ job' = [row |-> r, to |-> Inserted(v), way |-> "raise"]
  BY InsertEffect
<1>2. /\ TypeOK /\ TypeOK' /\ pc = "idle" /\ orphans = {} /\ orphans' = {} /\ CountsKept
      /\ RowIds \subseteq RowIds' /\ r \notin RowIds /\ r \in Nat /\ ~Pending /\ Pending'
      /\ \A x \in RowIds :
           /\ SameRecord(x) /\ rows'[x].edit = rows[x].edit /\ rows'[x].dead = rows[x].dead
           /\ rows'[x].own_hist = rows[x].own_hist /\ rows'[x].mark = rows[x].mark
           /\ x \in RowIds' /\ x # r
  <2>1. pc = "idle" /\ TypeOK /\ TypeOK' /\ orphans = {}
    BY DEF Insert, Authoring, Room, IInv, Busy
  <2>2. r \notin RowIds /\ r \in Nat
    BY SMTT(60), <2>1 DEF TypeOK, RowIds
  <2>3. orphans' = {} /\ RowIds \subseteq RowIds' /\ CountsKept /\ ~Pending /\ Pending'
    BY <1>1, <2>1 DEF WritesSlot, CountsKept, Pending
  <2>4. \A x \in RowIds :
           /\ SameRecord(x) /\ rows'[x].edit = rows[x].edit /\ rows'[x].dead = rows[x].dead
           /\ rows'[x].own_hist = rows[x].own_hist /\ rows'[x].mark = rows[x].mark
    BY <1>1 DEF WritesSlot
  <2> QED BY <2>1, <2>2, <2>3, <2>4
<1>3. /\ Fresh(rows'[r]) /\ rows'[r].own_hist /\ rows'[r].edit = InsertedDeleted(v)
      /\ ~rows'[r].dead /\ ~OwnDirty(InsertedDeleted(v))
  BY <1>1 DEF InsertedInto, Fresh, OwnDirty, InsertedDeleted
<1>4. /\ LayersFit'
      /\ \A x \in RowIds, m \in Marks : rows'[x].mark[m] <=> Asks(m, x)'
      /\ \A x \in RowIds' : x \notin RowIds => \A m \in Marks :
           ~rows'[x].mark[m] /\ ~HeldBelow(m, rows[x])'
  <2>1. None \in 0..Len(rows) /\ 1 \in Nat /\ ~IsOpened([slot |-> Unopened])
    BY SMTT(60), <1>2 DEF TypeOK, None, IsOpened, Unopened
  <2>2. \A x \in RowIds' : x \notin RowIds => Fresh(rows'[x])
    BY <1>1, <1>3
  <2> QED BY <1>1, <1>2, <2>1, <2>2, SlotMarks
<1>5. /\ n \in Nat /\ Len(log') = n + 1 /\ log'[n + 1] = e /\ n + 1 \in 1..(n + 1)
      /\ \A i \in 1..n :
           log'[i] = log[i] /\ log[i].row \in RowIds /\ i \in 1..(n + 1) /\ i < n + 1
      /\ \A i \in 1..(n + 1) : i \in 1..n \/ i = n + 1
  BY <1>1, <1>2, PushFacts
<1>6. e.row = r /\ e.from = InsertedDeleted(v) /\ e.fresh
  OBVIOUS
<1>b. /\ \A i \in 1..n : Live(log[i].row)
      /\ \A x \in RowIds : rows[x].own_hist <=> \E i \in 1..n : log[i].row = x
  BY DEF Accounts, Logged
<1>c. \A i \in 1..n : log[i].fresh <=> \A j \in 1..n : log[j].row = log[i].row => i <= j
  BY DEF Accounts, Logged
<1>d. /\ \A i \in 1..n : log[i].fresh => ~OwnDirty(log[i].from)
      /\ \A x \in RowIds : ~rows[x].own_hist => ~OwnDirty(rows[x].edit)
  BY <1>2 DEF Accounts, EditsLogged
<1>e. \A i, j \in 1..n :
        /\ log[j].row # log[i].row /\ Below(log[j].row, log[i].row)
        /\ Flips(rows[log[i].row].edit, log[i].from)
        => i < j
  BY DEF Accounts, PastsPrecede
<1>f. Len(log') = n + 1
  BY <1>5
<1>7. Working'
  <2>1. r <= r
    BY <1>2
  <2>2. job'.row = r /\ job'.way = "raise" /\ climber' = r /\ pc' = "Hist"
    BY <1>1
  <2> QED BY <1>3, <2>1, <2>2 DEF Working, Live
<1>8. MarksFit'
  <2> SUFFICES ASSUME NEW x \in RowIds', NEW m \in Marks
               PROVE  /\ ~Behind(m, x)' => (rows'[x].mark[m] <=> Asks(m, x)')
                      /\ Behind(m, x)' /\ job'.way = "raise" => Asks(m, x)'
                      /\ Behind(m, x)' /\ Asks(m, x)' =>
                           job'.way = "raise" \/ rows'[x].mark[m]
    BY DEF MarksFit
  <2>1. (Behind(m, x)' <=> x = r /\ m = "Hist") /\ job'.way = "raise"
    BY <1>1 DEF Behind, Marks
  <2>2. CASE x \in RowIds
    BY <1>2, <1>4, <2>1, <2>2
  <2>3. CASE x = r /\ m = "Hist"
    <3>1. Own(m, rows[x])'
      BY <1>3, <2>3 DEF Own
    <3> QED BY <2>1, <2>3, <3>1 DEF Asks
  <2>4. CASE x = r /\ m = "Dirt"
    <3>1. ~Own(m, rows[x])'
      BY <1>3, <2>4 DEF Own
    <3>2. ~rows'[x].mark[m] /\ ~HeldBelow(m, rows[x])'
      BY <1>2, <1>4, <2>4
    <3> QED BY <2>1, <2>4, <3>1, <3>2 DEF Asks
  <2> QED BY <1>1, <2>2, <2>3, <2>4 DEF Marks
<1>9. EditsLogged'
  <2>1. ASSUME NEW x \in RowIds', ~rows'[x].own_hist
        PROVE  ~OwnDirty(IF Pending' /\ x = job'.row THEN job'.to ELSE rows'[x].edit)
    <3>1. x \in RowIds /\ x # r /\ job'.row = r
      BY <1>1, <1>2, <1>3, <2>1
    <3>2. ~OwnDirty(rows[x].edit)
      BY <1>2, <1>d, <2>1, <3>1
    <3> QED BY <1>2, <3>1, <3>2
  <2>2. ASSUME NEW i \in 1..(n + 1), log'[i].fresh PROVE ~OwnDirty(log'[i].from)
    <3>1. CASE i \in 1..n
      BY <1>5, <1>d, <2>2, <3>1
    <3>2. CASE i = n + 1
      BY <1>3, <1>5, <1>6, <3>2
    <3> QED BY <1>5, <3>1, <3>2
  <2> QED BY <1>f, <2>1, <2>2 DEF EditsLogged
<1>10. Logged'
  <2>1. ASSUME NEW i \in 1..(n + 1) PROVE ~rows'[log'[i].row].dead
    <3>1. CASE i \in 1..n
      <4>1. log'[i] = log[i] /\ log[i].row \in RowIds /\ Live(log[i].row)
        BY <1>5, <1>b, <3>1
      <4> QED BY SMTT(60), <1>2, <4>1 DEF Live
    <3>2. CASE i = n + 1
      BY <1>3, <1>5, <1>6, <3>2
    <3> QED BY <1>5, <3>1, <3>2
  <2>2. ASSUME NEW x \in RowIds'
        PROVE  rows'[x].own_hist <=> \E i \in 1..(n + 1) : log'[i].row = x
    <3>1. CASE x = r
      BY <1>3, <1>5, <1>6, <3>1
    <3>2. CASE x # r
      <4>1. x \in RowIds /\ rows'[x].own_hist = rows[x].own_hist
        BY <1>1, <1>2, <3>2
      <4>2. (\E i \in 1..(n + 1) : log'[i].row = x) <=> \E i \in 1..n : log[i].row = x
        BY <1>5, <1>6, <3>2
      <4> QED BY <1>b, <4>1, <4>2
    <3> QED BY <3>1, <3>2
  <2>3. ASSUME NEW i \in 1..(n + 1)
        PROVE  log'[i].fresh <=> \A j \in 1..(n + 1) : log'[j].row = log'[i].row => i <= j
    <3>1. CASE i \in 1..n
      <4>1. log[i].fresh <=> \A j \in 1..n : log[j].row = log[i].row => i <= j
        BY <1>c, <3>1
      <4>2. i <= n + 1
        BY <1>5, <3>1
      <4> QED BY <1>5, <3>1, <4>1, <4>2
    <3>2. CASE i = n + 1
      <4>1. log'[i].row = r /\ log'[i].fresh
        BY <1>5, <1>6, <3>2
      <4>2. \A j \in 1..n : log'[j].row # r
        BY <1>2, <1>5
      <4>3. n + 1 <= n + 1
        BY <1>5
      <4> QED BY <1>5, <3>2, <4>1, <4>2, <4>3
    <3> QED BY <1>5, <3>1, <3>2
  <2> QED BY <1>f, <2>1, <2>2, <2>3 DEF Logged, Live
<1>11. LostAreClean'
  <2> SUFFICES ASSUME NEW x \in RowIds', rows'[x].dead PROVE CleanRow(x)'
    BY <1>2 DEF LostAreClean, Live
  <2>1. x \in RowIds
    BY <1>1, <1>3
  <2>2. CleanRow(x)
    BY <1>2, <2>1 DEF Accounts, LostAreClean, Live
  <2> QED BY <1>2, <2>1, <2>2 DEF CleanRow
<1>12. InteriorClean'
  <2>1. ~HeldBelow("Hist", rows[r])'
    BY <1>1, <1>2, <1>4 DEF Marks
  <2>2. job'.row = r
    BY <1>1
  <2> QED BY <2>1, <2>2 DEF InteriorClean
<1>13. PastsPrecede'
  <2> SUFFICES ASSUME NEW i \in 1..(n + 1), NEW j \in 1..(n + 1),
                      log'[j].row # log'[i].row, Below(log[j].row, log[i].row)',
                      Flips(rows'[log'[i].row].edit, log'[i].from)
               PROVE  i < j
    BY <1>f DEF PastsPrecede
  <2>1. CASE i \in 1..n /\ j \in 1..n
    <3>1. /\ log'[i] = log[i] /\ log'[j] = log[j]
          /\ log[i].row \in RowIds /\ log[j].row \in RowIds
      BY <1>5, <2>1
    <3>2. Below(log[j].row, log[i].row)
      BY <1>2, <3>1, BelowKept
    <3>3. Flips(rows[log[i].row].edit, log[i].from) /\ log[j].row # log[i].row
      BY SMTT(60), <1>2, <3>1
    <3> QED BY <1>e, <2>1, <3>2, <3>3
  <2>2. CASE i = n + 1
    <3>1. log'[i].row = r /\ log'[i].from = rows'[r].edit
      BY <1>3, <1>5, <1>6, <2>2
    <3> QED BY <3>1 DEF Flips
  <2>3. CASE i \in 1..n /\ j = n + 1
    BY <1>5, <2>3
  <2> QED BY <1>5, <2>1, <2>2, <2>3
<1> QED BY <1>4, <1>7, <1>8, <1>9, <1>10, <1>11, <1>12, <1>13 DEF Accounts

LEMMA InitAccounts == Init => Accounts
<1> SUFFICES ASSUME Init PROVE Accounts
  OBVIOUS
<1> DEFINE recs == Scanned[Source]
<1>1. recs \in Seq(Records) /\ TypeOK
  BY ReviseAssumption, InitInvariant DEF IInv
<1>2. /\ rows = Minted(recs, 0, None, 1, FALSE) /\ log = << >> /\ pc = "idle" /\ orphans = {}
      /\ layers = <<LayerOf(recs, 1, FALSE)>>
  BY DEF Init
<1> HIDE DEF recs
<1>3. ASSUME NEW r \in RowIds
      PROVE  /\ rows[r].slot = Unopened /\ rows[r].mark = Unmarked /\ rows[r].edit = Intact
             /\ rows[r].own_hist = FALSE /\ rows[r].dead = FALSE
  <2> DEFINE row(i) == ScannedRow(recs[i], 0, None, IF i = Len(recs) THEN None ELSE 1 + i, FALSE)
  <2>1. rows = [i \in 1..Len(recs) |-> row(i)]
    BY <1>2 DEF Minted
  <2>2. r \in 1..Len(recs)
    <3>1. DOMAIN rows = 1..Len(rows)
      BY <1>1 DEF TypeOK
    <3> HIDE DEF row
    <3> QED BY <2>1, <3>1 DEF RowIds
  <2>3. rows[r] = row(r)
    <3> HIDE DEF row
    <3> QED BY <2>1, <2>2
  <2> QED BY <2>3 DEF ScannedRow
<1>4. \A r \in RowIds, m \in Marks :
        ~rows[r].mark[m] /\ ~IsOpened(rows[r]) /\ ~OwnDirty(rows[r].edit) /\ ~Asks(m, r)
  <2>1. \A m \in Marks : ~Unmarked[m]
    BY DEF Unmarked
  <2>2. ~OwnDirty(Intact) /\ Unopened.k # "Opened"
    BY DEF OwnDirty, Intact, Unopened
  <2>3. \A r \in RowIds : ~IsOpened(rows[r]) /\ ~OwnDirty(rows[r].edit) /\ ~rows[r].own_hist
    BY <1>3, <2>2 DEF IsOpened
  <2> QED BY <1>3, <2>1, <2>3 DEF Asks, Own, HeldBelow
<1>5. \A i \in 1..Len(log) : FALSE
  BY <1>2
<1>6. Working /\ InteriorClean /\ PastsPrecede
  BY <1>2, <1>5 DEF Working, InteriorClean, PastsPrecede, Pending
<1>7. MarksFit
  BY <1>2, <1>4 DEF MarksFit, Behind, Marks
<1>8. LayersFit
  <2>1. ASSUME NEW m \in Marks PROVE layers[Root].count[m] = Cardinality(Flagged(m, None))
    <3>1. \A x : x \notin Flagged(m, None)
      BY <1>1, <1>4, FlaggedFacts
    <3>2. Flagged(m, None) = {}
      <4> HIDE DEF Flagged
      <4> QED BY <3>1
    <3>3. layers[Root].count[m] = 0
      BY <1>2 DEF Root, LayerOf, Layer
    <3> QED BY <3>2, <3>3, FS_EmptySet
  <2> QED BY <1>4, <2>1 DEF LayersFit
<1>9. EditsLogged /\ Logged
  BY <1>2, <1>3, <1>4, <1>5 DEF EditsLogged, Logged, Pending, Marks
<1>10. LostAreClean
  BY <1>2, <1>3 DEF LostAreClean, Live
<1> QED BY <1>6, <1>7, <1>8, <1>9, <1>10 DEF Accounts

LEMMA NextAccounts ==
  IInv /\ IInv' /\ Interiors /\ Accounts /\ [Next]_vars => Accounts'
<1> SUFFICES ASSUME IInv, IInv', Interiors, Accounts, [Next]_vars PROVE Accounts'
  OBVIOUS
<1>1. /\ RowIds = DOMAIN rows /\ RowIds = 1..Len(rows) /\ Len(rows) \in Nat /\ TypeOK
      /\ None \in 0..Len(rows)
  BY DEF IInv, TypeOK, RowIds, None
<1>2. CASE \E r \in DOMAIN rows :
             SetScalar(r) \/ SetPayload(r) \/ Delete(r) \/ Undelete(r) \/ ClearEdit(r)
  BY <1>1, <1>2, CommandAccounts
<1>3. CASE \E r \in DOMAIN rows : DescendOpens(r) \/ DescendFaults(r)
  BY <1>1, <1>3, OpenAccounts, FaultAccounts
<1>4. CASE \E r \in DOMAIN rows, kind \in Kinds : InsertAfter(kind, r)
  <2>1. PICK r \in DOMAIN rows, kind \in Kinds : InsertAfter(kind, r)
    BY <1>4
  <2> DEFINE p == rows[r].parent
  <2>2. Insert(kind, p, r) /\ Live(r) /\ orphans = {}
    BY <2>1 DEF InsertAfter, Editable, Insert, Authoring, Room, IInv, Busy
  <2>3. p \in 0..Len(rows) /\ r \in 0..Len(rows)
    BY <1>1, RowFacts
  <2>4. p # None => IsOpened(rows[p])
    BY <1>1, <2>2 DEF IInv, Held
  <2> HIDE DEF p
  <2> QED BY <2>2, <2>3, <2>4, InsertAccounts
<1>5. CASE \E kind \in Kinds, c \in DOMAIN rows \cup {None} :
             InsertHead(kind, c) \/ InsertTail(kind, c)
  <2>1. PICK kind \in Kinds, c \in DOMAIN rows \cup {None} :
          InsertHead(kind, c) \/ InsertTail(kind, c)
    BY <1>5
  <2>2. c \in 0..Len(rows) /\ (c # None => IsOpened(rows[c]))
    BY <1>1, <2>1 DEF InsertHead, InsertTail, ContainerGate
  <2>3. PICK prev \in 0..Len(rows) : Insert(kind, c, prev)
    <3>1. CASE InsertHead(kind, c)
      BY <1>1, <3>1 DEF InsertHead
    <3>2. CASE InsertTail(kind, c)
      <4>1. HoldingLayer(c) \in 1..Len(layers)
        <5>1. 1 \in 1..Len(layers)
          BY <1>1 DEF TypeOK
        <5>2. c # None => c \in RowIds
          BY <1>1
        <5> QED BY <1>1, <2>2, <5>1, <5>2, RowFacts DEF HoldingLayer, Root
      <4>2. layers[HoldingLayer(c)] \in LayersOf(Len(rows))
        BY <1>1, <4>1 DEF TypeOK
      <4>3. layers[HoldingLayer(c)].last \in 0..Len(rows)
        BY <4>2 DEF LayersOf
      <4> QED BY <3>2, <4>3 DEF InsertTail
    <3> QED BY <2>1, <3>1, <3>2
  <2> QED BY <2>2, <2>3, InsertAccounts
<1>6. CASE Revert
  BY <1>6, RevertAccounts
<1>7. CASE Internal
  <2>1. CASE \E m \in Marks : Raise(m) \/ Lower(m)
    BY <2>1, MarkAccounts
  <2> QED BY <1>7, <2>1, WriteAccounts, WalkAccounts DEF Internal
<1>8. CASE UNCHANGED vars
  <2>1. /\ rows' = rows /\ layers' = layers /\ log' = log /\ pc' = pc
        /\ climber' = climber /\ job' = job /\ orphans' = orphans
    BY SMTT(60), <1>8 DEF vars
  <2>2. Working' /\ MarksFit' /\ LayersFit'
    BY <2>1 DEF Accounts, Working, MarksFit, LayersFit, Live, RowIds, Behind, Asks, Own,
                HeldBelow, Flagged, Members
  <2>3. EditsLogged' /\ Logged' /\ LostAreClean'
    BY <2>1 DEF Accounts, EditsLogged, Logged, LostAreClean, Pending, CleanRow, Live, RowIds
  <2>4. InteriorClean' /\ PastsPrecede'
    BY <2>1 DEF Accounts, InteriorClean, PastsPrecede, Pending, HeldBelow, Below,
                ParentClosed, RowIds
  <2> QED BY <2>2, <2>3, <2>4 DEF Accounts
<1> QED BY <1>2, <1>3, <1>4, <1>5, <1>6, <1>7, <1>8 DEF Next, Command

----------------------------------------------------------------------------
(* The theorems.                                                           *)

\* At every state, between the steps of a command as well: each mark but the
\* one a climb is at says what it stands for, each shown layer counts its
\* flagged members, each change an edit has made has an entry that undoes it,
\* and an entry that flips a backing is older than those of the interior that
\* backing shows (log_push, log_pop, raise_mark, lower_mark, write_state,
\* orphan_interior).
THEOREM ReviseAccounts == Spec => []Accounts
<1>1. Init => Accounts
  BY InitAccounts
<1>2. IInv /\ IInv' /\ Interiors /\ Accounts /\ [Next]_vars => Accounts'
  BY NextAccounts
<1> QED BY <1>1, <1>2, ReviseInvariant, ReviseInteriors, PTL DEF Spec

\* Between two calls the marks are exact, on dead rows too, and so are the
\* layers' counts: what assert_lattices restates for an arena of any size.
THEOREM ReviseLattice == Spec => []Lattice
<1>1. IInv /\ Accounts => Lattice
  <2> SUFFICES ASSUME IInv, Accounts, Quiet PROVE Lattice
    BY DEF Lattice
  <2>1. ASSUME NEW r \in RowIds, NEW m \in Marks
        PROVE  rows[r].mark[m] = (Own(m, rows[r]) \/ HeldBelow(m, rows[r]))
    <3>1. rows[r] \in RowsOf(Len(rows), Len(layers), Len(store))
      BY RowFacts DEF IInv
    <3>2. rows[r].mark[m] \in BOOLEAN
      BY <3>1 DEF RowsOf
    <3>3. rows[r].mark[m] <=> Asks(m, r)
      BY DEF Accounts, MarksFit, Behind, Marks, Quiet
    <3> QED BY <3>2, <3>3 DEF Asks
  <2>2. /\ \A m \in Marks :
             layers[Root].count[m] = Cardinality({r \in Members(None) : rows[r].mark[m]})
        /\ \A p \in {r \in RowIds : Live(r) /\ IsOpened(rows[r])}, m \in Marks :
             layers[rows[p].slot.layer].count[m] =
               Cardinality({r \in Members(p) : rows[r].mark[m]})
    BY DEF Accounts, LayersFit, Flagged
  <2> QED BY <2>1, <2>2 DEF Lattice
<1> QED BY <1>1, ReviseInvariant, ReviseAccounts, PTL

\* The log names only live rows that take edits, which is what write_state
\* asserts of a revert; a row's history flag stands exactly while an entry of it
\* is pending, and the fresh entry is the first of them (log_push, log_pop).
THEOREM ReviseLogNamesLiveRows == Spec => []LogNamesLiveRows
<1>1. IInv /\ Interiors /\ Accounts => LogNamesLiveRows
  <2> SUFFICES ASSUME IInv, Interiors, Accounts PROVE LogNamesLiveRows
    OBVIOUS
  <2>1. TypeOK /\ DOMAIN log = 1..Len(log)
    BY DEF IInv, TypeOK
  <2>2. \A i \in DOMAIN log : Editable(log[i].row)
    BY <2>1 DEF Editable, Accounts, Logged, Interiors, Browsed
  <2>3. ASSUME NEW r \in RowIds PROVE rows[r].own_hist = (EntriesOf(r) # {})
    <3>1. rows[r].own_hist \in BOOLEAN
      BY <2>1, HistTyped
    <3>2. rows[r].own_hist <=> \E i \in 1..Len(log) : log[i].row = r
      BY DEF Accounts, Logged
    <3> QED BY <2>1, <3>1, <3>2 DEF EntriesOf
  <2>4. ASSUME NEW r \in RowIds, NEW i \in EntriesOf(r)
        PROVE  log[i].fresh = (\A j \in EntriesOf(r) : i <= j)
    <3>1. i \in 1..Len(log) /\ log[i].row = r
      BY <2>1 DEF EntriesOf
    <3>2. log[i].fresh \in BOOLEAN
      BY <2>1, <3>1, EntryFacts
    <3>3. log[i].fresh <=> \A j \in 1..Len(log) : log[j].row = log[i].row => i <= j
      BY <3>1 DEF Accounts, Logged
    <3>4. (\A j \in EntriesOf(r) : i <= j) <=>
            \A j \in 1..Len(log) : log[j].row = log[i].row => i <= j
      BY <2>1, <3>1 DEF EntriesOf
    <3> QED BY <3>2, <3>3, <3>4
  <2> QED BY <2>2, <2>3, <2>4 DEF LogNamesLiveRows
<1> QED BY <1>1, ReviseInvariant, ReviseInteriors, ReviseAccounts, PTL

\* No edit and no pending entry is lost with an interior: a row that has died
\* carries neither, and once the command returns no mark either (write_state's
\* flip, orphan_interior).
THEOREM ReviseOrphansAreClean == Spec => []OrphansAreClean
<1>1. IInv /\ Accounts => OrphansAreClean
  <2> SUFFICES ASSUME IInv, Accounts, NEW r \in RowIds, ~Live(r)
               PROVE  /\ ~OwnDirty(rows[r].edit) /\ ~rows[r].own_hist /\ EntriesOf(r) = {}
                      /\ \A m \in Marks : ~rows[r].mark[m]
    BY DEF OrphansAreClean
  <2>1. CleanRow(r)
    BY DEF Accounts, LostAreClean
  <2>2. DOMAIN log = 1..Len(log)
    BY DEF IInv, TypeOK
  <2>3. EntriesOf(r) = {}
    BY <2>2 DEF EntriesOf, Accounts, Logged
  <2> QED BY <2>1, <2>3 DEF CleanRow
<1> QED BY <1>1, ReviseInvariant, ReviseAccounts, PTL
=============================================================================
