----------------------------- MODULE ReviseReads -----------------------------
(***************************************************************************)
(* The walks over a revising editor that change nothing: a layer's chain,  *)
(* the preorder walk, and the reverse index from a source offset to the    *)
(* narrowest record that covers it (src/src/revise/groupless.rs).          *)
(***************************************************************************)
EXTENDS Revise

RECURSIVE ChainFrom(_)
ChainFrom(r) == IF r = None THEN << >> ELSE <<r>> \o ChainFrom(rows[r].next)

SlotFirst(r) == IF IsOpened(rows[r]) THEN layers[rows[r].slot.layer].first ELSE None

\* preorder_next: down, across, or up and across, bounded to root's subtree.
RECURSIVE AcrossFrom(_, _)
AcrossFrom(r, root) ==
  IF r = root THEN None
  ELSE IF rows[r].next # None THEN rows[r].next
  ELSE IF rows[r].parent = None THEN None
  ELSE AcrossFrom(rows[r].parent, root)
PreorderNext(r, root) ==
  IF SlotFirst(r) # None THEN SlotFirst(r) ELSE AcrossFrom(r, root)

RECURSIVE PreorderFrom(_, _)
PreorderFrom(r, root) ==
  IF r = None THEN << >> ELSE <<r>> \o PreorderFrom(PreorderNext(r, root), root)

\* bisect_run: the latest-starting row of [first, end) at or before pos.
\* Slip: the row that starts exactly at pos is passed over.
RECURSIVE BisectStrictly(_, _, _)
BisectStrictly(lo, hi, pos) ==
  IF lo >= hi THEN lo
  ELSE LET mid == lo + (hi - lo) \div 2
       IN  IF rows[mid].at < pos THEN BisectStrictly(mid + 1, hi, pos)
           ELSE BisectStrictly(lo, mid, pos)
RECURSIVE Bisect(_, _, _)
Bisect(lo, hi, pos) ==
  IF lo >= hi THEN lo
  ELSE LET mid == lo + (hi - lo) \div 2
       IN  IF rows[mid].at <= pos THEN Bisect(mid + 1, hi, pos)
           ELSE Bisect(lo, mid, pos)
BisectRunStrictly(run, pos) ==
  LET past == BisectStrictly(run.first, run.end, pos)
  IN  IF past = run.first THEN None ELSE past - 1
BisectRun(run, pos) ==
  LET past == Bisect(run.first, run.end, pos)
  IN  IF past = run.first THEN None ELSE past - 1

\* Down the source runs while the record found is opened.
RECURSIVE NarrowestFrom(_, _, _)
NarrowestFrom(run, pos, best) ==
  IF run = NoRun THEN best
  ELSE LET r == BisectRun(run, pos)
       IN  IF r = None \/ pos >= rows[r].end THEN best
           ELSE IF IsOpened(rows[r])
                THEN NarrowestFrom(layers[rows[r].slot.layer].run, pos, r)
                ELSE r
Narrowest(pos) == NarrowestFrom(layers[Root].run, pos, None)

----------------------------------------------------------------------------
(* Properties.                                                             *)

SeqSet(s) == {s[i] : i \in DOMAIN s}
IsOnce(s) == Cardinality(SeqSet(s)) = Len(s)

RECURSIVE HangsFrom(_, _)
HangsFrom(x, p) == rows[x].parent = p \/ (rows[x].parent # None /\ HangsFrom(rows[x].parent, p))

\* Each layer's chain, from its first row to its last, is its live members and
\* no other row (assert_layer, groupless.rs:13312), source rows in source
\* order; and the bounded preorder walk of an interior takes every live row
\* below it once, which is what orphan_interior relies on.
ChainsThreadTheTree ==
  Quiet =>
    \A p \in {None} \cup {r \in RowIds : Live(r) /\ IsOpened(rows[r])} :
      LET l == HoldingLayer(p)
          chain == ChainFrom(layers[l].first)
      IN  /\ SeqSet(chain) = Members(p) /\ IsOnce(chain)
          /\ layers[l].last = IF chain = << >> THEN None ELSE chain[Len(chain)]
          /\ \A i, j \in DOMAIN chain :
               i < j /\ rows[chain[i]].at >= 0 /\ rows[chain[j]].at >= 0
                 => rows[chain[i]].end <= rows[chain[j]].at
          /\ p # None =>
               LET walk == PreorderFrom(SlotFirst(p), p)
               IN  IsOnce(walk)
                   /\ SeqSet(walk) = {x \in RowIds : Live(x) /\ HangsFrom(x, p)}

\* The reverse index answers every source offset with the innermost live
\* record whose source bytes cover it, and none when none does.
NarrowestIsExact ==
  Quiet =>
    \A pos \in 0..Len(Source) :
      LET covering == {r \in RowIds : Live(r) /\ ~rows[r].authored
                                      /\ rows[r].at \in 0..pos /\ pos < rows[r].end}
          found == Narrowest(pos)
      IN  IF covering = {} THEN found = None
          ELSE found \in covering /\ \A r \in covering : rows[r].at <= rows[found].at

\* Reads are exact: the links and the walks over them thread the tree as it is,
\* and the offset index finds the narrowest record under every position
\* (first_root and next_sibling, preorder, narrowest_row_at).
ReadsAreExact == ChainsThreadTheTree /\ NarrowestIsExact
=============================================================================
