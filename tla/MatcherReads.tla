---------------------------- MODULE MatcherReads ----------------------------
(* What the matcher answers at a record, against what the paths mean.        *)
EXTENDS Matcher

\* The lowest of a set of numbers.
Least(numbers) == CHOOSE n \in numbers : \A m \in numbers : n <= m

\* Where a table's current layer names field f.
Hits(table, mark, f) == {i \in mark + 1..Len(table) : table[i][1] = f}

\* One register collapses equal neighbours: a hit is passed on unless the hit
\* before it named the same path.
Passed(table, hits) ==
  {i \in hits : ~\E j \in hits : /\ j < i /\ ~\E k \in hits : j < k /\ k < i
                                /\ table[j][2] = table[i][2]}
\* The paths these hits name.
PathsAt(table, hits) == {table[i][2] : i \in hits}

\* The read fold: every path targeting f, in table order.
VisitTargets(f) == Passed(targets, Hits(targets, layer.targets, f))

\* Slip: two states of one path are taken for two paths.
ProbeEntries(f) ==
  LET hits == Hits(targets, layer.targets, f)
      first == Least(hits)
      others == hits \ {first}
  IN IF hits = {} THEN <<"None">>
     ELSE IF others = {} THEN <<"One", targets[first][2]>>
     ELSE <<"Conflict", targets[first][2], targets[Least(others)][2]>>
\* The write fold: two paths on one record are a conflict, both quoted.
ProbeTarget(f) ==
  LET hits == Hits(targets, layer.targets, f)
      first == Least(hits)
      others == {i \in hits : targets[i][2] # targets[first][2]}
  IN IF hits = {} THEN <<"None">>
     ELSE IF others = {} THEN <<"One", targets[first][2]>>
     ELSE <<"Conflict", targets[first][2], targets[Least(others)][2]>>

\* The single-action fold: the first path targeting f.
FirstTarget(f) ==
  LET hits == Hits(targets, layer.targets, f)
  IN IF hits = {} THEN None ELSE targets[Least(hits)][2]

\* The insert rules at one gap side of f, the mask of the sides, the lowest rule.
GapHits(f) == Hits(gaps, gapLayer, f)
VisitGaps(f, lane) == Passed(gaps, {i \in GapHits(f) : gaps[i][3] = lane})
ProbeGaps(f) == {gaps[i][3] : i \in GapHits(f)}
FirstInteriorGap(f) == IF GapHits(f) = {} THEN None ELSE gaps[Least(GapHits(f))][2]

-----------------------------------------------------------------------------
Ready == todo = {}

\* The visits of a fold name exactly these paths, each once, in rule order.
Visits(table, visited, ids) ==
  /\ PathsAt(table, visited) = ids
  /\ \A i, j \in visited : i < j => table[i][2] < table[j][2]

(* A record is delivered to every path that selects it, once, in authoring   *)
(* order, and to no other, wherever the walk stands and whatever it entered  *)
(* and left before: the read fold of path.rs:1312-1338.                      *)
DeliveriesAreExact ==
  Ready => \A f \in Fields :
             Visits(targets, VisitTargets(f), Selected(rules, Append(trail, f), {"Target"}))

(* The write fold names one rule exactly when one rule selects the record,   *)
(* and a conflict exactly when two do, the two lowest; the single-action     *)
(* fold names the lowest (path.rs:1216-1241, 1295-1310).                     *)
WriteFoldIsExact ==
  Ready =>
    \A f \in Fields :
      LET ids == Selected(rules, Append(trail, f), {"Target"})
          more == ids \ {Least(ids)}
      IN /\ FirstTarget(f) = IF ids = {} THEN None ELSE Least(ids)
         /\ ProbeTarget(f) = IF ids = {} THEN <<"None">>
                             ELSE IF more = {} THEN <<"One", Least(ids)>>
                             ELSE <<"Conflict", Least(ids), Least(more)>>

(* Insert rules fire at the gap they anchor, on their side, in rule order,   *)
(* and never in a layer that has no gap rule live (path.rs:846-882).         *)
GapsAreExact ==
  Ready =>
    \A f \in Fields :
      LET here == Append(trail, f)
          either == Selected(rules, here, {"Head", "Tail"})
      IN /\ \A lane \in {"Head", "Tail"} :
              Visits(gaps, VisitGaps(f, lane), Selected(rules, here, {lane}))
         /\ ProbeGaps(f) = {rules[id].lane : id \in either}
         /\ FirstInteriorGap(f) = IF either = {} THEN None ELSE Least(either)

(* Pruning is exact: a probe stages something exactly when some path can     *)
(* still select a record inside the container, so no walk skips a match and  *)
(* none descends in vain (path.rs:1344-1368).                                *)
PruningIsExact == Ready /\ probed # None => (staged # {} <=> MatchesBelow(rules, Append(trail, probed), Fields))
=============================================================================
