---------------------------- MODULE PathPrograms ----------------------------
(* The path language of path.rs: its segments, the admission laws every      *)
(* program form shares, and what a path selects. A program is a sequence of  *)
(* rules, each a path with the lane of its terminal: an action's "Target",   *)
(* or an insert rule's "Head" or "Tail".                                     *)
EXTENDS Integers, Sequences

Field(f) == [kind |-> "Field", field |-> f]
AnyDepth(descend) == [kind |-> "AnyDepth", descend |-> descend]
IsWild(segment) == segment.kind = "AnyDepth"

Member(descend, f) == \E i \in 1..Len(descend) : descend[i] = f
Ascending(descend) == \A i \in 2..Len(descend) : descend[i - 1] < descend[i]
DescendSubset(inner, outer) == \A i \in 1..Len(inner) : Member(outer, inner[i])

\* The shape laws: the terminal is a field, descend sets are canonical, and
\* two wildcards in a row are incomparable.
JudgePath(steps) ==
  /\ steps # <<>> /\ ~IsWild(steps[Len(steps)])
  /\ \A i \in 1..Len(steps) :
       IsWild(steps[i]) => steps[i].descend # <<>> /\ Ascending(steps[i].descend)
  /\ \A i \in 2..Len(steps) :
       IsWild(steps[i - 1]) /\ IsWild(steps[i]) =>
         /\ ~DescendSubset(steps[i - 1].descend, steps[i].descend)
         /\ ~DescendSubset(steps[i].descend, steps[i - 1].descend)

\* Structural equality: an insert rule is exempt, it never conflicts.
PathsEqual(r, s) == r.lane = "Target" /\ s.lane = "Target" /\ r.steps = s.steps

\* Only an insert rule may anchor at the empty path, the root interior.
Admitted(program, cap) ==
  /\ Len(program) <= cap
  /\ \A i \in 1..Len(program) :
       /\ Len(program[i].steps) <= cap
       /\ IF program[i].steps = <<>> THEN program[i].lane # "Target"
                                     ELSE JudgePath(program[i].steps)
  /\ \A i, j \in 1..Len(program) : i < j => ~PathsEqual(program[i], program[j])

-----------------------------------------------------------------------------
(* What a path means, with no tables, no layers and no states: its segments  *)
(* spell the record's whole trail of field numbers, a field itself and a     *)
(* wildcard any run over its descend set.                                    *)
\* Where a segment may start, so that what follows it starts at one of these.
Starts(segment, fields, next) ==
  IF IsWild(segment)
  THEN {j \in 1..Len(fields) + 1 : \E k \in next :
          j <= k /\ \A n \in j..k - 1 : Member(segment.descend, fields[n])}
  ELSE {j \in 1..Len(fields) : fields[j] = segment.field /\ j + 1 \in next}

\* Where each segment may start for the path to end with the trail.
Spellings(steps, fields) ==
  LET from[i \in 1..Len(steps) + 1] ==
        IF i > Len(steps) THEN {Len(fields) + 1} ELSE Starts(steps[i], fields, from[i + 1])
  IN from
Selects(steps, fields) == 1 \in Spellings(steps, fields)[1]

\* The rules of these lanes that select the record at these fields; ascending.
Selected(program, fields, lanes) ==
  {id \in 1..Len(program) : /\ program[id].lane \in lanes /\ program[id].steps # <<>>
                            /\ Selects(program[id].steps, fields)}
Selecting(program, fields, lanes) ==
  LET ids == Selected(program, fields, lanes)
  IN SelectSeq([id \in 1..Len(program) |-> id], LAMBDA id : id \in ids)

\* Some path selects a record strictly inside the container at these fields.
\* No more records than segments lie between a container and a match that is
\* still possible: every wildcard may stop at once.
MatchesBelow(program, fields, alphabet) ==
  \E id \in 1..Len(program) : \E n \in 1..Len(program[id].steps) :
    \E inner \in [1..n -> alphabet] : Selects(program[id].steps, fields \o inner)
=============================================================================
