------------------------------ MODULE Matcher ------------------------------
(* The path matcher of path.rs: the NFA the static machines (select, route, *)
(* rewrite, inplace, rewire, convert and their replay forms) walk beside a   *)
(* message. A path is a sequence of segments; a layer of the NFA is compiled *)
(* when a container is entered, into flat tables that stack: an entry moves  *)
(* the start marks up, an exit truncates the tables and moves them back.     *)
(* The compilation of one live state (flatten) is an action, so that the     *)
(* loop of commit_descent over the staged states is a loop of steps here.    *)
EXTENDS PathPrograms, SequencesExt

CONSTANTS Fields,      \* the field numbers records may carry
          Offered,     \* the rule sequences brought to admission
          MaxPaths,    \* the u16 domain of path and segment indices
          MaxDepth,    \* bound: containers entered at once
          None

ASSUME FieldsAssumption == Fields \subseteq Nat /\ None \notin Fields
ASSUME OfferedAssumption ==
  \A rules \in Offered :
    /\ rules \in Seq([steps : Seq([kind : {"Field"}, field : Fields]
                                  \cup [kind : {"AnyDepth"}, descend : Seq(Fields)]),
                      lane : {"Target", "Head", "Tail"}])

VARIABLES rules,      \* the admitted program: paths with the lane of their terminal
          targets,    \* terminal entries <<field, path>>, all layers concatenated
          stages,     \* interior entries <<field, child state>>
          wilds,      \* wildcard self-loops <<descend set, state>>
          gaps,       \* the gap table's entries <<field, path, lane>>
          layer,      \* the current layer's start marks
          levels,     \* the suspended layers' marks, innermost last
          gapLayer,   \* the gap table's own start mark
          gapLevels,  \* and its suspended marks
          staged,     \* the child states the last route probe found
          todo,       \* the states a commit has still to flatten
          probed,     \* the field of the probe a commit would enter, or None
          trail       \* the fields of the containers entered (a history variable)

tables == <<targets, stages, wilds, gaps>>
marks == <<layer, levels, gapLayer, gapLevels>>
vars == <<rules, tables, marks, staged, todo, probed, trail>>

-----------------------------------------------------------------------------
Gapped == \E id \in 1..Len(rules) : rules[id].lane # "Target"

\* States are <<path, segment>>; commit_descent sorts them before flattening.
Before(s, t) == s[1] < t[1] \/ (s[1] = t[1] /\ s[2] <= t[2])

\* Matcher::new: every path is live at its head, nothing is compiled yet.
Init ==
  /\ rules \in {program \in Offered : Admitted(program, MaxPaths)}
  /\ targets = <<>> /\ stages = <<>> /\ wilds = <<>> /\ gaps = <<>>
  /\ layer = [targets |-> 0, stages |-> 0, wilds |-> 0] /\ levels = <<>>
  /\ gapLayer = 0 /\ gapLevels = <<>>
  /\ staged = {} /\ probed = None /\ trail = <<>>
  /\ todo = {<<id, 1>> : id \in 1..Len(rules)}

\* Slip: an interior field that ends its run is taken for a target.
LandEarly(path, last) ==
  /\ targets' = Append(targets, <<rules[path].steps[last].field, path>>)
  /\ UNCHANGED <<stages, gaps>>
\* Slip: the terminal is looked for one segment further.
LandPast(path, last) ==
  LET f == rules[path].steps[last].field
  IN IF last < Len(rules[path].steps) + 1
     THEN stages' = Append(stages, <<f, <<path, last + 1>>>>) /\ UNCHANGED <<targets, gaps>>
     ELSE targets' = Append(targets, <<f, path>>) /\ UNCHANGED <<stages, gaps>>
\* The chain's first field lands in one table: a gap, a target or a stage.
Land(path, last) ==
  LET f == rules[path].steps[last].field
      lane == rules[path].lane
  IN IF last < Len(rules[path].steps)
     THEN stages' = Append(stages, <<f, <<path, last + 1>>>>) /\ UNCHANGED <<targets, gaps>>
     ELSE IF lane = "Target"
     THEN targets' = Append(targets, <<f, path>>) /\ UNCHANGED <<stages, gaps>>
     ELSE gaps' = Append(gaps, <<f, path, lane>>) /\ UNCHANGED <<targets, stages>>

\* flatten of one state: its wildcard run self-loops, then its first field
\* lands. An empty anchor path lives outside the NFA.
FlattenState(path, seg) ==
  IF rules[path].steps = <<>> THEN UNCHANGED tables
  ELSE \E last \in seg..Len(rules[path].steps) :
         /\ ~IsWild(rules[path].steps[last])
         /\ \A i \in seg..last - 1 : IsWild(rules[path].steps[i])
         /\ wilds' = wilds \o [k \in 1..last - seg |->
              <<rules[path].steps[seg + k - 1].descend, <<path, seg + k - 1>>>>]
         /\ Land(path, last)

\* Slip: the staged states are flattened in the order the probe found them.
FlattenUnsorted ==
  \E state \in todo :
    /\ FlattenState(state[1], state[2])
    /\ todo' = todo \ {state}
    /\ UNCHANGED <<rules, marks, staged, probed, trail>>
\* The states are taken in order, each once: the sort and the dedup.
FlattenNext ==
  \E state \in todo :
    /\ \A other \in todo : Before(state, other)
    /\ FlattenState(state[1], state[2])
    /\ todo' = todo \ {state}
    /\ UNCHANGED <<rules, marks, staged, probed, trail>>

-----------------------------------------------------------------------------
\* Slip: the wildcards of the layer do not continue.
StagedFields(f) == {stages[i][2] : i \in {i \in layer.stages + 1..Len(stages) : stages[i][1] = f}}
\* The states of this layer's paths that continue into field f.
StagedBy(f) ==
  {stages[i][2] : i \in {i \in layer.stages + 1..Len(stages) : stages[i][1] = f}}
  \cup {wilds[i][2] : i \in {i \in layer.wilds + 1..Len(wilds) : Member(wilds[i][1], f)}}

ProbeRoutes(f) ==
  /\ todo = {}
  /\ staged' = StagedBy(f) /\ probed' = f
  /\ UNCHANGED <<rules, tables, marks, todo, trail>>

\* Slip: the marks of two tables are taken from each other.
MarksCrossed == [targets |-> Len(targets), stages |-> Len(wilds), wilds |-> Len(stages)]
\* The tables' ends, where the next layer starts.
Ends == [targets |-> Len(targets), stages |-> Len(stages), wilds |-> Len(wilds)]

\* A group is crossed by its syntax, so a commit may follow a probe that
\* staged nothing. The gap table keeps marks only when the program has gaps.
CommitDescent ==
  /\ todo = {} /\ probed # None /\ Len(levels) < MaxDepth
  /\ levels' = Append(levels, layer)
  /\ layer' = Ends
  /\ IF Gapped THEN gapLevels' = Append(gapLevels, gapLayer) /\ gapLayer' = Len(gaps)
               ELSE UNCHANGED <<gapLevels, gapLayer>>
  /\ todo' = staged /\ probed' = None /\ trail' = Append(trail, probed)
  /\ UNCHANGED <<rules, tables, staged>>

\* Slip: the gap table is left as the child made it.
ExitGapsKept ==
  IF Gapped THEN gapLayer' = Last(gapLevels) /\ gapLevels' = Front(gapLevels) /\ UNCHANGED gaps
  ELSE UNCHANGED <<gaps, gapLayer, gapLevels>>
ExitGaps ==
  IF Gapped
  THEN /\ gaps' = SubSeq(gaps, 1, gapLayer)
       /\ gapLayer' = Last(gapLevels) /\ gapLevels' = Front(gapLevels)
  ELSE UNCHANGED <<gaps, gapLayer, gapLevels>>

Exit ==
  /\ todo = {} /\ levels # <<>>
  /\ targets' = SubSeq(targets, 1, layer.targets)
  /\ stages' = SubSeq(stages, 1, layer.stages)
  /\ wilds' = SubSeq(wilds, 1, layer.wilds)
  /\ ExitGaps
  /\ layer' = Last(levels) /\ levels' = Front(levels)
  /\ trail' = Front(trail) /\ probed' = None
  /\ UNCHANGED <<rules, staged, todo>>

Next == FlattenNext \/ (\E f \in Fields : ProbeRoutes(f)) \/ CommitDescent \/ Exit
Spec == Init /\ [][Next]_vars

-----------------------------------------------------------------------------
\* A state is a path and a segment of it.
States == UNION {{id} \X (1..Len(rules[id].steps)) : id \in 1..Len(rules)}
Marks == [targets : Nat, stages : Nat, wilds : Nat]

(* Types. Every state names a segment of its path: flatten reads from there  *)
(* on without a bounds check, up to the field admission put at the end       *)
(* (path.rs:1106-1110). Only an empty anchor is taken up without one, at the *)
(* root.                                                                     *)
TypeOK ==
  /\ rules \in Offered /\ Admitted(rules, MaxPaths)
  /\ targets \in Seq(Fields \X (1..Len(rules)))
  /\ stages \in Seq(Fields \X States)
  /\ wilds \in Seq(Seq(Fields) \X States)
  /\ gaps \in Seq(Fields \X (1..Len(rules)) \X {"Head", "Tail"})
  /\ layer \in Marks /\ levels \in Seq(Marks)
  /\ gapLayer \in Nat /\ gapLevels \in Seq(Nat)
  /\ staged \subseteq States
  /\ \A state \in todo :
       state \in States \/ \E id \in 1..Len(rules) : rules[id].steps = <<>> /\ state = <<id, 1>>
  /\ probed \in Fields \cup {None}
  /\ trail \in Seq(Fields) /\ Len(trail) = Len(levels)

(* The unchecked reads: every table is sliced at its layer's mark and every  *)
(* mark is popped without a test. The marks of the suspended layers nest,    *)
(* and none lies past its table (path.rs:1219-1224, 1399-1410).              *)
Below(m, n) == m.targets <= n.targets /\ m.stages <= n.stages /\ m.wilds <= n.wilds
MarksNest ==
  /\ Below(layer, [targets |-> Len(targets), stages |-> Len(stages), wilds |-> Len(wilds)])
  /\ \A i \in 1..Len(levels) : Below(levels[i], layer)
  /\ \A i, j \in 1..Len(levels) : i <= j => Below(levels[i], levels[j])
  /\ gapLayer <= Len(gaps)
  /\ \A i \in 1..Len(gapLevels) : gapLevels[i] <= gapLayer
  /\ \A i, j \in 1..Len(gapLevels) : i <= j => gapLevels[i] <= gapLevels[j]
  /\ Gapped => Len(gapLevels) = Len(levels)

(* The invariant every fold over the targets leans on: inside a layer the    *)
(* path ids never decrease, so equal ids are adjacent (path.rs:1023-1030).   *)
LayerOrder ==
  \A i, j \in 1..Len(targets) :
    i < j => \/ targets[i][2] <= targets[j][2]
             \/ i <= layer.targets /\ layer.targets < j
             \/ \E l \in 1..Len(levels) : i <= levels[l].targets /\ levels[l].targets < j
=============================================================================
