---------------------------- MODULE MatcherProofs ----------------------------
(***************************************************************************)
(* Proofs about the path matcher, for every set of fields, every program   *)
(* admitted and every bound: its types, with every state inside its path;  *)
(* that the marks nest, so that no slice and no pop of the tables needs a  *)
(* test; that path ids never decrease inside a layer; and that the answers *)
(* are exact: deliveries, the write fold, the gap rules and the pruning    *)
(* are what the paths mean, because each layer that stands open answers    *)
(* for the containers that lead to it (Answering).                         *)
(***************************************************************************)
EXTENDS MatcherReads, SequenceTheorems, WellFoundedInduction, TLAPS

Segs == [kind : {"Field"}, field : Fields] \cup [kind : {"AnyDepth"}, descend : Seq(Fields)]

----------------------------------------------------------------------------
(* Sequences and programs.                                                 *)

LEMMA Truncate ==
  ASSUME NEW S, NEW q \in Seq(S), NEW n \in 0..Len(q)
  PROVE  /\ SubSeq(q, 1, n) \in Seq(S)
         /\ Len(SubSeq(q, 1, n)) = n
         /\ \A i \in 1..n : SubSeq(q, 1, n)[i] = q[i]
<1>1. n \in Int /\ 1..n \subseteq 1..Len(q)
  OBVIOUS
<1>2. \A i \in 1..n : q[i] \in S
  BY <1>1, ElementOfSeq
<1> QED
  BY <1>1, <1>2, SubSeqProperties

LEMMA EntriesMakeSeq ==
  ASSUME NEW S, NEW n \in Nat, NEW q, q = [k \in 1..n |-> q[k]], \A k \in 1..n : q[k] \in S
  PROVE  q \in Seq(S)
<1>1. q \in [1..n -> S]
  OBVIOUS
<1> QED
  BY <1>1

\* Popping a mark: what is left, and what is handed back.
LEMMA Pop ==
  ASSUME NEW S, NEW q \in Seq(S), q # <<>>
  PROVE  /\ Len(q) \in Nat \ {0} /\ Last(q) \in S /\ Last(q) = q[Len(q)]
         /\ Front(q) \in Seq(S) /\ Len(Front(q)) = Len(q) - 1
         /\ \A i \in 1..Len(q) - 1 : Front(q)[i] = q[i]
<1>1. Len(q) \in Nat \ {0}
  BY EmptySeq
<1>2. Len(q) - 1 \in 0..Len(q) /\ Len(q) \in 1..Len(q)
  BY <1>1
<1>3. Last(q) \in S
  BY <1>2, ElementOfSeq DEF Last
<1> QED
  BY <1>1, <1>2, <1>3, Truncate DEF Front, Last

LEMMA RuleShape ==
  ASSUME rules \in Offered, NEW id \in 1..Len(rules)
  PROVE  /\ Len(rules) \in Nat
         /\ rules[id].steps \in Seq(Segs) /\ rules[id].lane \in {"Target", "Head", "Tail"}
         /\ Len(rules[id].steps) \in Nat
<1>1. rules \in Seq([steps : Seq(Segs), lane : {"Target", "Head", "Tail"}])
  BY OfferedAssumption DEF Segs
<1>2. rules[id] \in [steps : Seq(Segs), lane : {"Target", "Head", "Tail"}]
  BY <1>1, ElementOfSeq
<1> HIDE DEF Segs
<1>3. rules[id].steps \in Seq(Segs) /\ rules[id].lane \in {"Target", "Head", "Tail"}
  BY <1>2
<1> QED
  BY <1>1, <1>3

LEMMA SegmentShape ==
  ASSUME NEW seg \in Segs
  PROVE  IF IsWild(seg) THEN seg.descend \in Seq(Fields) ELSE seg.field \in Fields
BY DEF Segs, IsWild

LEMMA StatesAre ==
  ASSUME NEW id \in 1..Len(rules), NEW seg \in 1..Len(rules[id].steps)
  PROVE  <<id, seg>> \in States
BY DEF States

LEMMA StateIs ==
  ASSUME NEW state \in States
  PROVE  /\ state[1] \in 1..Len(rules) /\ state[2] \in 1..Len(rules[state[1]].steps)
         /\ state = <<state[1], state[2]>>
BY DEF States

----------------------------------------------------------------------------
(* One state compiled.                                                     *)

\* What is compiled is a path and one of its segments, or an empty anchor.
LEMMA TodoIs ==
  ASSUME TypeOK, NEW state \in todo
  PROVE  /\ state[1] \in 1..Len(rules)
         /\ rules[state[1]].steps # <<>> => state[2] \in 1..Len(rules[state[1]].steps)
BY SMTT(60), StateIs DEF TypeOK

\* The terminal's field lands well typed, and the targets grow by one entry of
\* the path at most.
LEMMA LandTypes ==
  ASSUME TypeOK, NEW path \in 1..Len(rules), NEW last \in 1..Len(rules[path].steps),
         ~IsWild(rules[path].steps[last]), Land(path, last)
  PROVE  /\ targets' \in Seq(Fields \X (1..Len(rules)))
         /\ stages' \in Seq(Fields \X States)
         /\ gaps' \in Seq(Fields \X (1..Len(rules)) \X {"Head", "Tail"})
         /\ Len(targets) <= Len(targets') /\ Len(stages) <= Len(stages') /\ Len(gaps) <= Len(gaps')
         /\ \A n \in 1..Len(targets) : targets'[n] = targets[n]
         /\ \A n \in 1..Len(stages) : stages'[n] = stages[n]
         /\ \A n \in 1..Len(gaps) : gaps'[n] = gaps[n]
         /\ \/ targets' = targets
            \/ /\ rules[path].lane = "Target"
               /\ \E f \in Fields : targets' = Append(targets, <<f, path>>)
         /\ \/ gaps' = gaps
            \/ /\ rules[path].lane # "Target"
               /\ \E f \in Fields : gaps' = Append(gaps, <<f, path, rules[path].lane>>)
<1> DEFINE f == rules[path].steps[last].field
           lane == rules[path].lane
<1>1. rules \in Offered /\ Len(rules) \in Nat /\ Len(rules[path].steps) \in Nat
      /\ lane \in {"Target", "Head", "Tail"} /\ rules[path].steps \in Seq(Segs)
  BY RuleShape DEF TypeOK
<1>2. rules[path].steps[last] \in Segs
  BY <1>1, ElementOfSeq
<1>3. f \in Fields
  BY <1>2, SegmentShape
<1>4. /\ targets \in Seq(Fields \X (1..Len(rules))) /\ stages \in Seq(Fields \X States)
      /\ gaps \in Seq(Fields \X (1..Len(rules)) \X {"Head", "Tail"})
      /\ Len(targets) \in Nat /\ Len(stages) \in Nat /\ Len(gaps) \in Nat
  BY SMTT(60) DEF TypeOK
<1> HIDE DEF f, lane
<1>5. CASE last < Len(rules[path].steps)
  <2>1. last + 1 \in 1..Len(rules[path].steps)
    BY <1>1, <1>5
  <2>2. <<path, last + 1>> \in States
    BY <2>1, StatesAre
  <2>3. <<f, <<path, last + 1>>>> \in Fields \X States
    BY <1>3, <2>2
  <2>4. stages' = Append(stages, <<f, <<path, last + 1>>>>) /\ UNCHANGED <<targets, gaps>>
    BY <1>5 DEF Land, f
  <2> QED
    BY <1>4, <2>3, <2>4, AppendProperties
<1>6. CASE ~(last < Len(rules[path].steps)) /\ lane = "Target"
  <2>1. <<f, path>> \in Fields \X (1..Len(rules))
    BY <1>3
  <2>2. targets' = Append(targets, <<f, path>>) /\ UNCHANGED <<stages, gaps>>
    BY <1>6 DEF Land, f, lane
  <2>3. /\ targets' \in Seq(Fields \X (1..Len(rules))) /\ Len(targets') = Len(targets) + 1
        /\ \A n \in 1..Len(targets) : targets'[n] = targets[n]
    BY <1>4, <2>1, <2>2, AppendProperties
  <2>4. rules[path].lane = "Target" /\ \E g \in Fields : targets' = Append(targets, <<g, path>>)
    BY <1>3, <1>6, <2>2 DEF lane
  <2> QED
    BY SMTT(60), <1>4, <2>2, <2>3, <2>4
<1>7. CASE ~(last < Len(rules[path].steps)) /\ lane # "Target"
  <2>1. <<f, path, lane>> \in Fields \X (1..Len(rules)) \X {"Head", "Tail"}
    BY <1>1, <1>3, <1>7
  <2>2. gaps' = Append(gaps, <<f, path, lane>>) /\ UNCHANGED <<targets, stages>>
    BY <1>7 DEF Land, f, lane
  <2>3. /\ gaps' \in Seq(Fields \X (1..Len(rules)) \X {"Head", "Tail"})
        /\ Len(gaps') = Len(gaps) + 1
        /\ \A n \in 1..Len(gaps) : gaps'[n] = gaps[n]
    BY <1>4, <2>1, <2>2, AppendProperties
  <2>4. /\ rules[path].lane # "Target"
        /\ \E g \in Fields : gaps' = Append(gaps, <<g, path, rules[path].lane>>)
    BY <1>3, <1>7, <2>2 DEF lane
  <2> QED
    BY SMTT(60), <1>4, <2>2, <2>3, <2>4
<1> QED
  BY <1>5, <1>6, <1>7

LEMMA FlattenStateTypes ==
  ASSUME TypeOK, NEW state \in todo, FlattenState(state[1], state[2])
  PROVE  /\ targets' \in Seq(Fields \X (1..Len(rules)))
         /\ stages' \in Seq(Fields \X States)
         /\ wilds' \in Seq(Seq(Fields) \X States)
         /\ gaps' \in Seq(Fields \X (1..Len(rules)) \X {"Head", "Tail"})
         /\ Len(targets) <= Len(targets') /\ Len(stages) <= Len(stages')
         /\ Len(wilds) <= Len(wilds') /\ Len(gaps) <= Len(gaps')
         /\ \A n \in 1..Len(targets) : targets'[n] = targets[n]
         /\ \A n \in 1..Len(stages) : stages'[n] = stages[n]
         /\ \A n \in 1..Len(wilds) : wilds'[n] = wilds[n]
         /\ \A n \in 1..Len(gaps) : gaps'[n] = gaps[n]
         /\ \/ targets' = targets
            \/ /\ rules[state[1]].lane = "Target" /\ rules[state[1]].steps # <<>>
               /\ \E f \in Fields : targets' = Append(targets, <<f, state[1]>>)
         /\ \/ gaps' = gaps
            \/ /\ rules[state[1]].lane # "Target" /\ rules[state[1]].steps # <<>>
               /\ \E f \in Fields : gaps' = Append(gaps, <<f, state[1], rules[state[1]].lane>>)
<1> DEFINE path == state[1]
           seg == state[2]
<1>1. path \in 1..Len(rules)
  BY TodoIs
<1>2. CASE rules[path].steps = <<>>
  <2>1. UNCHANGED tables
    BY <1>2 DEF FlattenState
  <2> QED
    BY <2>1 DEF tables, TypeOK
<1>3. CASE rules[path].steps # <<>>
  <2>1. seg \in 1..Len(rules[path].steps) /\ rules[path].steps \in Seq(Segs)
        /\ Len(rules[path].steps) \in Nat
    BY SMTT(60), <1>1, <1>3, TodoIs, RuleShape DEF TypeOK
  <2>2. PICK last \in seg..Len(rules[path].steps) :
          /\ ~IsWild(rules[path].steps[last])
          /\ \A i \in seg..last - 1 : IsWild(rules[path].steps[i])
          /\ wilds' = wilds \o [k \in 1..last - seg |->
               <<rules[path].steps[seg + k - 1].descend, <<path, seg + k - 1>>>>]
          /\ Land(path, last)
    BY <1>3 DEF FlattenState
  <2>3. last \in 1..Len(rules[path].steps)
    BY <2>1
  <2> DEFINE loops == [k \in 1..last - seg |->
               <<rules[path].steps[seg + k - 1].descend, <<path, seg + k - 1>>>>]
  <2>4. \A k \in 1..last - seg : seg + k - 1 \in seg..last - 1
                                  /\ seg + k - 1 \in 1..Len(rules[path].steps)
    BY SMTT(60), <2>1, <2>3
  <2>5. ASSUME NEW k \in 1..last - seg
        PROVE  rules[path].steps[seg + k - 1].descend \in Seq(Fields)
    <3> DEFINE n == seg + k - 1
    <3>1. n \in 1..Len(rules[path].steps) /\ IsWild(rules[path].steps[n])
      BY <2>2, <2>4
    <3> HIDE DEF n
    <3>2. rules[path].steps[n] \in Segs
      BY <2>1, <3>1, ElementOfSeq
    <3>3. rules[path].steps[n].descend \in Seq(Fields)
      BY <3>1, <3>2, SegmentShape
    <3> QED
      BY <3>3 DEF n
  <2>6. ASSUME NEW k \in 1..last - seg PROVE <<path, seg + k - 1>> \in States
    <3> DEFINE n == seg + k - 1
    <3>1. n \in 1..Len(rules[path].steps)
      BY <2>4
    <3> HIDE DEF n
    <3>2. <<path, n>> \in States
      BY <1>1, <3>1, StatesAre
    <3> QED
      BY <3>2 DEF n
  <2>7. \A k \in 1..last - seg : loops[k] \in Seq(Fields) \X States
    BY <2>5, <2>6
  <2>8. loops \in Seq(Seq(Fields) \X States)
    <3>1. last - seg \in Nat
      BY SMTT(60), <2>1, <2>2
    <3>2. \A k \in 1..last - seg :
            loops[k] = <<rules[path].steps[seg + k - 1].descend, <<path, seg + k - 1>>>>
      BY SMTT(60)
    <3>3. loops = [k \in 1..last - seg |-> loops[k]]
      BY SMTT(60), <3>2
    <3> HIDE DEF loops
    <3> QED
      BY <2>7, <3>1, <3>3, EntriesMakeSeq
  <2>9. wilds \in Seq(Seq(Fields) \X States) /\ wilds' = wilds \o loops
    BY <2>2 DEF TypeOK
  <2> HIDE DEF loops
  <2>10. /\ wilds' \in Seq(Seq(Fields) \X States) /\ Len(wilds) <= Len(wilds')
         /\ \A n \in 1..Len(wilds) : wilds'[n] = wilds[n]
    <3>1. Len(wilds) \in Nat /\ Len(loops) \in Nat
      BY SMTT(60), <2>8, <2>9
    <3> QED
      BY <2>8, <2>9, <3>1, ConcatProperties
  <2>11. /\ targets' \in Seq(Fields \X (1..Len(rules)))
         /\ stages' \in Seq(Fields \X States)
         /\ gaps' \in Seq(Fields \X (1..Len(rules)) \X {"Head", "Tail"})
         /\ Len(targets) <= Len(targets') /\ Len(stages) <= Len(stages') /\ Len(gaps) <= Len(gaps')
         /\ \A n \in 1..Len(targets) : targets'[n] = targets[n]
         /\ \A n \in 1..Len(stages) : stages'[n] = stages[n]
         /\ \A n \in 1..Len(gaps) : gaps'[n] = gaps[n]
    BY <1>1, <2>2, <2>3, LandTypes
  <2>12. \/ targets' = targets
         \/ /\ rules[path].lane = "Target"
            /\ \E f \in Fields : targets' = Append(targets, <<f, path>>)
    BY <1>1, <2>2, <2>3, LandTypes
  <2>13. \/ gaps' = gaps
         \/ /\ rules[path].lane # "Target"
            /\ \E f \in Fields : gaps' = Append(gaps, <<f, path, rules[path].lane>>)
    BY <1>1, <2>2, <2>3, LandTypes
  <2> QED
    BY <1>3, <2>10, <2>11, <2>12, <2>13
<1> QED
  BY ONLY <1>2, <1>3

----------------------------------------------------------------------------
(* What a probe stages.                                                    *)

LEMMA StagedTypes ==
  ASSUME TypeOK, NEW f PROVE StagedBy(f) \subseteq States
<1>1. stages \in Seq(Fields \X States) /\ wilds \in Seq(Seq(Fields) \X States) /\ layer \in Marks
  BY DEF TypeOK
<1>2. layer.stages \in Nat /\ layer.wilds \in Nat
  BY <1>1 DEF Marks
<1>3. \A i \in layer.stages + 1..Len(stages) : stages[i][2] \in States
  <2> SUFFICES ASSUME NEW i \in layer.stages + 1..Len(stages) PROVE stages[i][2] \in States
    OBVIOUS
  <2>1. i \in 1..Len(stages)
    BY <1>1, <1>2
  <2>2. stages[i] \in Fields \X States
    BY <1>1, <2>1, ElementOfSeq
  <2> QED
    BY <2>2
<1>4. \A i \in layer.wilds + 1..Len(wilds) : wilds[i][2] \in States
  <2> SUFFICES ASSUME NEW i \in layer.wilds + 1..Len(wilds) PROVE wilds[i][2] \in States
    OBVIOUS
  <2>1. i \in 1..Len(wilds)
    BY <1>1, <1>2
  <2>2. wilds[i] \in Seq(Fields) \X States
    BY <1>1, <2>1, ElementOfSeq
  <2> QED
    BY <2>2
<1> QED
  BY <1>3, <1>4 DEF StagedBy

----------------------------------------------------------------------------
(* Types and marks.                                                        *)

Nested == TypeOK /\ MarksNest

LEMMA MarkIs ==
  ASSUME NEW m \in Marks
  PROVE  m.targets \in Nat /\ m.stages \in Nat /\ m.wilds \in Nat
BY DEF Marks

LEMMA InitNested == Init => Nested
<1> SUFFICES ASSUME Init PROVE Nested
  OBVIOUS
<1> USE DEF Init
<1>1. rules \in Offered /\ Admitted(rules, MaxPaths)
  OBVIOUS
<1>2. \A state \in todo :
        state \in States \/ \E id \in 1..Len(rules) : rules[id].steps = <<>> /\ state = <<id, 1>>
  <2> SUFFICES ASSUME NEW id \in 1..Len(rules), rules[id].steps # <<>>
               PROVE  <<id, 1>> \in States
    OBVIOUS
  <2>1. rules[id].steps \in Seq(Segs)
    BY <1>1, RuleShape
  <2>2. 1 \in 1..Len(rules[id].steps)
    BY <2>1, EmptySeq
  <2> QED
    BY <2>2, StatesAre
<1>3. TypeOK
  BY <1>1, <1>2 DEF TypeOK, Marks
<1>4. MarksNest
  BY DEF MarksNest, Below
<1> QED
  BY <1>3, <1>4 DEF Nested

LEMMA FlattenNested ==
  ASSUME Nested, FlattenNext PROVE Nested'
<1>1. PICK state \in todo : FlattenState(state[1], state[2]) /\ todo' = todo \ {state}
                            /\ UNCHANGED <<rules, marks, staged, probed, trail>>
  BY DEF FlattenNext
<1>2. /\ targets' \in Seq(Fields \X (1..Len(rules))) /\ stages' \in Seq(Fields \X States)
      /\ wilds' \in Seq(Seq(Fields) \X States)
      /\ gaps' \in Seq(Fields \X (1..Len(rules)) \X {"Head", "Tail"})
      /\ Len(targets) <= Len(targets') /\ Len(stages) <= Len(stages')
      /\ Len(wilds) <= Len(wilds') /\ Len(gaps) <= Len(gaps')
  BY <1>1, FlattenStateTypes DEF Nested
<1>3. /\ UNCHANGED <<rules, layer, levels, gapLayer, gapLevels, staged, probed, trail>>
      /\ States' = States
  BY <1>1 DEF marks, States
<1>4. TypeOK'
  BY <1>1, <1>2, <1>3 DEF Nested, TypeOK
<1>5. MarksNest'
  <2>1. layer.targets \in Nat /\ layer.stages \in Nat /\ layer.wilds \in Nat /\ gapLayer \in Nat
    BY MarkIs DEF Nested, TypeOK
  <2>2. /\ Len(targets) \in Nat /\ Len(targets') \in Nat /\ Len(stages) \in Nat /\ Len(stages') \in Nat
        /\ Len(wilds) \in Nat /\ Len(wilds') \in Nat /\ Len(gaps) \in Nat /\ Len(gaps') \in Nat
    BY <1>2 DEF Nested, TypeOK
  <2>3. Below(layer, [targets |-> Len(targets'), stages |-> Len(stages'), wilds |-> Len(wilds')])
    BY SMTT(60), <1>2, <2>1, <2>2 DEF Nested, MarksNest, Below
  <2>4. gapLayer <= Len(gaps')
    BY <1>2, <2>1, <2>2 DEF Nested, MarksNest
  <2> QED
    BY <1>3, <2>3, <2>4 DEF Nested, MarksNest, Gapped
<1> QED
  BY <1>4, <1>5 DEF Nested

LEMMA ProbeNested ==
  ASSUME Nested, NEW f \in Fields, ProbeRoutes(f) PROVE Nested'
<1>1. staged' \subseteq States
  BY StagedTypes DEF ProbeRoutes, Nested
<1>2. UNCHANGED <<rules, tables, marks, todo, trail>> /\ probed' = f
  BY DEF ProbeRoutes
<1>3. UNCHANGED <<rules, targets, stages, wilds, gaps, layer, levels, gapLayer, gapLevels, todo, trail>>
      /\ States' = States
  BY <1>2 DEF tables, marks, States
<1> QED
  BY <1>1, <1>2, <1>3 DEF Nested, TypeOK, MarksNest, Gapped

LEMMA BelowTransitive ==
  ASSUME NEW a \in Marks, NEW b \in Marks, NEW c \in Marks, Below(a, b), Below(b, c)
  PROVE  Below(a, c)
BY MarkIs DEF Below

\* A height pushed over heights that rise to it.
LEMMA HeightsPushed ==
  ASSUME NEW q \in Seq(Nat), NEW x \in Nat, NEW top \in Nat, x <= top,
         \A i \in 1..Len(q) : q[i] <= x,
         \A i, j \in 1..Len(q) : i <= j => q[i] <= q[j]
  PROVE  /\ Append(q, x) \in Seq(Nat) /\ Len(Append(q, x)) = Len(q) + 1
         /\ \A i \in 1..Len(Append(q, x)) : Append(q, x)[i] <= top
         /\ \A i, j \in 1..Len(Append(q, x)) : i <= j => Append(q, x)[i] <= Append(q, x)[j]
<1> DEFINE r == Append(q, x)
<1>1. /\ r \in Seq(Nat) /\ Len(r) = Len(q) + 1 /\ Len(q) \in Nat
      /\ \A i \in 1..Len(q) : r[i] = q[i] /\ q[i] \in Nat
      /\ r[Len(q) + 1] = x
  BY AppendProperties, ElementOfSeq
<1> HIDE DEF r
<1>2. \A i \in 1..Len(r) : i \in 1..Len(q) \/ i = Len(q) + 1
  BY <1>1
<1>3. \A i \in 1..Len(r) : r[i] \in Nat /\ r[i] <= x
  BY SMTT(60), <1>1, <1>2
<1>4. \A i \in 1..Len(r) : r[i] <= top
  BY <1>3
<1>5. ASSUME NEW i \in 1..Len(r), NEW j \in 1..Len(r), i <= j PROVE r[i] <= r[j]
  <2>1. CASE j \in 1..Len(q)
    <3>1. i \in 1..Len(q)
      BY <1>1, <1>5, <2>1
    <3> QED
      BY <1>1, <1>5, <2>1, <3>1
  <2>2. CASE j = Len(q) + 1
    BY <1>1, <1>3, <2>2
  <2> QED
    BY <1>2, <2>1, <2>2
<1> QED
  BY <1>1, <1>4, <1>5 DEF r

\* A mark pushed over marks that rise to it.
LEMMA MarksPushed ==
  ASSUME NEW q \in Seq(Marks), NEW x \in Marks, NEW top \in Marks, Below(x, top),
         \A i \in 1..Len(q) : Below(q[i], x),
         \A i, j \in 1..Len(q) : i <= j => Below(q[i], q[j])
  PROVE  /\ \A i \in 1..Len(Append(q, x)) : Below(Append(q, x)[i], top)
         /\ \A i, j \in 1..Len(Append(q, x)) : i <= j => Below(Append(q, x)[i], Append(q, x)[j])
<1> DEFINE r == Append(q, x)
<1>1. /\ Len(r) = Len(q) + 1 /\ Len(q) \in Nat
      /\ \A i \in 1..Len(q) : r[i] = q[i] /\ q[i] \in Marks
      /\ r[Len(q) + 1] = x
  BY AppendProperties, ElementOfSeq
<1> HIDE DEF r
<1>2. \A i \in 1..Len(r) : i \in 1..Len(q) \/ i = Len(q) + 1
  BY <1>1
<1>3. Below(x, x)
  BY MarkIs DEF Below
<1>4. \A i \in 1..Len(r) : r[i] \in Marks /\ Below(r[i], x)
  BY <1>1, <1>2, <1>3
<1>5. \A i \in 1..Len(r) : Below(r[i], top)
  BY <1>4, BelowTransitive
<1>6. ASSUME NEW i \in 1..Len(r), NEW j \in 1..Len(r), i <= j PROVE Below(r[i], r[j])
  <2>1. CASE j \in 1..Len(q)
    <3>1. i \in 1..Len(q)
      BY <1>1, <1>6, <2>1
    <3> QED
      BY <1>1, <1>6, <2>1, <3>1
  <2>2. CASE j = Len(q) + 1
    BY <1>1, <1>4, <2>2
  <2> QED
    BY <1>2, <2>1, <2>2
<1> QED
  BY <1>5, <1>6 DEF r

LEMMA CommitNested ==
  ASSUME Nested, CommitDescent PROVE Nested'
<1> USE DEF Nested
<1>1. /\ levels' = Append(levels, layer) /\ layer' = Ends
      /\ todo' = staged /\ probed' = None /\ trail' = Append(trail, probed) /\ probed \in Fields
      /\ UNCHANGED <<rules, targets, stages, wilds, gaps, staged>> /\ States' = States
      /\ Gapped' = Gapped
  BY DEF CommitDescent, tables, States, TypeOK, Gapped
<1>2. IF Gapped THEN gapLevels' = Append(gapLevels, gapLayer) /\ gapLayer' = Len(gaps)
                ELSE UNCHANGED <<gapLevels, gapLayer>>
  BY DEF CommitDescent
<1>3. /\ levels \in Seq(Marks) /\ layer \in Marks /\ gapLevels \in Seq(Nat) /\ gapLayer \in Nat
      /\ trail \in Seq(Fields) /\ Len(trail) = Len(levels) /\ Len(levels) \in Nat
      /\ Len(gapLevels) \in Nat /\ Len(gaps) \in Nat
  BY DEF TypeOK
<1>4. Ends \in Marks
  BY DEF TypeOK, Ends, Marks
<1>5. /\ levels' \in Seq(Marks) /\ Len(levels') = Len(levels) + 1
      /\ \A i \in 1..Len(levels) : levels'[i] = levels[i] /\ levels[i] \in Marks
      /\ levels'[Len(levels) + 1] = layer
  BY <1>1, <1>3, AppendProperties, ElementOfSeq
<1>6. trail' \in Seq(Fields) /\ Len(trail') = Len(levels')
  BY <1>1, <1>3, <1>5, AppendProperties
<1>7. /\ gapLevels' \in Seq(Nat) /\ gapLayer' \in Nat
      /\ gapLayer' <= Len(gaps)
      /\ \A i \in 1..Len(gapLevels') : gapLevels'[i] <= gapLayer'
      /\ \A i, j \in 1..Len(gapLevels') : i <= j => gapLevels'[i] <= gapLevels'[j]
      /\ Gapped => Len(gapLevels') = Len(levels')
  <2>1. CASE Gapped
    <3>1. gapLevels' = Append(gapLevels, gapLayer) /\ gapLayer' = Len(gaps)
      BY <1>2, <2>1
    <3>2. /\ gapLayer <= Len(gaps) /\ \A i \in 1..Len(gapLevels) : gapLevels[i] <= gapLayer
          /\ \A i, j \in 1..Len(gapLevels) : i <= j => gapLevels[i] <= gapLevels[j]
          /\ Len(gapLevels) = Len(levels)
      BY <2>1 DEF MarksNest
    <3> HIDE DEF Nested
    <3>3. /\ gapLevels' \in Seq(Nat) /\ Len(gapLevels') = Len(gapLevels) + 1
          /\ \A i \in 1..Len(gapLevels') : gapLevels'[i] <= Len(gaps)
          /\ \A i, j \in 1..Len(gapLevels') : i <= j => gapLevels'[i] <= gapLevels'[j]
      BY ONLY <1>3, <3>1, <3>2, HeightsPushed
    <3> QED
      BY ONLY SMTT(60), <1>3, <1>5, <3>1, <3>2, <3>3
  <2>2. CASE ~Gapped
    BY <1>2, <1>3, <2>2 DEF MarksNest
  <2> QED
    BY <2>1, <2>2
<1>8. TypeOK'
  BY <1>1, <1>4, <1>5, <1>6, <1>7 DEF TypeOK
<1>9. /\ Below(layer, Ends) /\ \A i \in 1..Len(levels) : Below(levels[i], layer)
      /\ \A i, j \in 1..Len(levels) : i <= j => Below(levels[i], levels[j])
  BY DEF MarksNest, Ends
<1>10. Below(Ends, Ends)
  BY <1>4, MarkIs DEF Below
<1>11. /\ \A i \in 1..Len(levels') : Below(levels'[i], Ends)
       /\ \A i, j \in 1..Len(levels') : i <= j => Below(levels'[i], levels'[j])
  BY ONLY <1>1, <1>3, <1>4, <1>9, MarksPushed
<1>12. Ends' = Ends
  BY <1>1 DEF Ends
<1>13. MarksNest'
  BY <1>1, <1>7, <1>10, <1>11, <1>12 DEF MarksNest, Ends
<1> QED
  BY <1>8, <1>13

LEMMA ExitNested ==
  ASSUME Nested, Exit PROVE Nested'
<1> USE DEF Nested
<1>1. /\ levels # <<>>
      /\ targets' = SubSeq(targets, 1, layer.targets) /\ stages' = SubSeq(stages, 1, layer.stages)
      /\ wilds' = SubSeq(wilds, 1, layer.wilds)
      /\ layer' = Last(levels) /\ levels' = Front(levels) /\ trail' = Front(trail) /\ probed' = None
      /\ UNCHANGED <<rules, staged, todo>> /\ States' = States /\ Gapped' = Gapped
  BY DEF Exit, States, Gapped
<1>2. /\ targets \in Seq(Fields \X (1..Len(rules))) /\ stages \in Seq(Fields \X States)
      /\ wilds \in Seq(Seq(Fields) \X States)
      /\ gaps \in Seq(Fields \X (1..Len(rules)) \X {"Head", "Tail"})
      /\ levels \in Seq(Marks) /\ layer \in Marks /\ gapLevels \in Seq(Nat) /\ gapLayer \in Nat
      /\ trail \in Seq(Fields) /\ Len(trail) = Len(levels)
  BY DEF TypeOK
<1>3. /\ Len(levels) \in Nat \ {0} /\ layer' \in Marks /\ layer' = levels[Len(levels)]
      /\ levels' \in Seq(Marks) /\ Len(levels') = Len(levels) - 1
      /\ \A i \in 1..Len(levels) - 1 : levels'[i] = levels[i]
  BY <1>1, <1>2, Pop
<1>4. trail' \in Seq(Fields) /\ Len(trail') = Len(levels')
  <2>1. trail # <<>>
    BY <1>2, <1>3, EmptySeq
  <2> QED
    BY <1>1, <1>2, <1>3, <2>1, Pop
<1>5. /\ layer.targets \in 0..Len(targets) /\ layer.stages \in 0..Len(stages)
      /\ layer.wilds \in 0..Len(wilds)
  BY <1>2, MarkIs DEF MarksNest, Below
<1>6. /\ targets' \in Seq(Fields \X (1..Len(rules))) /\ Len(targets') = layer.targets
      /\ stages' \in Seq(Fields \X States) /\ Len(stages') = layer.stages
      /\ wilds' \in Seq(Seq(Fields) \X States) /\ Len(wilds') = layer.wilds
  BY ZenonT(60), <1>1, <1>2, <1>5, Truncate
<1>7. /\ gaps' \in Seq(Fields \X (1..Len(rules)) \X {"Head", "Tail"})
      /\ gapLevels' \in Seq(Nat) /\ gapLayer' \in Nat /\ gapLayer' <= Len(gaps')
      /\ \A i \in 1..Len(gapLevels') : gapLevels'[i] <= gapLayer'
      /\ \A i, j \in 1..Len(gapLevels') : i <= j => gapLevels'[i] <= gapLevels'[j]
      /\ Gapped => Len(gapLevels') = Len(levels')
  <2>1. CASE Gapped
    <3>1. /\ gaps' = SubSeq(gaps, 1, gapLayer)
          /\ gapLayer' = Last(gapLevels) /\ gapLevels' = Front(gapLevels)
      BY <2>1 DEF Exit, ExitGaps
    <3>2. /\ gapLayer <= Len(gaps) /\ \A i \in 1..Len(gapLevels) : gapLevels[i] <= gapLayer
          /\ \A i, j \in 1..Len(gapLevels) : i <= j => gapLevels[i] <= gapLevels[j]
          /\ Len(gapLevels) = Len(levels)
      BY <2>1 DEF MarksNest
    <3>3. gapLevels # <<>>
      BY <1>2, <1>3, <3>2, EmptySeq
    <3>4. /\ gapLayer' \in Nat /\ gapLayer' = gapLevels[Len(gapLevels)]
          /\ gapLevels' \in Seq(Nat) /\ Len(gapLevels') = Len(gapLevels) - 1
          /\ \A i \in 1..Len(gapLevels) - 1 : gapLevels'[i] = gapLevels[i]
      BY <1>2, <3>1, <3>3, Pop
    <3>5. gaps' \in Seq(Fields \X (1..Len(rules)) \X {"Head", "Tail"}) /\ Len(gaps') = gapLayer
      <4>1. gapLayer \in 0..Len(gaps)
        BY <1>2, <3>2
      <4> QED
        BY <1>2, <3>1, <4>1, Truncate
    <3>6. \A i \in 1..Len(gapLevels') : i \in 1..Len(gapLevels) - 1 /\ i \in 1..Len(gapLevels)
                                        /\ i <= Len(gapLevels) /\ Len(gapLevels) \in 1..Len(gapLevels)
      BY SMTT(60), <1>3, <3>2, <3>4
    <3>7. gapLayer' <= Len(gaps')
      BY <1>3, <3>2, <3>4, <3>5
    <3> QED
      BY <1>3, <3>2, <3>4, <3>5, <3>6, <3>7
  <2>2. CASE ~Gapped
    <3>1. UNCHANGED <<gaps, gapLayer, gapLevels>>
      BY <2>2 DEF Exit, ExitGaps
    <3> QED
      BY <1>2, <2>2, <3>1 DEF MarksNest
  <2> QED
    BY <2>1, <2>2
<1>8. TypeOK'
  BY <1>1, <1>3, <1>4, <1>6, <1>7 DEF TypeOK
<1>9. /\ \A i \in 1..Len(levels) : Below(levels[i], layer)
      /\ \A i, j \in 1..Len(levels) : i <= j => Below(levels[i], levels[j])
  BY DEF MarksNest
<1>10. \A i \in 1..Len(levels') : i \in 1..Len(levels) - 1 /\ i \in 1..Len(levels)
                                  /\ i <= Len(levels) /\ Len(levels) \in 1..Len(levels)
  BY <1>3
<1>11. Below(layer', layer)
  BY <1>3, <1>9
<1>12. Below(layer', [targets |-> Len(targets'), stages |-> Len(stages'), wilds |-> Len(wilds')])
  BY <1>6, <1>11 DEF Below
<1>13. /\ \A i \in 1..Len(levels') : Below(levels'[i], layer')
       /\ \A i, j \in 1..Len(levels') : i <= j => Below(levels'[i], levels'[j])
  BY <1>3, <1>9, <1>10
<1>14. MarksNest'
  BY <1>1, <1>7, <1>12, <1>13 DEF MarksNest
<1> QED
  BY <1>8, <1>14

LEMMA NextNested == Nested /\ [Next]_vars => Nested'
<1> SUFFICES ASSUME Nested, [Next]_vars PROVE Nested'
  OBVIOUS
<1>1. CASE FlattenNext
  BY <1>1, FlattenNested
<1>2. CASE \E f \in Fields : ProbeRoutes(f)
  BY <1>2, ProbeNested
<1>3. CASE CommitDescent
  BY <1>3, CommitNested
<1>4. CASE Exit
  BY <1>4, ExitNested
<1>5. CASE UNCHANGED vars
  <2>1. /\ UNCHANGED <<rules, targets, stages, wilds, gaps, layer, levels, gapLayer, gapLevels>>
        /\ UNCHANGED <<staged, todo, probed, trail>> /\ States' = States /\ Gapped' = Gapped
    BY <1>5 DEF vars, tables, marks, States, Gapped
  <2>2. TypeOK'
    BY <2>1 DEF Nested, TypeOK
  <2>3. MarksNest'
    BY <2>1 DEF Nested, MarksNest
  <2> QED
    BY <2>2, <2>3 DEF Nested
<1> QED
  BY <1>1, <1>2, <1>3, <1>4, <1>5 DEF Next

(* The matcher's types (path.rs:1043-1066): every state a commit takes up    *)
(* names a segment of its path, and flatten's unchecked walk from it ends on *)
(* a field (path.rs:1106-1110).                                              *)
THEOREM MatcherTypes == Spec => []TypeOK
<1>1. Init => Nested
  BY InitNested
<1>2. Nested /\ [Next]_vars => Nested'
  BY NextNested
<1>3. Nested => TypeOK
  BY DEF Nested
<1> QED
  BY <1>1, <1>2, <1>3, PTL DEF Spec

(* The slices and the pops of the matcher need no test (path.rs:843, 1224,   *)
(* 1348, 1353, 1408): every mark lies inside its table and every suspended   *)
(* one below the layer's, whatever was entered and left.                     *)
THEOREM MarksAlwaysNest == Spec => []MarksNest
<1>1. Init => Nested
  BY InitNested
<1>2. Nested /\ [Next]_vars => Nested'
  BY NextNested
<1>3. Nested => MarksNest
  BY DEF Nested
<1> QED
  BY <1>1, <1>2, <1>3, PTL DEF Spec

----------------------------------------------------------------------------
(* The order of a layer's targets.                                         *)

\* While a layer is compiled, no target in it is of a later path than any
\* state still to come.
Compiling ==
  \A i \in 1..Len(targets), state \in todo :
    layer.targets < i => targets[i][2] <= state[1]

Ordered == Nested /\ LayerOrder /\ Compiling

LEMMA TargetsAre ==
  ASSUME TypeOK, NEW i \in 1..Len(targets)
  PROVE  targets[i][2] \in Nat
<1>1. targets[i] \in Fields \X (1..Len(rules))
  BY ElementOfSeq DEF TypeOK
<1> QED
  BY <1>1

LEMMA TodoPathsAre ==
  ASSUME TypeOK, NEW state \in todo PROVE state[1] \in Nat
<1>1. state[1] \in 1..Len(rules)
  BY TodoIs
<1> QED
  BY <1>1

LEMMA InitOrdered == Init => Ordered
<1> SUFFICES ASSUME Init PROVE Ordered
  OBVIOUS
<1>1. 1..Len(targets) = {}
  BY DEF Init
<1> QED
  BY <1>1, InitNested DEF Ordered, LayerOrder, Compiling

LEMMA FlattenOrdered ==
  ASSUME Ordered, FlattenNext PROVE LayerOrder' /\ Compiling'
<1>1. PICK state \in todo :
        /\ \A other \in todo : Before(state, other)
        /\ FlattenState(state[1], state[2]) /\ todo' = todo \ {state}
        /\ UNCHANGED <<rules, marks, staged, probed, trail>>
  BY DEF FlattenNext
<1>2. TypeOK /\ LayerOrder /\ Compiling /\ UNCHANGED <<layer, levels>>
  BY <1>1 DEF Ordered, Nested, marks
<1>3. targets \in Seq(Fields \X (1..Len(rules))) /\ state[1] \in 1..Len(rules) /\ state[1] \in Nat
      /\ Len(targets) \in Nat
  BY SMTT(60), <1>2, TodoIs DEF TypeOK
<1>4. \A other \in todo : state[1] <= other[1]
  <2> SUFFICES ASSUME NEW other \in todo PROVE state[1] <= other[1]
    OBVIOUS
  <2>1. other[1] \in Nat
    BY <1>2, TodoPathsAre
  <2> QED
    BY <1>1, <1>3, <2>1 DEF Before
<1>5. targets' = targets \/ \E f \in Fields : targets' = Append(targets, <<f, state[1]>>)
  BY <1>1, <1>2, FlattenStateTypes
<1>6. CASE targets' = targets
  BY <1>1, <1>2, <1>6 DEF LayerOrder, Compiling
<1>7. CASE \E f \in Fields : targets' = Append(targets, <<f, state[1]>>)
  <2>1. PICK f \in Fields : targets' = Append(targets, <<f, state[1]>>)
    BY <1>7
  <2>2. <<f, state[1]>> \in Fields \X (1..Len(rules))
    BY <1>3
  <2>3. /\ Len(targets') = Len(targets) + 1
        /\ \A i \in 1..Len(targets) : targets'[i] = targets[i]
        /\ targets'[Len(targets) + 1] = <<f, state[1]>>
    BY <1>3, <2>1, <2>2, AppendProperties
  <2>4. \A i \in 1..Len(targets') : i \in 1..Len(targets) \/ i = Len(targets) + 1
    BY <1>3, <2>3
  <2>5. layer.targets \in Nat
    BY <1>2, MarkIs DEF TypeOK
  <2>6. ASSUME NEW i \in 1..Len(targets'), NEW j \in 1..Len(targets'), i < j
        PROVE  \/ targets'[i][2] <= targets'[j][2]
               \/ i <= layer.targets /\ layer.targets < j
               \/ \E l \in 1..Len(levels) : i <= levels[l].targets /\ levels[l].targets < j
    <3>1. i \in 1..Len(targets)
      BY <1>3, <2>3, <2>6
    <3>2. CASE j \in 1..Len(targets)
      BY <1>2, <2>3, <2>6, <3>1, <3>2 DEF LayerOrder
    <3>3. CASE j = Len(targets) + 1 /\ i <= layer.targets
      <4>1. layer.targets <= Len(targets)
        BY DEF Ordered, Nested, MarksNest, Below
      <4> QED
        BY <1>3, <2>5, <3>3, <4>1
    <3>4. CASE j = Len(targets) + 1 /\ ~(i <= layer.targets)
      <4>1. layer.targets < i
        BY <2>5, <3>1, <3>4
      <4>2. targets[i][2] <= state[1]
        BY <1>2, <3>1, <4>1 DEF Compiling
      <4> QED
        BY <2>3, <3>1, <3>4, <4>2
    <3> QED
      BY <2>4, <3>2, <3>3, <3>4
  <2>7. LayerOrder'
    BY <1>2, <2>6 DEF LayerOrder
  <2>8. ASSUME NEW i \in 1..Len(targets'), NEW other \in todo', layer.targets < i
        PROVE  targets'[i][2] <= other[1]
    <3>1. other \in todo
      BY <1>1
    <3>2. CASE i \in 1..Len(targets)
      BY <1>2, <2>3, <2>8, <3>1, <3>2 DEF Compiling
    <3>3. CASE i = Len(targets) + 1
      BY <1>4, <2>3, <3>1, <3>3
    <3> QED
      BY <2>4, <3>2, <3>3
  <2>9. Compiling'
    BY <1>2, <2>8 DEF Compiling
  <2> QED
    BY <2>7, <2>9
<1> QED
  BY <1>5, <1>6, <1>7

LEMMA CommitOrdered ==
  ASSUME Ordered, CommitDescent PROVE LayerOrder' /\ Compiling'
<1>1. targets' = targets /\ layer'.targets = Len(targets) /\ levels' = Append(levels, layer)
  BY DEF CommitDescent, tables, Ends
<1>2. levels \in Seq(Marks) /\ layer \in Marks /\ Len(levels) \in Nat /\ Len(targets) \in Nat
  BY DEF Ordered, Nested, TypeOK
<1>3. /\ Len(levels') = Len(levels) + 1
      /\ \A l \in 1..Len(levels) : levels'[l] = levels[l] /\ l \in 1..Len(levels')
      /\ levels'[Len(levels) + 1] = layer /\ Len(levels) + 1 \in 1..Len(levels')
  <2>1. /\ Len(levels') = Len(levels) + 1
        /\ \A l \in 1..Len(levels) : levels'[l] = levels[l]
        /\ levels'[Len(levels) + 1] = layer
    BY <1>1, <1>2, AppendProperties
  <2> QED
    BY <1>2, <2>1
<1>4. ASSUME NEW i \in 1..Len(targets), NEW j \in 1..Len(targets), i < j
      PROVE  \/ targets[i][2] <= targets[j][2]
             \/ \E l \in 1..Len(levels') : i <= levels'[l].targets /\ levels'[l].targets < j
  <2>1. \/ targets[i][2] <= targets[j][2]
        \/ i <= layer.targets /\ layer.targets < j
        \/ \E l \in 1..Len(levels) : i <= levels[l].targets /\ levels[l].targets < j
    BY <1>4 DEF Ordered, LayerOrder
  <2> QED
    BY <1>3, <2>1
<1>5. LayerOrder'
  BY <1>1, <1>4 DEF LayerOrder
<1>6. Compiling'
  BY <1>1, <1>2 DEF Compiling
<1> QED
  BY <1>5, <1>6

LEMMA ExitOrdered ==
  ASSUME Ordered, Exit PROVE LayerOrder' /\ Compiling'
<1>1. /\ todo' = {} /\ levels # <<>> /\ targets' = SubSeq(targets, 1, layer.targets)
      /\ layer' = Last(levels) /\ levels' = Front(levels)
  BY DEF Exit
<1>2. /\ targets \in Seq(Fields \X (1..Len(rules))) /\ levels \in Seq(Marks)
      /\ layer.targets \in 0..Len(targets) /\ Len(targets) \in Nat
  BY MarkIs DEF Ordered, Nested, TypeOK, MarksNest, Below
<1>3. Len(targets') = layer.targets /\ \A i \in 1..layer.targets : targets'[i] = targets[i]
  BY <1>1, <1>2, Truncate
<1>4. /\ Len(levels) \in Nat \ {0} /\ layer' = levels[Len(levels)]
      /\ Len(levels') = Len(levels) - 1
      /\ \A l \in 1..Len(levels) - 1 : levels'[l] = levels[l]
  BY <1>1, <1>2, Pop
<1>5. \A l \in 1..Len(levels) : l = Len(levels) \/ l \in 1..Len(levels')
  BY <1>4
<1>6. ASSUME NEW i \in 1..Len(targets'), NEW j \in 1..Len(targets'), i < j
      PROVE  \/ targets'[i][2] <= targets'[j][2]
             \/ i <= layer'.targets /\ layer'.targets < j
             \/ \E l \in 1..Len(levels') : i <= levels'[l].targets /\ levels'[l].targets < j
  <2>1. i \in 1..layer.targets /\ j \in 1..layer.targets /\ ~(layer.targets < j)
        /\ i \in 1..Len(targets) /\ j \in 1..Len(targets)
    BY SMTT(60), <1>2, <1>3
  <2>2. \/ targets[i][2] <= targets[j][2]
        \/ \E l \in 1..Len(levels) : i <= levels[l].targets /\ levels[l].targets < j
    BY <1>6, <2>1 DEF Ordered, LayerOrder
  <2> QED
    BY <1>3, <1>4, <1>5, <2>1, <2>2
<1>7. LayerOrder'
  BY <1>6 DEF LayerOrder
<1> QED
  BY <1>1, <1>7 DEF Compiling

LEMMA NextOrdered == Ordered /\ [Next]_vars => Ordered'
<1> SUFFICES ASSUME Ordered, [Next]_vars PROVE Ordered'
  OBVIOUS
<1>1. Nested'
  BY NextNested DEF Ordered
<1>2. CASE FlattenNext
  BY <1>1, <1>2, FlattenOrdered DEF Ordered
<1>3. CASE \E f \in Fields : ProbeRoutes(f)
  <2>1. UNCHANGED <<targets, layer, levels, todo>>
    BY <1>3 DEF ProbeRoutes, tables, marks
  <2> QED
    BY <1>1, <2>1 DEF Ordered, LayerOrder, Compiling
<1>4. CASE CommitDescent
  BY <1>1, <1>4, CommitOrdered DEF Ordered
<1>5. CASE Exit
  BY <1>1, <1>5, ExitOrdered DEF Ordered
<1>6. CASE UNCHANGED vars
  <2>1. UNCHANGED <<targets, layer, levels, todo>>
    BY <1>6 DEF vars, tables, marks
  <2> QED
    BY <1>1, <2>1 DEF Ordered, LayerOrder, Compiling
<1> QED
  BY <1>2, <1>3, <1>4, <1>5, <1>6 DEF Next

(* Equal path ids are adjacent in every layer (path.rs:1023-1030), since the *)
(* commit sorts the states it takes up: what the one-register folds over the *)
(* targets rest on.                                                          *)
THEOREM LayersStayOrdered == Spec => []LayerOrder
<1>1. Init => Ordered
  BY InitOrdered
<1>2. Ordered /\ [Next]_vars => Ordered'
  BY NextOrdered
<1>3. Ordered => LayerOrder
  BY DEF Ordered
<1> QED
  BY <1>1, <1>2, <1>3, PTL DEF Spec

----------------------------------------------------------------------------
(* Least numbers, and descents through an interval.                        *)

LEMMA NatOrder == OpToRel(<, Nat) = {ss \in Nat \X Nat : ss[1] < ss[2]}
BY DEF OpToRel

LEMMA LeastOf ==
  ASSUME NEW T \in SUBSET Nat, T # {}
  PROVE  Least(T) \in T /\ \A y \in T : Least(T) <= y
<1> DEFINE R == {ss \in Nat \X Nat : ss[1] < ss[2]}
<1>1. IsWellFoundedOn(R, Nat)
  BY NatLessThanWellFounded, NatOrder, Zenon
<1>2. \A x, y \in Nat : <<y, x>> \in R <=> y < x
  OBVIOUS
<1> HIDE DEF R
<1>3. PICK z \in T : \A y \in T : ~(<<y, z>> \in R)
  <2>1. T \subseteq Nat
    OBVIOUS
  <2> QED
    BY <1>1, <2>1, WFMin
<1>4. ASSUME NEW y \in T PROVE z <= y
  <2>1. y \in Nat /\ z \in Nat
    OBVIOUS
  <2>2. ~(<<y, z>> \in R)
    BY <1>3
  <2>3. ~(y < z)
    BY <1>2, <2>1, <2>2, Zenon
  <2> QED
    BY <2>1, <2>3
<1> QED
  BY <1>3, <1>4, Zenon DEF Least

LEMMA LeastIs ==
  ASSUME NEW T \in SUBSET Nat, NEW z \in T, \A y \in T : z <= y
  PROVE  Least(T) = z
<1>1. Least(T) \in T /\ \A y \in T : Least(T) <= y
  BY LeastOf
<1>2. Least(T) <= z /\ z <= Least(T) /\ Least(T) \in Nat /\ z \in Nat
  BY <1>1
<1> QED
  BY <1>2

\* What holds of the last number, and of each whose successor it holds of, holds
\* of all.
LEMMA Descends ==
  ASSUME NEW a \in Nat, NEW b \in Nat, a <= b, NEW S, b \in S,
         \A k \in a..b - 1 : k + 1 \in S => k \in S
  PROVE  \A k \in a..b : k \in S
<1> DEFINE T == {b - k : k \in (a..b) \ S}
<1> SUFFICES ASSUME NEW x \in a..b, x \notin S PROVE FALSE
  OBVIOUS
<1>1. T \in SUBSET Nat /\ b - x \in T
  OBVIOUS
<1>2. PICK z \in T : \A y \in T : z <= y
  BY <1>1, LeastOf, Zenon
<1>3. PICK k \in (a..b) \ S : z = b - k
  BY <1>2
<1>4. k \in a..b - 1
  BY <1>3
<1>5. k + 1 \in (a..b) \ S
  BY <1>3, <1>4
<1>6. b - (k + 1) \in T
  BY <1>5
<1>7. z <= b - (k + 1)
  BY <1>2, <1>6
<1> QED
  BY <1>3, <1>4, <1>7

----------------------------------------------------------------------------
(* What a path spells, one segment at a time.                              *)

\* Where segment i may start if g says it of the segment behind it.
SpelledFrom(steps, fields, g, i) ==
  IF i > Len(steps) THEN {Len(fields) + 1} ELSE Starts(steps[i], fields, g[i + 1])
SpelledBy(steps, fields, g) == [i \in 1..Len(steps) + 1 |-> SpelledFrom(steps, fields, g, i)]

\* The reading backwards from the trail's end exists, segment by segment.
LEMMA SpellingsExist ==
  ASSUME NEW steps, Len(steps) \in Nat, NEW fields
  PROVE  \E g : g = SpelledBy(steps, fields, g)
<1> DEFINE n == Len(steps)
           At(g, i) == IF i > n THEN {Len(fields) + 1} ELSE Starts(steps[i], fields, g[i + 1])
           S == {k \in 1..n + 1 : \E g : \A i \in k..n + 1 : g[i] = At(g, i)}
<1>1. n + 1 \in S
  <2> DEFINE g == [i \in 1..n + 1 |-> {Len(fields) + 1}]
  <2>1. n + 1 > n /\ n + 1 \in 1..n + 1 /\ \A i \in n + 1..n + 1 : i = n + 1
    OBVIOUS
  <2>2. g[n + 1] = {Len(fields) + 1}
    BY <2>1
  <2>3. At(g, n + 1) = {Len(fields) + 1}
    BY <2>1
  <2> HIDE DEF g, At
  <2> QED
    BY <2>1, <2>2, <2>3
<1>2. ASSUME NEW k \in 1..(n + 1) - 1, k + 1 \in S PROVE k \in S
  <2>1. PICK g : \A i \in k + 1..n + 1 : g[i] = At(g, i)
    BY <1>2
  <2> DEFINE h == [i \in 1..n + 1 |-> IF i = k THEN Starts(steps[k], fields, g[k + 1]) ELSE g[i]]
  <2>2. \A i \in k..n + 1 : i = k \/ i \in k + 1..n + 1
    OBVIOUS
  <2>3. h[k] = At(h, k)
    BY <1>2
  <2>4. ASSUME NEW i \in k + 1..n + 1 PROVE h[i] = At(h, i)
    <3>1. h[i] = g[i] /\ (~(i > n) => h[i + 1] = g[i + 1])
      BY <1>2
    <3> QED
      BY <2>1, <3>1
  <2> HIDE DEF h, At
  <2>5. \A i \in k..n + 1 : h[i] = At(h, i)
    BY <2>2, <2>3, <2>4
  <2> QED
    BY <1>2, <2>5
<1> HIDE DEF S
<1>3. 1 \in S
  <2>1. 1 \in Nat /\ n + 1 \in Nat /\ 1 <= n + 1 /\ 1 \in 1..n + 1
    OBVIOUS
  <2>2. \A k \in 1..(n + 1) - 1 : k + 1 \in S => k \in S
    BY <1>2
  <2> HIDE DEF n
  <2> DEFINE b == n + 1
  <2>3. 1 \in Nat /\ b \in Nat /\ 1 <= b /\ b \in S /\ \A k \in 1..b - 1 : k + 1 \in S => k \in S
    BY <1>1, <2>1, <2>2
  <2> HIDE DEF b
  <2>4. \A k \in 1..b : k \in S
    BY <2>3, Descends
  <2> QED
    BY <2>1, <2>4 DEF b
<1>4. PICK g : \A i \in 1..n + 1 : g[i] = At(g, i)
  BY <1>3 DEF S
<1> DEFINE h == [i \in 1..n + 1 |-> g[i]]
<1>5. ASSUME NEW i \in 1..n + 1 PROVE At(h, i) = At(g, i)
  <2>1. CASE i > n
    BY <2>1
  <2>2. CASE ~(i > n)
    <3>1. i + 1 \in 1..n + 1
      BY <2>2
    <3>2. h[i + 1] = g[i + 1]
      BY <3>1
    <3> HIDE DEF h
    <3> QED
      BY <2>2, <3>2
  <2> QED
    BY <2>1, <2>2
<1> HIDE DEF At
<1>6. h = [i \in 1..n + 1 |-> At(h, i)]
  BY <1>4, <1>5
<1> HIDE DEF h
<1>7. \A i : At(h, i) = SpelledFrom(steps, fields, h, i)
  BY DEF At, SpelledFrom
<1>8. h = SpelledBy(steps, fields, h)
  BY <1>6, <1>7 DEF SpelledBy
<1> QED
  BY <1>8

LEMMA SpellingsAre ==
  ASSUME NEW steps, Len(steps) \in Nat, NEW fields, NEW i \in 1..Len(steps) + 1
  PROVE  Spellings(steps, fields)[i] =
           IF i > Len(steps) THEN {Len(fields) + 1}
           ELSE Starts(steps[i], fields, Spellings(steps, fields)[i + 1])
<1> DEFINE f == Spellings(steps, fields)
<1>1. f = CHOOSE g : g = SpelledBy(steps, fields, g)
  BY DEF Spellings, SpelledBy, SpelledFrom
<1>2. \E g : g = SpelledBy(steps, fields, g)
  BY SpellingsExist
<1> HIDE DEF f
<1>3. f = SpelledBy(steps, fields, f)
  BY <1>1, <1>2
<1>4. f[i] = SpelledFrom(steps, fields, f, i)
  BY <1>3 DEF SpelledBy
<1> QED
  BY <1>4 DEF f, SpelledFrom

\* Behind the last segment only the trail's end is left.
LEMMA SpellEnd ==
  ASSUME NEW steps, Len(steps) \in Nat, NEW fields, NEW j
  PROVE  j \in Spellings(steps, fields)[Len(steps) + 1] <=> j = Len(fields) + 1
<1> DEFINE i == Len(steps) + 1
<1>1. i \in 1..Len(steps) + 1 /\ i > Len(steps)
  OBVIOUS
<1> HIDE DEF i
<1>2. Spellings(steps, fields)[i] = {Len(fields) + 1}
  BY <1>1, SpellingsAre, Zenon
<1> QED
  BY <1>2 DEF i

LEMMA SpellStarts ==
  ASSUME NEW steps, Len(steps) \in Nat, NEW fields, NEW s \in 1..Len(steps)
  PROVE  Spellings(steps, fields)[s] = Starts(steps[s], fields, Spellings(steps, fields)[s + 1])
<1>1. s \in 1..Len(steps) + 1 /\ ~(s > Len(steps))
  OBVIOUS
<1> QED
  BY <1>1, SpellingsAre, Zenon

\* A field segment spells one field.
LEMMA SpellField ==
  ASSUME NEW steps, Len(steps) \in Nat, NEW fields, NEW s \in 1..Len(steps),
         ~IsWild(steps[s]), NEW j
  PROVE  j \in Spellings(steps, fields)[s] <=>
           /\ j \in 1..Len(fields) /\ fields[j] = steps[s].field
           /\ j + 1 \in Spellings(steps, fields)[s + 1]
<1>1. Spellings(steps, fields)[s] = Starts(steps[s], fields, Spellings(steps, fields)[s + 1])
  BY SpellStarts, Zenon
<1> QED
  BY <1>1 DEF Starts

\* A wildcard spells nothing, or one field more of its set.
LEMMA SpellWild ==
  ASSUME NEW steps, Len(steps) \in Nat, NEW fields, Len(fields) \in Nat, NEW s \in 1..Len(steps),
         IsWild(steps[s]), NEW j \in 1..Len(fields) + 1,
         Spellings(steps, fields)[s + 1] \subseteq 1..Len(fields) + 1
  PROVE  j \in Spellings(steps, fields)[s] <=>
           \/ j \in Spellings(steps, fields)[s + 1]
           \/ /\ j <= Len(fields) /\ Member(steps[s].descend, fields[j])
              /\ j + 1 \in Spellings(steps, fields)[s]
<1> DEFINE next == Spellings(steps, fields)[s + 1]
           M(i) == Member(steps[s].descend, fields[i])
           Here == Spellings(steps, fields)[s]
<1>1. \A i : i \in Here <=> /\ i \in 1..Len(fields) + 1
                            /\ \E k \in next : i <= k /\ \A n \in i..k - 1 : M(n)
  <2>1. Here = Starts(steps[s], fields, next)
    BY SpellStarts, Zenon
  <2> HIDE DEF Here, next
  <2> QED
    BY <2>1 DEF Starts
<1>2. next \subseteq 1..Len(fields) + 1
  OBVIOUS
<1> HIDE DEF next, M, Here
<1>3. ASSUME j \in Here PROVE j \in next \/ (j <= Len(fields) /\ M(j) /\ j + 1 \in Here)
  <2>1. PICK k \in next : j <= k /\ \A n \in j..k - 1 : M(n)
    BY <1>1, <1>3
  <2>2. k \in 1..Len(fields) + 1
    BY <1>2
  <2>3. CASE k = j
    BY <2>3
  <2>4. CASE k # j
    <3>1. j + 1 <= k /\ j \in j..k - 1 /\ j <= Len(fields) /\ j + 1 \in 1..Len(fields) + 1
      BY <2>1, <2>2, <2>4
    <3>2. \A n \in j + 1..k - 1 : n \in j..k - 1
      BY <2>2
    <3>3. M(j) /\ \A n \in j + 1..k - 1 : M(n)
      BY <2>1, <3>1, <3>2
    <3> QED
      BY <1>1, <3>1, <3>3
  <2> QED
    BY <2>3, <2>4
<1>4. ASSUME j \in next PROVE j \in Here
  <2>1. j <= j /\ \A n \in j..j - 1 : M(n)
    OBVIOUS
  <2> QED
    BY <1>1, <1>4, <2>1
<1>5. ASSUME j <= Len(fields), M(j), j + 1 \in Here PROVE j \in Here
  <2>1. PICK k \in next : j + 1 <= k /\ \A n \in j + 1..k - 1 : M(n)
    BY <1>1, <1>5
  <2>2. k \in 1..Len(fields) + 1
    BY <1>2
  <2>3. \A n \in j..k - 1 : n = j \/ n \in j + 1..k - 1
    BY <2>2
  <2>4. j <= k /\ \A n \in j..k - 1 : M(n)
    BY <1>5, <2>1, <2>2, <2>3
  <2> QED
    BY <1>1, <2>4
<1> QED
  BY <1>3, <1>4, <1>5 DEF next, M, Here

\* A segment starts inside the trail or right behind it.
LEMMA SpellRange ==
  ASSUME NEW steps, Len(steps) \in Nat, NEW fields, Len(fields) \in Nat,
         NEW s \in 1..Len(steps) + 1
  PROVE  Spellings(steps, fields)[s] \subseteq 1..Len(fields) + 1
<1> DEFINE Here == Spellings(steps, fields)[s]
           next == Spellings(steps, fields)[s + 1]
<1>1. Here = IF s > Len(steps) THEN {Len(fields) + 1} ELSE Starts(steps[s], fields, next)
  BY SpellingsAre, Zenon
<1> HIDE DEF Here, next
<1>2. Here \subseteq 1..Len(fields) + 1
  BY <1>1 DEF Starts
<1> QED
  BY <1>2 DEF Here

\* A path that ends in a field spells no empty rest.
LEMMA SpellTail ==
  ASSUME NEW steps, Len(steps) \in Nat, Len(steps) > 0,
         ~IsWild(steps[Len(steps)]), NEW fields, Len(fields) \in Nat,
         NEW s \in 1..Len(steps)
  PROVE  Len(fields) + 1 \notin Spellings(steps, fields)[s]
<1> DEFINE S == {k \in 1..Len(steps) : Len(fields) + 1 \notin Spellings(steps, fields)[k]}
<1>1. ASSUME NEW k \in 1..Len(steps), ~IsWild(steps[k]) PROVE k \in S
  <2>1. Len(fields) + 1 \notin 1..Len(fields)
    OBVIOUS
  <2>2. Len(fields) + 1 \notin Spellings(steps, fields)[k]
    BY <1>1, <2>1, SpellField, Zenon
  <2> QED
    BY <2>2
<1>2. Len(steps) \in S
  BY <1>1
<1>3. ASSUME NEW k \in 1..Len(steps) - 1, k + 1 \in S PROVE k \in S
  <2>1. k \in 1..Len(steps) /\ k + 1 \in 1..Len(steps) + 1
    OBVIOUS
  <2>2. CASE IsWild(steps[k])
    <3>1. Spellings(steps, fields)[k + 1] \subseteq 1..Len(fields) + 1
      BY <2>1, SpellRange
    <3>2. Len(fields) + 1 \in 1..Len(fields) + 1 /\ ~(Len(fields) + 1 <= Len(fields))
      OBVIOUS
    <3>3. Len(fields) + 1 \notin Spellings(steps, fields)[k]
      BY <1>3, <2>1, <2>2, <3>1, <3>2, SpellWild
    <3> QED
      BY <2>1, <3>3
  <2> QED
    BY <1>1, <2>1, <2>2
<1> HIDE DEF S
<1>4. 1 \in Nat /\ 1 <= Len(steps) /\ \A k \in 1..Len(steps) - 1 : k + 1 \in S => k \in S
  BY <1>3
<1>5. \A k \in 1..Len(steps) : k \in S
  BY <1>2, <1>4, Descends
<1> QED
  BY <1>5 DEF S

\* A run of wildcards and the field behind it: the trail's next field is one of
\* the run's, or the field's.
LEMMA SpellRun ==
  ASSUME NEW steps, Len(steps) \in Nat, NEW fields, Len(fields) \in Nat,
         NEW last \in 1..Len(steps), NEW s \in 1..last,
         \A i \in s..last - 1 : IsWild(steps[i]), NEW j \in 1..Len(fields)
  PROVE  j \in Spellings(steps, fields)[s] <=>
           \/ j \in Spellings(steps, fields)[last]
           \/ \E k \in s..last - 1 : /\ Member(steps[k].descend, fields[j])
                                     /\ j + 1 \in Spellings(steps, fields)[k]
<1> DEFINE Sp(i) == Spellings(steps, fields)[i]
           M(i) == Member(steps[i].descend, fields[j])
           Run(i) == \E k \in i..last - 1 : M(k) /\ j + 1 \in Sp(k)
           S == {i \in s..last : j \in Sp(i) <=> j \in Sp(last) \/ Run(i)}
<1>1. last \in S
  OBVIOUS
<1>2. ASSUME NEW i \in s..last - 1, i + 1 \in S PROVE i \in S
  <2>1. i \in 1..Len(steps) /\ i + 1 \in 1..Len(steps) + 1 /\ IsWild(steps[i])
        /\ j \in 1..Len(fields) + 1 /\ j <= Len(fields)
    OBVIOUS
  <2>2. Spellings(steps, fields)[i + 1] \subseteq 1..Len(fields) + 1
    BY <2>1, SpellRange, Zenon
  <2>3. j \in Sp(i) <=> j \in Sp(i + 1) \/ (M(i) /\ j + 1 \in Sp(i))
    BY <2>1, <2>2, SpellWild, Zenon
  <2> HIDE DEF Sp, M
  <2>4. j \in Sp(i + 1) <=> j \in Sp(last) \/ Run(i + 1)
    BY <1>2
  <2>5. \A k : k \in i..last - 1 <=> k = i \/ k \in i + 1..last - 1
    BY <1>2
  <2>6. Run(i) <=> (M(i) /\ j + 1 \in Sp(i)) \/ Run(i + 1)
    BY <2>5
  <2> HIDE DEF Run
  <2>7. j \in Sp(i) <=> j \in Sp(last) \/ Run(i)
    BY <2>3, <2>4, <2>6
  <2> QED
    BY <1>2, <2>7
<1> HIDE DEF S
<1>3. s \in Nat /\ last \in Nat /\ s <= last /\ \A k \in s..last - 1 : k + 1 \in S => k \in S
  BY <1>2
<1>4. \A k \in s..last : k \in S
  BY <1>1, <1>3, Descends
<1>5. s \in S
  BY <1>3, <1>4
<1> QED
  BY <1>5 DEF S

\* What is left of a path behind a container is spelled by one field of every
\* segment.
Shortest(steps, s) ==
  [k \in 1..Len(steps) + 1 - s |-> LET segment == steps[s + k - 1]
                                   IN IF IsWild(segment) THEN segment.descend[1] ELSE segment.field]

LEMMA SpellShortest ==
  ASSUME NEW steps, Len(steps) \in Nat, NEW s \in 1..Len(steps),
         \A i \in 1..Len(steps) : IsWild(steps[i]) => Member(steps[i].descend, steps[i].descend[1]),
         NEW fields, NEW m \in Nat, Len(fields) = m + (Len(steps) + 1 - s),
         \A k \in 1..Len(steps) + 1 - s : fields[m + k] = Shortest(steps, s)[k]
  PROVE  m + 1 \in Spellings(steps, fields)[s]
<1> DEFINE Sp(i) == Spellings(steps, fields)[i]
           At(i) == m + 1 + (i - s)
           S == {i \in s..Len(steps) + 1 : At(i) \in Sp(i)}
<1>1. Len(fields) \in Nat /\ At(Len(steps) + 1) = Len(fields) + 1
  OBVIOUS
<1>2. Len(steps) + 1 \in S
  <2>1. At(Len(steps) + 1) \in Sp(Len(steps) + 1)
    <3> HIDE DEF At
    <3> QED
      BY <1>1, SpellEnd, Zenon
  <2> QED
    BY <2>1
<1>3. ASSUME NEW i \in s..(Len(steps) + 1) - 1, i + 1 \in S PROVE i \in S
  <2> DEFINE j == At(i)
  <2>1. /\ i \in 1..Len(steps) /\ i + 1 \in 1..Len(steps) + 1 /\ j \in 1..Len(fields)
        /\ j + 1 \in 1..Len(fields) + 1 /\ j \in 1..Len(fields) + 1 /\ j <= Len(fields)
        /\ At(i + 1) = j + 1
    BY <1>1
  <2>2. fields[j] = IF IsWild(steps[i]) THEN steps[i].descend[1] ELSE steps[i].field
    <3>1. i - s + 1 \in 1..Len(steps) + 1 - s /\ m + (i - s + 1) = j /\ s + (i - s + 1) - 1 = i
      BY <2>1
    <3>2. fields[m + (i - s + 1)] = Shortest(steps, s)[i - s + 1]
      BY <3>1
    <3>3. Shortest(steps, s)[i - s + 1] =
            IF IsWild(steps[s + (i - s + 1) - 1]) THEN steps[s + (i - s + 1) - 1].descend[1]
                                                  ELSE steps[s + (i - s + 1) - 1].field
      BY <3>1 DEF Shortest
    <3> HIDE DEF j
    <3> QED
      BY <3>1, <3>2, <3>3
  <2>3. j + 1 \in Sp(i + 1)
    BY <1>3, <2>1
  <2> HIDE DEF j
  <2>4. CASE IsWild(steps[i])
    <3>1. Spellings(steps, fields)[i + 1] \subseteq 1..Len(fields) + 1
      BY <1>1, <2>1, SpellRange, Zenon
    <3>2. j + 1 \in Sp(i)
      BY <1>1, <2>1, <2>3, <2>4, <3>1, SpellWild, Zenon
    <3>3. Member(steps[i].descend, fields[j])
      BY <2>1, <2>2, <2>4
    <3> QED
      <4>1. j \in Sp(i)
        BY <1>1, <2>1, <2>4, <3>1, <3>2, <3>3, SpellWild, Zenon
      <4> QED
        BY <1>3, <4>1 DEF j
  <2>5. CASE ~IsWild(steps[i])
    <3>1. j \in Sp(i)
      BY <2>1, <2>2, <2>3, <2>5, SpellField, Zenon
    <3> QED
      BY <1>3, <3>1 DEF j
  <2> QED
    BY <2>4, <2>5
<1> HIDE DEF S
<1>4. /\ s \in Nat /\ Len(steps) + 1 \in Nat /\ s <= Len(steps) + 1
      /\ \A k \in s..(Len(steps) + 1) - 1 : k + 1 \in S => k \in S
  BY <1>3
<1>5. \A k \in s..Len(steps) + 1 : k \in S
  BY <1>2, <1>4, Descends
<1>6. s \in S
  BY <1>4, <1>5
<1> QED
  BY <1>6 DEF S

----------------------------------------------------------------------------
(* The part of a table that one layer owns.                                *)

Part(table, from, to) == {table[n] : n \in from + 1..to}

LEMMA PartKept ==
  ASSUME NEW q, NEW r, NEW a \in Nat, NEW b \in Nat, \A n \in 1..b : q[n] = r[n]
  PROVE  Part(q, a, b) = Part(r, a, b)
<1>1. \A n \in a + 1..b : n \in 1..b
  OBVIOUS
<1>2. \A n \in a + 1..b : q[n] = r[n]
  BY <1>1
<1> QED
  BY <1>2 DEF Part

LEMMA PartEmpty ==
  ASSUME NEW q, NEW a \in Nat PROVE Part(q, a, a) = {}
BY DEF Part

LEMMA PartAppend ==
  ASSUME NEW S, NEW q \in Seq(S), NEW x \in S, NEW a \in 0..Len(q)
  PROVE  Part(Append(q, x), a, Len(Append(q, x))) = Part(q, a, Len(q)) \cup {x}
<1> DEFINE r == Append(q, x)
<1>1. /\ Len(r) = Len(q) + 1 /\ Len(q) \in Nat /\ a \in Nat /\ a <= Len(q)
      /\ \A n \in 1..Len(q) : r[n] = q[n]
      /\ r[Len(q) + 1] = x
  BY AppendProperties
<1> HIDE DEF r
<1>2. \A n : n \in a + 1..Len(r) <=> n \in a + 1..Len(q) \/ n = Len(q) + 1
  BY <1>1
<1>3. \A n \in a + 1..Len(q) : r[n] = q[n]
  BY <1>1
<1>4. \A e : e \in Part(r, a, Len(r)) <=> e \in Part(q, a, Len(q)) \/ e = x
  <2>1. ASSUME NEW e, e \in Part(r, a, Len(r)) PROVE e \in Part(q, a, Len(q)) \/ e = x
    <3>1. PICK n \in a + 1..Len(r) : e = r[n]
      BY <2>1 DEF Part
    <3> QED
      BY <1>1, <1>2, <1>3, <3>1 DEF Part
  <2>2. ASSUME NEW e, e \in Part(q, a, Len(q)) PROVE e \in Part(r, a, Len(r))
    <3>1. PICK n \in a + 1..Len(q) : e = q[n]
      BY <2>2 DEF Part
    <3>2. n \in a + 1..Len(r) /\ e = r[n]
      BY <1>2, <1>3, <3>1
    <3> QED
      BY <3>2 DEF Part
  <2>3. x \in Part(r, a, Len(r))
    <3>1. Len(q) + 1 \in a + 1..Len(r)
      BY <1>1
    <3> QED
      BY <1>1, <3>1 DEF Part
  <2> QED
    BY <2>1, <2>2, <2>3
<1> QED
  BY <1>4 DEF r

LEMMA PartConcat ==
  ASSUME NEW S, NEW q \in Seq(S), NEW r \in Seq(S), NEW a \in 0..Len(q)
  PROVE  Part(q \o r, a, Len(q \o r)) = Part(q, a, Len(q)) \cup {r[k] : k \in 1..Len(r)}
<1> DEFINE c == q \o r
<1>1. /\ Len(c) = Len(q) + Len(r) /\ Len(q) \in Nat /\ Len(r) \in Nat /\ a \in Nat /\ a <= Len(q)
      /\ \A n \in 1..Len(c) : c[n] = IF n <= Len(q) THEN q[n] ELSE r[n - Len(q)]
  BY ConcatProperties
<1> HIDE DEF c
<1>2. ASSUME NEW e, e \in Part(c, a, Len(c))
      PROVE  e \in Part(q, a, Len(q)) \/ e \in {r[k] : k \in 1..Len(r)}
  <2>1. PICK n \in a + 1..Len(c) : e = c[n]
    BY <1>2 DEF Part
  <2>2. n \in 1..Len(c)
    BY <1>1, <2>1
  <2>3. CASE n <= Len(q)
    <3>1. n \in a + 1..Len(q) /\ e = q[n]
      BY <1>1, <2>1, <2>2, <2>3
    <3> QED
      BY <3>1 DEF Part
  <2>4. CASE ~(n <= Len(q))
    <3>1. n - Len(q) \in 1..Len(r) /\ e = r[n - Len(q)]
      BY <1>1, <2>1, <2>2, <2>4
    <3> QED
      BY <3>1
  <2> QED
    BY <2>3, <2>4
<1>3. ASSUME NEW e, e \in Part(q, a, Len(q)) PROVE e \in Part(c, a, Len(c))
  <2>1. PICK n \in a + 1..Len(q) : e = q[n]
    BY <1>3 DEF Part
  <2>2. n \in 1..Len(c) /\ n \in a + 1..Len(c) /\ n <= Len(q)
    BY <1>1, <2>1
  <2>3. e = c[n]
    BY <1>1, <2>1, <2>2
  <2> QED
    BY <2>2, <2>3 DEF Part
<1>4. ASSUME NEW k \in 1..Len(r) PROVE r[k] \in Part(c, a, Len(c))
  <2> DEFINE n == Len(q) + k
  <2>1. n \in 1..Len(c) /\ n \in a + 1..Len(c) /\ ~(n <= Len(q)) /\ n - Len(q) = k
    BY <1>1
  <2> HIDE DEF n
  <2>2. c[n] = r[k]
    BY <1>1, <2>1
  <2> QED
    BY <2>1, <2>2 DEF Part
<1> HIDE DEF c
<1>5. Part(c, a, Len(c)) = Part(q, a, Len(q)) \cup {r[k] : k \in 1..Len(r)}
  BY <1>2, <1>3, <1>4
<1> QED
  BY <1>5 DEF c

----------------------------------------------------------------------------
(* What the open layers answer.                                            *)

\* Where an open layer's part of a table starts; the part behind it ends there.
MarkAt(i) == IF i < Len(levels) THEN levels[i + 1] ELSE IF i = Len(levels) THEN layer ELSE Ends
GapMarkAt(i) ==
  IF i < Len(levels) THEN gapLevels[i + 1] ELSE IF i = Len(levels) THEN gapLayer ELSE Len(gaps)

TargetsAt(i) == Part(targets, MarkAt(i).targets, MarkAt(i + 1).targets)
StagesAt(i) == Part(stages, MarkAt(i).stages, MarkAt(i + 1).stages)
WildsAt(i) == Part(wilds, MarkAt(i).wilds, MarkAt(i + 1).wilds)
GapsAt(i) == Part(gaps, GapMarkAt(i), GapMarkAt(i + 1))

\* Layer i ends path id at field f; it carries a state on into field f.
Lands(i, id, f) ==
  IF rules[id].lane = "Target" THEN <<f, id>> \in TargetsAt(i)
                               ELSE <<f, id, rules[id].lane>> \in GapsAt(i)
Continues(i, f, state) ==
  \/ <<f, state>> \in StagesAt(i)
  \/ \E entry \in WildsAt(i) : Member(entry[1], f) /\ entry[2] = state

\* A trail through the i containers entered and beyond is one that the path
\* selects exactly when the layer's tables lead it there.
Leads(i, id, fields) ==
  \/ Len(fields) = i + 1 /\ Lands(i, id, fields[i + 1])
  \/ Len(fields) > i + 1 /\ \E seg \in 1..Len(rules[id].steps) :
       /\ Continues(i, fields[i + 1], <<id, seg>>)
       /\ i + 2 \in Spellings(rules[id].steps, fields)[seg]
  \/ i = Len(levels) /\ \E seg \in 1..Len(rules[id].steps) :
       <<id, seg>> \in todo /\ i + 1 \in Spellings(rules[id].steps, fields)[seg]
Through(i, fields) == Len(fields) > i /\ \A k \in 1..i : fields[k] = trail[k]
Exact(i) ==
  \A id \in 1..Len(rules), fields \in Seq(Fields) :
    rules[id].steps # <<>> /\ Through(i, fields) =>
      (Selects(rules[id].steps, fields) <=> Leads(i, id, fields))

LayersExact == \A i \in 0..Len(levels) : Exact(i)

\* Every entry is of a path of its table's lane.
LanesApart ==
  /\ \A n \in 1..Len(targets) : /\ rules[targets[n][2]].lane = "Target"
                                /\ rules[targets[n][2]].steps # <<>>
  /\ \A n \in 1..Len(gaps) : /\ rules[gaps[n][2]].lane = gaps[n][3]
                             /\ rules[gaps[n][2]].steps # <<>>

\* A probe stands until the walk moves.
ProbeStands == probed # None => todo = {} /\ staged = StagedBy(probed)

\* Inside a layer the ids of the gap entries never decrease.
GapsOrdered ==
  Gapped =>
    /\ \A i \in 0..Len(levels) : \A n, m \in GapMarkAt(i) + 1..GapMarkAt(i + 1) :
         n < m => gaps[n][2] <= gaps[m][2]
    /\ \A n \in gapLayer + 1..Len(gaps), state \in todo : gaps[n][2] <= state[1]

Answering == Ordered /\ LayersExact /\ LanesApart /\ ProbeStands /\ GapsOrdered

LEMMA PathShape ==
  ASSUME TypeOK, NEW id \in 1..Len(rules), rules[id].steps # <<>>
  PROVE  /\ rules[id].steps \in Seq(Segs)
         /\ Len(rules[id].steps) \in Nat /\ Len(rules[id].steps) > 0
         /\ ~IsWild(rules[id].steps[Len(rules[id].steps)])
         /\ \A i \in 1..Len(rules[id].steps) :
              IsWild(rules[id].steps[i]) =>
                Member(rules[id].steps[i].descend, rules[id].steps[i].descend[1])
<1> DEFINE steps == rules[id].steps
<1>1. steps \in Seq(Segs) /\ Len(steps) \in Nat
  BY RuleShape DEF TypeOK
<1>2. JudgePath(steps)
  BY DEF TypeOK, Admitted
<1>3. Len(steps) > 0
  <2>1. Len(steps) # 0
    BY <1>1, EmptySeq
  <2> HIDE DEF steps
  <2> QED
    BY <1>1, <2>1
<1>4. ASSUME NEW i \in 1..Len(steps), IsWild(steps[i])
      PROVE  Member(steps[i].descend, steps[i].descend[1])
  <2>1. steps[i].descend # <<>>
    BY <1>2, <1>4 DEF JudgePath
  <2>2. steps[i] \in Segs
    BY <1>1, ElementOfSeq
  <2>3. steps[i].descend \in Seq(Fields)
    BY <1>4, <2>2, SegmentShape
  <2> DEFINE d == steps[i].descend
  <2> HIDE DEF d
  <2>4. Len(d) \in Nat /\ Len(d) # 0
    BY <2>1, <2>3, EmptySeq DEF d
  <2>5. 1 \in 1..Len(d)
    BY <2>4
  <2>6. Member(d, d[1])
    BY <2>5 DEF Member
  <2> QED
    BY <2>6 DEF d
<1> QED
  BY <1>1, <1>2, <1>3, <1>4 DEF JudgePath

\* The parts of the open layers lie in order inside the tables.
LEMMA PartsLie ==
  ASSUME Nested, NEW i \in 0..Len(levels)
  PROVE  /\ MarkAt(i) \in Marks /\ MarkAt(i + 1) \in Marks /\ Ends \in Marks
         /\ Below(MarkAt(i), MarkAt(i + 1)) /\ Below(MarkAt(i + 1), Ends)
         /\ Gapped => /\ GapMarkAt(i) \in Nat /\ GapMarkAt(i + 1) \in Nat
                      /\ GapMarkAt(i) <= GapMarkAt(i + 1) /\ GapMarkAt(i + 1) <= Len(gaps)
<1>1. /\ levels \in Seq(Marks) /\ layer \in Marks /\ Len(levels) \in Nat
      /\ gapLevels \in Seq(Nat) /\ gapLayer \in Nat /\ Len(gaps) \in Nat /\ Len(gapLevels) \in Nat
  BY DEF Nested, TypeOK
<1>2. Ends \in Marks
  BY DEF Nested, TypeOK, Ends, Marks
<1>3. \A k \in 1..Len(levels) : levels[k] \in Marks
  BY <1>1, ElementOfSeq
<1>4. /\ Below(layer, Ends) /\ Below(Ends, Ends)
      /\ \A k \in 1..Len(levels) : Below(levels[k], layer) /\ Below(levels[k], Ends)
      /\ \A j, k \in 1..Len(levels) : j <= k => Below(levels[j], levels[k])
  <2>1. Below(layer, Ends) /\ \A k \in 1..Len(levels) : Below(levels[k], layer)
    BY DEF Nested, MarksNest, Ends
  <2>2. Below(Ends, Ends)
    BY <1>2, MarkIs DEF Below
  <2>3. \A k \in 1..Len(levels) : Below(levels[k], Ends)
    BY <1>1, <1>2, <1>3, <2>1, BelowTransitive
  <2>4. \A j, k \in 1..Len(levels) : j <= k => Below(levels[j], levels[k])
    BY DEF Nested, MarksNest
  <2> QED
    BY <2>1, <2>2, <2>3, <2>4
<1>5. CASE i = Len(levels)
  <2>1. MarkAt(i) = layer /\ MarkAt(i + 1) = Ends
    BY <1>1, <1>5 DEF MarkAt
  <2>2. Gapped => GapMarkAt(i) = gapLayer /\ GapMarkAt(i + 1) = Len(gaps)
    BY <1>1, <1>5 DEF GapMarkAt
  <2>3. gapLayer <= Len(gaps)
    BY DEF Nested, MarksNest
  <2> QED
    BY <1>1, <1>2, <1>4, <2>1, <2>2, <2>3
<1>6. CASE i + 1 = Len(levels)
  <2>1. MarkAt(i) = levels[i + 1] /\ MarkAt(i + 1) = layer /\ i + 1 \in 1..Len(levels)
    BY <1>1, <1>6 DEF MarkAt
  <2>2. ASSUME Gapped
        PROVE  /\ GapMarkAt(i) \in Nat /\ GapMarkAt(i + 1) \in Nat
               /\ GapMarkAt(i) <= GapMarkAt(i + 1) /\ GapMarkAt(i + 1) <= Len(gaps)
    <3>1. GapMarkAt(i) = gapLevels[i + 1] /\ GapMarkAt(i + 1) = gapLayer
      BY <1>1, <1>6 DEF GapMarkAt
    <3>2. i + 1 \in 1..Len(gapLevels)
      BY <2>1, <2>2 DEF Nested, MarksNest
    <3>3. gapLevels[i + 1] \in Nat
      BY <1>1, <3>2, ElementOfSeq
    <3> QED
      BY <1>1, <3>1, <3>2, <3>3 DEF Nested, MarksNest
  <2> QED
    BY <1>1, <1>2, <1>3, <1>4, <2>1, <2>2
<1>7. CASE i + 1 < Len(levels)
  <2>1. MarkAt(i) = levels[i + 1] /\ MarkAt(i + 1) = levels[(i + 1) + 1]
        /\ i + 1 \in 1..Len(levels) /\ (i + 1) + 1 \in 1..Len(levels) /\ i + 1 <= (i + 1) + 1
    BY <1>1, <1>7 DEF MarkAt
  <2>2. ASSUME Gapped
        PROVE  /\ GapMarkAt(i) \in Nat /\ GapMarkAt(i + 1) \in Nat
               /\ GapMarkAt(i) <= GapMarkAt(i + 1) /\ GapMarkAt(i + 1) <= Len(gaps)
    <3>1. GapMarkAt(i) = gapLevels[i + 1] /\ GapMarkAt(i + 1) = gapLevels[(i + 1) + 1]
      BY <1>1, <1>7 DEF GapMarkAt
    <3>2. i + 1 \in 1..Len(gapLevels) /\ (i + 1) + 1 \in 1..Len(gapLevels)
      BY <2>1, <2>2 DEF Nested, MarksNest
    <3>3. gapLevels[i + 1] \in Nat /\ gapLevels[(i + 1) + 1] \in Nat
      BY <1>1, <3>2, ElementOfSeq
    <3>4. gapLevels[i + 1] <= gapLevels[(i + 1) + 1] /\ gapLevels[(i + 1) + 1] <= gapLayer
          /\ gapLayer <= Len(gaps)
      BY <2>1, <3>2 DEF Nested, MarksNest
    <3> QED
      BY <1>1, <3>1, <3>3, <3>4
  <2> QED
    BY <1>2, <1>3, <1>4, <2>1, <2>2
<1>8. i = Len(levels) \/ i + 1 = Len(levels) \/ i + 1 < Len(levels)
  BY <1>1
<1> QED
  BY <1>5, <1>6, <1>7, <1>8

\* A layer whose marks and entries stand answers what it answered, where no
\* state of it waits to be compiled before or after the step.
LEMMA LayerKept ==
  ASSUME Nested, NEW i \in 0..Len(levels), Exact(i), rules' = rules,
         MarkAt(i)' = MarkAt(i), MarkAt(i + 1)' = MarkAt(i + 1),
         \A n \in 1..MarkAt(i + 1).targets : targets'[n] = targets[n],
         \A n \in 1..MarkAt(i + 1).stages : stages'[n] = stages[n],
         \A n \in 1..MarkAt(i + 1).wilds : wilds'[n] = wilds[n],
         Gapped => /\ GapMarkAt(i)' = GapMarkAt(i) /\ GapMarkAt(i + 1)' = GapMarkAt(i + 1)
                   /\ \A n \in 1..GapMarkAt(i + 1) : gaps'[n] = gaps[n],
         \A k \in 1..i : trail'[k] = trail[k],
         i = Len(levels) => todo = {}, i = Len(levels') => todo' = {}
  PROVE  Exact(i)'
<1>1. /\ MarkAt(i).targets \in Nat /\ MarkAt(i + 1).targets \in Nat
      /\ MarkAt(i).stages \in Nat /\ MarkAt(i + 1).stages \in Nat
      /\ MarkAt(i).wilds \in Nat /\ MarkAt(i + 1).wilds \in Nat
      /\ Gapped => GapMarkAt(i) \in Nat /\ GapMarkAt(i + 1) \in Nat
  BY PartsLie, MarkIs
<1>2. TargetsAt(i)' = TargetsAt(i)
  <2> DEFINE a == MarkAt(i).targets
             b == MarkAt(i + 1).targets
  <2>1. a \in Nat /\ b \in Nat /\ \A n \in 1..b : targets[n] = targets'[n]
    BY <1>1
  <2> HIDE DEF a, b
  <2>2. Part(targets, a, b) = Part(targets', a, b)
    BY <2>1, PartKept, ZenonT(60)
  <2> QED
    BY <2>2 DEF TargetsAt, a, b
<1>3. StagesAt(i)' = StagesAt(i)
  <2> DEFINE a == MarkAt(i).stages
             b == MarkAt(i + 1).stages
  <2>1. a \in Nat /\ b \in Nat /\ \A n \in 1..b : stages[n] = stages'[n]
    BY <1>1
  <2> HIDE DEF a, b
  <2>2. Part(stages, a, b) = Part(stages', a, b)
    BY <2>1, PartKept, ZenonT(60)
  <2> QED
    BY <2>2 DEF StagesAt, a, b
<1>4. WildsAt(i)' = WildsAt(i)
  <2> DEFINE a == MarkAt(i).wilds
             b == MarkAt(i + 1).wilds
  <2>1. a \in Nat /\ b \in Nat /\ \A n \in 1..b : wilds[n] = wilds'[n]
    BY <1>1
  <2> HIDE DEF a, b
  <2>2. Part(wilds, a, b) = Part(wilds', a, b)
    BY <2>1, PartKept, ZenonT(60)
  <2> QED
    BY <2>2 DEF WildsAt, a, b
<1>5. Gapped => GapsAt(i)' = GapsAt(i)
  <2> SUFFICES ASSUME Gapped PROVE GapsAt(i)' = GapsAt(i)
    OBVIOUS
  <2> DEFINE a == GapMarkAt(i)
             b == GapMarkAt(i + 1)
  <2>1. a \in Nat /\ b \in Nat /\ \A n \in 1..b : gaps[n] = gaps'[n]
    BY <1>1
  <2> HIDE DEF a, b
  <2>2. Part(gaps, a, b) = Part(gaps', a, b)
    BY <2>1, PartKept, ZenonT(60)
  <2> QED
    BY <2>2 DEF GapsAt, a, b
<1>6. ASSUME NEW id \in 1..Len(rules), NEW f PROVE Lands(i, id, f)' <=> Lands(i, id, f)
  <2>1. rules[id].lane # "Target" => Gapped
    BY DEF Gapped
  <2> QED
    BY <1>2, <1>5, <2>1 DEF Lands
<1>7. \A f, state : Continues(i, f, state)' <=> Continues(i, f, state)
  BY <1>3, <1>4 DEF Continues
<1>8. ASSUME NEW id \in 1..Len(rules), NEW fields PROVE Leads(i, id, fields)' <=> Leads(i, id, fields)
  BY ZenonT(60), <1>6, <1>7 DEF Leads
<1>9. \A fields : Through(i, fields)' <=> Through(i, fields)
  BY DEF Through
<1> QED
  BY <1>8, <1>9 DEF Exact

----------------------------------------------------------------------------
(* Each step keeps the layers' answers.                                    *)

\* Where the top layer's part of every table is empty, only the states to come
\* answer for it.
LEMMA EmptyLayerLeads ==
  ASSUME NEW i, MarkAt(i) = MarkAt(i + 1), Gapped => GapMarkAt(i) = GapMarkAt(i + 1),
         MarkAt(i) \in Marks, Gapped => GapMarkAt(i) \in Nat, i = Len(levels),
         NEW id \in 1..Len(rules), NEW fields
  PROVE  Leads(i, id, fields) <=>
           \E seg \in 1..Len(rules[id].steps) :
             <<id, seg>> \in todo /\ i + 1 \in Spellings(rules[id].steps, fields)[seg]
<1>1. TargetsAt(i) = {} /\ StagesAt(i) = {} /\ WildsAt(i) = {}
  BY MarkIs, PartEmpty DEF TargetsAt, StagesAt, WildsAt
<1>2. Gapped => GapsAt(i) = {}
  BY PartEmpty DEF GapsAt
<1>3. \A f : ~Lands(i, id, f)
  <2>1. rules[id].lane # "Target" => Gapped
    BY DEF Gapped
  <2> QED
    BY <1>1, <1>2, <2>1 DEF Lands
<1>4. \A f, state : ~Continues(i, f, state)
  BY <1>1 DEF Continues
<1> QED
  BY <1>3, <1>4 DEF Leads

LEMMA InitExact ==
  ASSUME Init PROVE LayersExact
<1>1. Nested /\ TypeOK
  BY InitNested DEF Nested
<1>2. /\ levels = <<>> /\ layer = [targets |-> 0, stages |-> 0, wilds |-> 0] /\ gapLayer = 0
      /\ targets = <<>> /\ stages = <<>> /\ wilds = <<>> /\ gaps = <<>>
      /\ todo = {<<id, 1>> : id \in 1..Len(rules)}
  BY DEF Init
<1>3. Len(levels) = 0 /\ 0..Len(levels) = {0}
  BY <1>2
<1>4. /\ MarkAt(0) = layer /\ MarkAt(0 + 1) = Ends /\ Ends = layer
      /\ GapMarkAt(0) = 0 /\ GapMarkAt(0 + 1) = 0
  BY <1>2, <1>3 DEF MarkAt, GapMarkAt, Ends
<1>5. MarkAt(0) \in Marks
  BY <1>2, <1>4 DEF Marks
<1>6. ASSUME NEW id \in 1..Len(rules), NEW fields, rules[id].steps # <<>>
      PROVE  Selects(rules[id].steps, fields) <=> Leads(0, id, fields)
  <2>1. Leads(0, id, fields) <=>
          \E seg \in 1..Len(rules[id].steps) :
            <<id, seg>> \in todo /\ 0 + 1 \in Spellings(rules[id].steps, fields)[seg]
    BY <1>3, <1>4, <1>5, EmptyLayerLeads
  <2>2. 1 \in 1..Len(rules[id].steps)
    BY <1>1, <1>6, PathShape
  <2>3. \A seg : <<id, seg>> \in todo <=> seg = 1
    BY <1>2
  <2> DEFINE Sp(seg) == Spellings(rules[id].steps, fields)[seg]
  <2>4. Leads(0, id, fields) <=>
          \E seg \in 1..Len(rules[id].steps) : <<id, seg>> \in todo /\ 1 \in Sp(seg)
    BY <2>1
  <2> HIDE DEF Sp
  <2>5. Leads(0, id, fields) <=> 1 \in Sp(1)
    BY <2>2, <2>3, <2>4
  <2> QED
    BY <2>5 DEF Selects, Sp
<1> QED
  BY <1>3, <1>6 DEF LayersExact, Exact

\* What a probe stages is what the top layer carries on.
LEMMA StagedAre ==
  ASSUME Nested, NEW f, NEW state
  PROVE  state \in StagedBy(f) <=> Continues(Len(levels), f, state)
<1> DEFINE d == Len(levels)
<1>1. MarkAt(d) = layer /\ MarkAt(d + 1) = Ends
  BY DEF MarkAt, Nested, TypeOK
<1>2. StagesAt(d) = Part(stages, layer.stages, Len(stages))
      /\ WildsAt(d) = Part(wilds, layer.wilds, Len(wilds))
  BY <1>1 DEF StagesAt, WildsAt, Ends
<1>3. layer.stages \in Nat /\ Len(stages) \in Nat /\ layer.wilds \in Nat /\ Len(wilds) \in Nat
  BY MarkIs DEF Nested, TypeOK
<1>4. ASSUME NEW i \in layer.stages + 1..Len(stages) PROVE stages[i] = <<stages[i][1], stages[i][2]>>
  <2>1. i \in 1..Len(stages) /\ stages \in Seq(Fields \X States)
    BY <1>3 DEF Nested, TypeOK
  <2>2. stages[i] \in Fields \X States
    BY <2>1, ElementOfSeq
  <2> QED
    BY <2>2
<1>5. (\E i \in {i \in layer.stages + 1..Len(stages) : stages[i][1] = f} : state = stages[i][2])
        <=> <<f, state>> \in StagesAt(d)
  <2>1. ASSUME NEW i \in layer.stages + 1..Len(stages), stages[i][1] = f, state = stages[i][2]
        PROVE  <<f, state>> \in StagesAt(d)
    BY <1>2, <1>4, <2>1 DEF Part
  <2>2. ASSUME <<f, state>> \in StagesAt(d)
        PROVE  \E i \in layer.stages + 1..Len(stages) : stages[i][1] = f /\ state = stages[i][2]
    <3>1. PICK i \in layer.stages + 1..Len(stages) : <<f, state>> = stages[i]
      BY <1>2, <2>2 DEF Part
    <3> QED
      BY <3>1
  <2> QED
    BY <2>1, <2>2
<1>6. (\E i \in {i \in layer.wilds + 1..Len(wilds) : Member(wilds[i][1], f)} : state = wilds[i][2])
        <=> \E entry \in WildsAt(d) : Member(entry[1], f) /\ entry[2] = state
  BY <1>2 DEF Part
<1> QED
  BY <1>5, <1>6 DEF StagedBy, Continues

\* A commit opens an empty layer and moves no other layer's marks.
LEMMA CommitMarks ==
  ASSUME Nested, CommitDescent, NEW d \in Nat, d = Len(levels)
  PROVE  /\ todo = {} /\ probed # None /\ probed \in Fields /\ todo' = staged /\ probed' = None
         /\ UNCHANGED <<rules, targets, stages, wilds, gaps>> /\ Gapped' = Gapped
         /\ Len(levels') = d + 1 /\ layer' = Ends /\ Ends' = Ends
         /\ Gapped => gapLayer' = Len(gaps)
         /\ \A k \in 1..d : trail'[k] = trail[k]
         /\ trail'[d + 1] = probed
         /\ \A i \in 0..d + 1 : MarkAt(i)' = MarkAt(i)
         /\ Gapped => \A i \in 0..d + 1 : GapMarkAt(i)' = GapMarkAt(i)
<1>1. Nested /\ TypeOK
  BY DEF Nested
<1>2. /\ todo = {} /\ probed # None /\ levels' = Append(levels, layer) /\ layer' = Ends
      /\ todo' = staged /\ probed' = None /\ trail' = Append(trail, probed) /\ probed \in Fields
      /\ UNCHANGED <<rules, targets, stages, wilds, gaps>> /\ Gapped' = Gapped /\ Ends' = Ends
      /\ Gapped => gapLevels' = Append(gapLevels, gapLayer) /\ gapLayer' = Len(gaps)
  BY <1>1 DEF CommitDescent, tables, TypeOK, Gapped, Ends
<1>3. /\ levels \in Seq(Marks) /\ layer \in Marks /\ gapLevels \in Seq(Nat) /\ gapLayer \in Nat
      /\ trail \in Seq(Fields) /\ Len(trail) = d /\ d \in Nat /\ Len(gaps) \in Nat
      /\ Gapped => Len(gapLevels) = d
  BY <1>1 DEF TypeOK, Nested, MarksNest
<1>4. /\ Len(levels') = d + 1 /\ levels'[d + 1] = layer
      /\ \A k \in 1..d : levels'[k] = levels[k]
      /\ \A k \in 1..d : trail'[k] = trail[k]
      /\ trail'[d + 1] = probed
  BY <1>2, <1>3, AppendProperties
<1>5. ASSUME Gapped
      PROVE  gapLevels'[d + 1] = gapLayer /\ \A k \in 1..d : gapLevels'[k] = gapLevels[k]
  <2>1. gapLevels' = Append(gapLevels, gapLayer) /\ Len(gapLevels) = d
    BY <1>2, <1>3, <1>5
  <2> QED
    BY <1>3, <2>1, AppendProperties
<1>6. ASSUME NEW i \in 0..d + 1 PROVE MarkAt(i)' = MarkAt(i)
  <2>1. CASE i < d
    BY SMTT(60), <1>3, <1>4, <2>1 DEF MarkAt
  <2>2. CASE i = d
    BY <1>3, <1>4, <2>2 DEF MarkAt
  <2>3. CASE i = d + 1
    BY <1>2, <1>3, <1>4, <2>3 DEF MarkAt
  <2> QED
    BY <1>3, <2>1, <2>2, <2>3
<1>7. ASSUME Gapped, NEW i \in 0..d + 1 PROVE GapMarkAt(i)' = GapMarkAt(i)
  <2>1. CASE i < d
    BY SMTT(60), <1>3, <1>4, <1>5, <1>7, <2>1 DEF GapMarkAt
  <2>2. CASE i = d
    BY <1>3, <1>4, <1>5, <1>7, <2>2 DEF GapMarkAt
  <2>3. CASE i = d + 1
    BY <1>2, <1>3, <1>4, <1>7, <2>3 DEF GapMarkAt
  <2> QED
    BY <1>3, <2>1, <2>2, <2>3
<1> QED
  BY <1>2, <1>4, <1>6, <1>7

LEMMA CommitExact ==
  ASSUME Answering, CommitDescent PROVE LayersExact'
<1> SUFFICES ASSUME NEW d \in Nat, d = Len(levels) PROVE LayersExact'
  BY DEF Answering, Ordered, Nested, TypeOK
<1>1. Nested /\ LayersExact /\ ProbeStands /\ Nested' /\ TypeOK
  BY CommitNested DEF Answering, Ordered, Nested
<1>2. /\ todo = {} /\ probed # None /\ probed \in Fields /\ todo' = staged
      /\ UNCHANGED <<rules, targets, stages, wilds, gaps>> /\ Gapped' = Gapped
      /\ Len(levels') = d + 1 /\ layer' = Ends /\ Ends' = Ends
      /\ Gapped => gapLayer' = Len(gaps)
      /\ \A k \in 1..d : trail'[k] = trail[k]
      /\ trail'[d + 1] = probed
      /\ \A i \in 0..d + 1 : MarkAt(i)' = MarkAt(i)
      /\ Gapped => \A i \in 0..d + 1 : GapMarkAt(i)' = GapMarkAt(i)
  BY <1>1, CommitMarks
<1>3. layer \in Marks /\ Len(trail) = d /\ Len(gaps) \in Nat
  BY <1>1 DEF TypeOK
<1>5. ASSUME NEW i \in 0..d PROVE Exact(i)'
  <2>1. Exact(i) /\ i \in 0..d + 1 /\ i + 1 \in 0..d + 1 /\ \A k \in 1..i : k \in 1..d
    BY <1>1, <1>3 DEF LayersExact
  <2>2. /\ MarkAt(i)' = MarkAt(i) /\ MarkAt(i + 1)' = MarkAt(i + 1)
        /\ Gapped => GapMarkAt(i)' = GapMarkAt(i) /\ GapMarkAt(i + 1)' = GapMarkAt(i + 1)
    BY <1>2, <2>1
  <2>3. /\ \A k \in 1..i : trail'[k] = trail[k]
        /\ i # Len(levels') /\ i \in 0..Len(levels)
    BY <1>3, <1>2, <2>1
  <2> QED
    BY <1>1, <1>2, <2>1, <2>2, <2>3, LayerKept
<1>6. Exact(d + 1)'
  <2>1. /\ \A id \in 1..Len(rules) : \A f : ~Lands(d + 1, id, f)'
        /\ \A f, state : ~Continues(d + 1, f, state)'
    <3>1. /\ MarkAt(d + 1)' = layer' /\ MarkAt((d + 1) + 1)' = Ends' /\ layer' = Ends' /\ layer' \in Marks
          /\ GapMarkAt(d + 1)' = gapLayer' /\ GapMarkAt((d + 1) + 1)' = Len(gaps)'
          /\ Gapped => gapLayer' = Len(gaps)' /\ gapLayer' \in Nat
      BY <1>1, <1>2, <1>3 DEF MarkAt, GapMarkAt, TypeOK, Nested
    <3>2. layer'.targets \in Nat /\ layer'.stages \in Nat /\ layer'.wilds \in Nat
      BY <3>1, MarkIs
    <3>3. TargetsAt(d + 1)' = {} /\ StagesAt(d + 1)' = {} /\ WildsAt(d + 1)' = {}
      BY <3>1, <3>2, PartEmpty DEF TargetsAt, StagesAt, WildsAt
    <3>4. Gapped => GapsAt(d + 1)' = {}
      BY <3>1, PartEmpty DEF GapsAt
    <3>5. \A id \in 1..Len(rules) : rules[id].lane # "Target" => Gapped
      BY DEF Gapped
    <3> QED
      BY <1>2, <3>3, <3>4, <3>5 DEF Lands, Continues
  <2>2. d + 1 = Len(levels')
    BY <1>2
  <2>3. ASSUME NEW id \in 1..Len(rules), NEW fields \in Seq(Fields), rules[id].steps # <<>>,
               Through(d + 1, fields)'
        PROVE  Selects(rules[id].steps, fields) <=> Leads(d + 1, id, fields)'
    <3> DEFINE Sp(seg) == Spellings(rules[id].steps, fields)[seg]
    <3>1. Leads(d + 1, id, fields)' <=>
            \E seg \in 1..Len(rules[id].steps) : <<id, seg>> \in staged /\ (d + 1) + 1 \in Sp(seg)
      BY <1>2, <2>1, <2>2 DEF Leads
    <3>2. Len(fields) \in Nat /\ Len(fields) > d + 1 /\ fields[d + 1] = probed
          /\ \A k \in 1..d : fields[k] = trail[k]
      <4>1. Len(fields) > d + 1 /\ \A k \in 1..d + 1 : fields[k] = trail'[k]
        BY <2>3 DEF Through
      <4>2. d + 1 \in 1..d + 1 /\ \A k \in 1..d : k \in 1..d + 1
        BY <1>3
      <4> QED
        BY <1>2, <4>1, <4>2
    <3>3. Through(d, fields)
      BY <1>3, <3>2 DEF Through
    <3>4. Exact(d)
      BY <1>1, <1>3 DEF LayersExact
    <3>5. Selects(rules[id].steps, fields) <=> Leads(d, id, fields)
      BY <2>3, <3>3, <3>4 DEF Exact
    <3>6. \A seg : <<id, seg>> \in staged <=> Continues(d, fields[d + 1], <<id, seg>>)
      BY <1>1, <1>2, <3>2, StagedAre DEF ProbeStands
    <3>7. (d + 1) + 1 = d + 2 /\ ~(Len(fields) = d + 1)
      BY <3>2
    <3>8. Leads(d, id, fields) <=>
            \E seg \in 1..Len(rules[id].steps) :
              Continues(d, fields[d + 1], <<id, seg>>) /\ d + 2 \in Sp(seg)
      BY <1>2, <3>2, <3>7 DEF Leads
    <3> HIDE DEF Sp
    <3> QED
      BY <3>1, <3>5, <3>6, <3>7, <3>8
  <2> QED
    BY <1>2, <2>3 DEF Exact
<1>7. \A i \in 0..Len(levels') : i \in 0..d \/ i = d + 1
  BY <1>2
<1> QED
  BY <1>5, <1>6, <1>7 DEF LayersExact

\* An exit drops the top layer's entries and moves no other layer's marks.
LEMMA ExitMarks ==
  ASSUME Nested, Exit, NEW d \in Nat, d = Len(levels), d > 0
  PROVE  /\ todo = {} /\ todo' = {} /\ rules' = rules /\ Gapped' = Gapped /\ probed' = None
         /\ Len(levels') = d - 1
         /\ layer.targets \in 0..Len(targets) /\ Len(targets') = layer.targets
         /\ \A n \in 1..layer.targets : targets'[n] = targets[n]
         /\ layer.stages \in 0..Len(stages) /\ Len(stages') = layer.stages
         /\ \A n \in 1..layer.stages : stages'[n] = stages[n]
         /\ layer.wilds \in 0..Len(wilds) /\ Len(wilds') = layer.wilds
         /\ \A n \in 1..layer.wilds : wilds'[n] = wilds[n]
         /\ Gapped => Len(gaps') = gapLayer /\ \A n \in 1..gapLayer : gaps'[n] = gaps[n]
         /\ \A k \in 1..d - 1 : trail'[k] = trail[k]
         /\ \A i \in 0..d : MarkAt(i)' = MarkAt(i)
         /\ Gapped => \A i \in 0..d : GapMarkAt(i)' = GapMarkAt(i)
<1>1. Nested /\ TypeOK /\ levels # <<>>
  BY DEF Nested, Exit
<1>2. /\ todo = {} /\ todo' = {} /\ rules' = rules /\ Gapped' = Gapped
      /\ targets' = SubSeq(targets, 1, layer.targets)
      /\ stages' = SubSeq(stages, 1, layer.stages)
      /\ wilds' = SubSeq(wilds, 1, layer.wilds)
      /\ layer' = Last(levels) /\ levels' = Front(levels) /\ trail' = Front(trail)
      /\ probed' = None
  BY DEF Exit, Gapped
<1>3. /\ levels \in Seq(Marks) /\ layer \in Marks /\ gapLevels \in Seq(Nat) /\ gapLayer \in Nat
      /\ trail \in Seq(Fields) /\ Len(trail) = d
      /\ Gapped => Len(gapLevels) = d
  BY <1>1 DEF TypeOK, Nested, MarksNest
<1>4. /\ Len(levels') = d - 1 /\ layer' = levels[d]
      /\ \A k \in 1..d - 1 : levels'[k] = levels[k]
  BY <1>1, <1>2, <1>3, Pop
<1>5. \A k \in 1..d - 1 : trail'[k] = trail[k]
  <2>1. trail # <<>>
    BY <1>3, EmptySeq
  <2> QED
    BY <1>2, <1>3, <2>1, Pop
<1>6. /\ layer.targets \in 0..Len(targets) /\ layer.stages \in 0..Len(stages)
      /\ layer.wilds \in 0..Len(wilds)
  BY <1>1, MarkIs DEF TypeOK, Nested, MarksNest, Below
<1>7. /\ Len(targets') = layer.targets /\ \A n \in 1..layer.targets : targets'[n] = targets[n]
      /\ Len(stages') = layer.stages /\ \A n \in 1..layer.stages : stages'[n] = stages[n]
      /\ Len(wilds') = layer.wilds /\ \A n \in 1..layer.wilds : wilds'[n] = wilds[n]
  <2>1. /\ targets \in Seq(Fields \X (1..Len(rules))) /\ stages \in Seq(Fields \X States)
        /\ wilds \in Seq(Seq(Fields) \X States)
    BY <1>1 DEF TypeOK
  <2> QED
    BY SMTT(60), <1>2, <1>6, <2>1, Truncate
<1>8. ASSUME Gapped
      PROVE  /\ Len(gaps') = gapLayer /\ \A n \in 1..gapLayer : gaps'[n] = gaps[n]
             /\ gapLayer' = gapLevels[d] /\ Len(gapLevels') = d - 1
             /\ \A k \in 1..d - 1 : gapLevels'[k] = gapLevels[k]
  <2>1. /\ gaps' = SubSeq(gaps, 1, gapLayer) /\ gapLayer' = Last(gapLevels)
        /\ gapLevels' = Front(gapLevels)
    BY <1>8 DEF Exit, ExitGaps
  <2>2. gaps \in Seq(Fields \X (1..Len(rules)) \X {"Head", "Tail"}) /\ gapLayer \in 0..Len(gaps)
    BY <1>1 DEF TypeOK, Nested, MarksNest
  <2>3. gapLevels # <<>>
    BY <1>3, <1>8, EmptySeq
  <2>4. Len(gaps') = gapLayer /\ \A n \in 1..gapLayer : gaps'[n] = gaps[n]
    BY <2>1, <2>2, Truncate
  <2>5. /\ gapLayer' = gapLevels[d] /\ Len(gapLevels') = d - 1
        /\ \A k \in 1..d - 1 : gapLevels'[k] = gapLevels[k]
    BY <1>3, <1>8, <2>1, <2>3, Pop
  <2> QED
    BY <2>4, <2>5
<1>9. Ends' = layer
  <2>1. layer = [targets |-> layer.targets, stages |-> layer.stages, wilds |-> layer.wilds]
    BY <1>3 DEF Marks
  <2> QED
    BY <1>7, <2>1 DEF Ends
<1>10. ASSUME NEW i \in 0..d PROVE MarkAt(i)' = MarkAt(i)
  <2>1. CASE i < d - 1
    BY <1>4, <2>1 DEF MarkAt
  <2>2. CASE i = d - 1
    BY <1>4, <2>2 DEF MarkAt
  <2>3. CASE i = d
    BY <1>4, <1>9, <2>3 DEF MarkAt
  <2> QED
    BY <2>1, <2>2, <2>3
<1>11. ASSUME Gapped, NEW i \in 0..d PROVE GapMarkAt(i)' = GapMarkAt(i)
  <2>1. CASE i < d - 1
    BY <1>4, <1>8, <1>11, <2>1 DEF GapMarkAt
  <2>2. CASE i = d - 1
    BY <1>4, <1>8, <1>11, <2>2 DEF GapMarkAt
  <2>3. CASE i = d
    BY <1>4, <1>8, <1>11, <2>3 DEF GapMarkAt
  <2> QED
    BY <2>1, <2>2, <2>3
<1> QED
  BY <1>2, <1>4, <1>5, <1>6, <1>7, <1>8, <1>10, <1>11

LEMMA ExitExact ==
  ASSUME Answering, Exit PROVE LayersExact'
<1>1. Nested /\ LayersExact /\ TypeOK /\ levels # <<>>
  BY DEF Answering, Ordered, Nested, Exit
<1> SUFFICES ASSUME NEW d \in Nat, d = Len(levels), d > 0 PROVE LayersExact'
  <2>1. Len(levels) \in Nat \ {0}
    BY <1>1, Pop DEF TypeOK
  <2> QED
    BY <2>1
<1>2. /\ todo = {} /\ todo' = {} /\ rules' = rules /\ Gapped' = Gapped /\ probed' = None
      /\ Len(levels') = d - 1
      /\ layer.targets \in 0..Len(targets) /\ Len(targets') = layer.targets
      /\ \A n \in 1..layer.targets : targets'[n] = targets[n]
      /\ layer.stages \in 0..Len(stages) /\ Len(stages') = layer.stages
      /\ \A n \in 1..layer.stages : stages'[n] = stages[n]
      /\ layer.wilds \in 0..Len(wilds) /\ Len(wilds') = layer.wilds
      /\ \A n \in 1..layer.wilds : wilds'[n] = wilds[n]
      /\ Gapped => Len(gaps') = gapLayer /\ \A n \in 1..gapLayer : gaps'[n] = gaps[n]
      /\ \A k \in 1..d - 1 : trail'[k] = trail[k]
      /\ \A i \in 0..d : MarkAt(i)' = MarkAt(i)
      /\ Gapped => \A i \in 0..d : GapMarkAt(i)' = GapMarkAt(i)
  BY <1>1, ExitMarks
<1>3. /\ levels \in Seq(Marks) /\ layer \in Marks /\ gapLevels \in Seq(Nat) /\ gapLayer \in Nat
      /\ Len(trail) = d
      /\ Gapped => Len(gapLevels) = d
  BY <1>1 DEF TypeOK, Nested, MarksNest
<1>4. ASSUME NEW i \in 1..d
       PROVE  /\ MarkAt(i).targets \in Nat /\ MarkAt(i).stages \in Nat /\ MarkAt(i).wilds \in Nat
              /\ Below(MarkAt(i), layer)
              /\ Gapped => GapMarkAt(i) \in Nat /\ GapMarkAt(i) <= gapLayer
  <2>1. CASE i = d
    <3>1. MarkAt(i) = layer /\ GapMarkAt(i) = gapLayer
      BY <2>1 DEF MarkAt, GapMarkAt
    <3>2. Below(layer, layer)
      BY <1>3, MarkIs DEF Below
    <3> QED
      BY <1>3, <3>1, <3>2, MarkIs
  <2>2. CASE i # d
    <3>1. MarkAt(i) = levels[i + 1] /\ GapMarkAt(i) = gapLevels[i + 1] /\ i + 1 \in 1..d
      BY <2>2 DEF MarkAt, GapMarkAt
    <3>2. levels[i + 1] \in Marks /\ Below(levels[i + 1], layer)
      BY <1>1, <1>3, <3>1, ElementOfSeq DEF Nested, MarksNest
    <3>3. Gapped => gapLevels[i + 1] \in Nat /\ gapLevels[i + 1] <= gapLayer
      BY <1>1, <1>3, <3>1, ElementOfSeq DEF Nested, MarksNest
    <3> QED
      BY <3>1, <3>2, <3>3, MarkIs
  <2> QED
    BY <2>1, <2>2
<1>5. /\ layer.targets \in Nat /\ layer.stages \in Nat /\ layer.wilds \in Nat
      /\ \A n \in 1..layer.targets : targets'[n] = targets[n]
      /\ \A n \in 1..layer.stages : stages'[n] = stages[n]
      /\ \A n \in 1..layer.wilds : wilds'[n] = wilds[n]
  BY <1>2, <1>3, MarkIs
<1>6. ASSUME NEW i \in 0..d - 1 PROVE Exact(i)'
  <2>1. Exact(i) /\ i \in 0..d /\ i + 1 \in 0..d /\ i + 1 \in 1..d /\ i \in 0..Len(levels)
    BY <1>1 DEF LayersExact
  <2>2. /\ \A n \in 1..MarkAt(i + 1).targets : n \in 1..layer.targets
        /\ \A n \in 1..MarkAt(i + 1).stages : n \in 1..layer.stages
        /\ \A n \in 1..MarkAt(i + 1).wilds : n \in 1..layer.wilds
    <3> DEFINE m == MarkAt(i + 1)
    <3>1. /\ m.targets \in Nat /\ m.stages \in Nat /\ m.wilds \in Nat
          /\ m.targets <= layer.targets /\ m.stages <= layer.stages /\ m.wilds <= layer.wilds
      BY <1>4, <2>1 DEF Below
    <3> HIDE DEF m
    <3>2. /\ \A n \in 1..m.targets : n \in 1..layer.targets
          /\ \A n \in 1..m.stages : n \in 1..layer.stages
          /\ \A n \in 1..m.wilds : n \in 1..layer.wilds
      BY SMTT(60), <1>5, <3>1
    <3> QED
      BY <3>2 DEF m
  <2>3. /\ \A n \in 1..MarkAt(i + 1).targets : targets'[n] = targets[n]
        /\ \A n \in 1..MarkAt(i + 1).stages : stages'[n] = stages[n]
        /\ \A n \in 1..MarkAt(i + 1).wilds : wilds'[n] = wilds[n]
    BY <1>5, <2>2
  <2>4. Gapped => /\ GapMarkAt(i)' = GapMarkAt(i) /\ GapMarkAt(i + 1)' = GapMarkAt(i + 1)
                  /\ \A n \in 1..GapMarkAt(i + 1) : gaps'[n] = gaps[n]
    <3> SUFFICES ASSUME Gapped
                 PROVE  /\ GapMarkAt(i)' = GapMarkAt(i) /\ GapMarkAt(i + 1)' = GapMarkAt(i + 1)
                        /\ \A n \in 1..GapMarkAt(i + 1) : gaps'[n] = gaps[n]
      OBVIOUS
    <3>1. GapMarkAt(i)' = GapMarkAt(i) /\ GapMarkAt(i + 1)' = GapMarkAt(i + 1)
      BY <1>2, <2>1
    <3>2. GapMarkAt(i + 1) \in Nat /\ GapMarkAt(i + 1) <= gapLayer /\ gapLayer \in Nat
      BY <1>3, <1>4, <2>1
    <3>3. \A n \in 1..GapMarkAt(i + 1) : n \in 1..gapLayer
      BY ONLY <3>2
    <3>4. \A n \in 1..gapLayer : gaps'[n] = gaps[n]
      BY <1>2
    <3> QED
      BY <3>1, <3>3, <3>4
  <2>5. \A k \in 1..i : trail'[k] = trail[k]
    BY <1>2
  <2>6. MarkAt(i)' = MarkAt(i) /\ MarkAt(i + 1)' = MarkAt(i + 1)
    BY <1>2, <2>1
  <2> QED
    BY <1>1, <1>2, <2>1, <2>2, <2>3, <2>4, <2>5, <2>6, LayerKept
<1> QED
  BY <1>2, <1>6 DEF LayersExact

\* A probe touches nothing the layers' answers read.
LEMMA StandsExact ==
  ASSUME LayersExact, UNCHANGED <<rules, tables, marks, todo, trail>> PROVE LayersExact'
<1>1. UNCHANGED <<rules, targets, stages, wilds, gaps, layer, levels, gapLayer, gapLevels, todo, trail>>
  BY DEF tables, marks
<1>2. Ends' = Ends
  BY <1>1 DEF Ends
<1>3. \A i : MarkAt(i)' = MarkAt(i) /\ GapMarkAt(i)' = GapMarkAt(i)
  BY <1>1, <1>2 DEF MarkAt, GapMarkAt
<1>4. \A i : TargetsAt(i)' = TargetsAt(i) /\ StagesAt(i)' = StagesAt(i)
  BY <1>1, <1>3 DEF TargetsAt, StagesAt
<1>5. \A i : WildsAt(i)' = WildsAt(i) /\ GapsAt(i)' = GapsAt(i)
  BY <1>1, <1>3 DEF WildsAt, GapsAt
<1>6. \A i, id, f : Lands(i, id, f)' <=> Lands(i, id, f)
  BY <1>1, <1>4, <1>5 DEF Lands
<1>7. \A i, f, state : Continues(i, f, state)' <=> Continues(i, f, state)
  BY <1>4, <1>5 DEF Continues
<1>8. \A i, id, fields : Leads(i, id, fields)' <=> Leads(i, id, fields)
  BY <1>1, <1>6, <1>7 DEF Leads
<1>9. \A i, fields : Through(i, fields)' <=> Through(i, fields)
  BY <1>1 DEF Through
<1> QED
  BY <1>1, <1>8, <1>9 DEF LayersExact, Exact

\* The chain's first field lands in one table of the top layer.
LEMMA LandAdds ==
  ASSUME Nested, NEW path \in 1..Len(rules), NEW last \in 1..Len(rules[path].steps),
         ~IsWild(rules[path].steps[last]), Land(path, last),
         NEW f, f = rules[path].steps[last].field, NEW lane, lane = rules[path].lane
  PROVE  /\ Part(stages', layer.stages, Len(stages')) =
              Part(stages, layer.stages, Len(stages))
                \cup (IF last < Len(rules[path].steps) THEN {<<f, <<path, last + 1>>>>} ELSE {})
         /\ Part(targets', layer.targets, Len(targets')) =
              Part(targets, layer.targets, Len(targets))
                \cup (IF last = Len(rules[path].steps) /\ lane = "Target" THEN {<<f, path>>} ELSE {})
         /\ Part(gaps', gapLayer, Len(gaps')) =
              Part(gaps, gapLayer, Len(gaps))
                \cup (IF last = Len(rules[path].steps) /\ lane # "Target"
                      THEN {<<f, path, lane>>} ELSE {})
<1>1. rules \in Offered /\ Len(rules) \in Nat /\ Len(rules[path].steps) \in Nat
      /\ lane \in {"Target", "Head", "Tail"} /\ rules[path].steps \in Seq(Segs)
  BY RuleShape DEF Nested, TypeOK
<1>2. f \in Fields
  <2>1. rules[path].steps[last] \in Segs
    BY <1>1, ElementOfSeq
  <2> QED
    BY <2>1, SegmentShape
<1>3. /\ targets \in Seq(Fields \X (1..Len(rules))) /\ stages \in Seq(Fields \X States)
      /\ gaps \in Seq(Fields \X (1..Len(rules)) \X {"Head", "Tail"})
      /\ layer.targets \in 0..Len(targets) /\ layer.stages \in 0..Len(stages)
      /\ gapLayer \in 0..Len(gaps)
  BY SMTT(60), MarkIs DEF Nested, TypeOK, MarksNest, Below
<1>4. CASE last < Len(rules[path].steps)
  <2>1. last + 1 \in 1..Len(rules[path].steps) /\ last # Len(rules[path].steps)
    BY <1>1, <1>4
  <2>2. <<f, <<path, last + 1>>>> \in Fields \X States
    BY <1>2, <2>1, StatesAre
  <2>3. stages' = Append(stages, <<f, <<path, last + 1>>>>) /\ UNCHANGED <<targets, gaps>>
    BY <1>4 DEF Land
  <2>4. Part(stages', layer.stages, Len(stages')) =
          Part(stages, layer.stages, Len(stages)) \cup {<<f, <<path, last + 1>>>>}
    <3> DEFINE entry == <<f, <<path, last + 1>>>>
               grown == Append(stages, entry)
    <3>1. entry \in Fields \X States
      BY <2>2
    <3>2. Part(grown, layer.stages, Len(grown)) = Part(stages, layer.stages, Len(stages)) \cup {entry}
      <4> DEFINE S == Fields \X States
      <4>1. stages \in Seq(S) /\ entry \in S /\ layer.stages \in 0..Len(stages)
        BY <1>3, <3>1
      <4> HIDE DEF entry, S
      <4> QED
        BY ONLY <4>1, PartAppend
    <3> QED
      BY <2>3, <3>2
  <2> QED
    BY <1>4, <2>1, <2>3, <2>4
<1>5. CASE ~(last < Len(rules[path].steps)) /\ lane = "Target"
  <2>1. <<f, path>> \in Fields \X (1..Len(rules))
    BY <1>2
  <2>2. targets' = Append(targets, <<f, path>>) /\ UNCHANGED <<stages, gaps>>
    BY <1>5 DEF Land
  <2>3. Part(targets', layer.targets, Len(targets')) =
          Part(targets, layer.targets, Len(targets)) \cup {<<f, path>>}
    <3> DEFINE entry == <<f, path>>
               grown == Append(targets, entry)
    <3>1. entry \in Fields \X (1..Len(rules))
      BY <2>1
    <3>2. Part(grown, layer.targets, Len(grown)) = Part(targets, layer.targets, Len(targets)) \cup {entry}
      <4> DEFINE S == Fields \X (1..Len(rules))
      <4>1. targets \in Seq(S) /\ entry \in S /\ layer.targets \in 0..Len(targets)
        BY <1>3, <3>1
      <4> HIDE DEF entry, S
      <4> QED
        BY ONLY <4>1, PartAppend
    <3> QED
      BY <2>2, <3>2
  <2>4. last = Len(rules[path].steps)
    BY <1>1, <1>5
  <2> QED
    BY <1>5, <2>2, <2>3, <2>4
<1>6. CASE ~(last < Len(rules[path].steps)) /\ lane # "Target"
  <2>1. <<f, path, lane>> \in Fields \X (1..Len(rules)) \X {"Head", "Tail"}
    BY <1>1, <1>2, <1>6
  <2>2. gaps' = Append(gaps, <<f, path, lane>>) /\ UNCHANGED <<targets, stages>>
    BY <1>6 DEF Land
  <2>3. Part(gaps', gapLayer, Len(gaps')) =
          Part(gaps, gapLayer, Len(gaps)) \cup {<<f, path, lane>>}
    <3> DEFINE entry == <<f, path, lane>>
               grown == Append(gaps, entry)
    <3>1. entry \in Fields \X (1..Len(rules)) \X {"Head", "Tail"}
      BY <2>1
    <3>2. Part(grown, gapLayer, Len(grown)) = Part(gaps, gapLayer, Len(gaps)) \cup {entry}
      <4> DEFINE S == Fields \X (1..Len(rules)) \X {"Head", "Tail"}
      <4>1. gaps \in Seq(S) /\ entry \in S /\ gapLayer \in 0..Len(gaps)
        BY <1>3, <3>1
      <4> HIDE DEF entry, S
      <4> QED
        BY ONLY <4>1, PartAppend
    <3> QED
      BY <2>2, <3>2
  <2>4. last = Len(rules[path].steps)
    BY <1>1, <1>6
  <2> QED
    BY <1>6, <2>2, <2>3, <2>4
<1> QED
  BY <1>4, <1>5, <1>6

\* The run's wildcards loop on themselves in the top layer.
LEMMA LoopsAdd ==
  ASSUME Nested, NEW path \in 1..Len(rules), NEW seg \in 1..Len(rules[path].steps),
         NEW last \in seg..Len(rules[path].steps),
         \A i \in seg..last - 1 : IsWild(rules[path].steps[i]),
         wilds' = wilds \o [k \in 1..last - seg |->
                    <<rules[path].steps[seg + k - 1].descend, <<path, seg + k - 1>>>>],
         wilds' \in Seq(Seq(Fields) \X States)
  PROVE  \A e : e \in Part(wilds', layer.wilds, Len(wilds')) <=>
                  \/ e \in Part(wilds, layer.wilds, Len(wilds))
                  \/ \E k \in seg..last - 1 : e = <<rules[path].steps[k].descend, <<path, k>>>>
<1> DEFINE E(k) == <<rules[path].steps[k].descend, <<path, k>>>>
           loops == [k \in 1..last - seg |-> E(seg + k - 1)]
<1>1. /\ rules[path].steps \in Seq(Segs) /\ Len(rules[path].steps) \in Nat
      /\ wilds \in Seq(Seq(Fields) \X States) /\ layer.wilds \in 0..Len(wilds)
  BY SMTT(60), RuleShape, MarkIs DEF Nested, TypeOK, MarksNest, Below
<1>2. last - seg \in Nat /\ seg \in Nat /\ last \in Nat
  BY <1>1
<1>3. ASSUME NEW k \in seg..last - 1 PROVE E(k) \in Seq(Fields) \X States
  <2>1. k \in 1..Len(rules[path].steps) /\ IsWild(rules[path].steps[k])
    BY <1>1
  <2>2. rules[path].steps[k] \in Segs
    BY <1>1, <2>1, ElementOfSeq
  <2>3. rules[path].steps[k].descend \in Seq(Fields)
    BY <2>1, <2>2, SegmentShape
  <2>4. <<path, k>> \in States
    BY <2>1, StatesAre
  <2> QED
    BY <2>3, <2>4
<1> HIDE DEF E
<1>4. \A k \in 1..last - seg : seg + k - 1 \in seg..last - 1
  BY <1>2
<1>5. \A k \in 1..last - seg : loops[k] = E(seg + k - 1) /\ loops[k] \in Seq(Fields) \X States
  BY <1>3, <1>4
<1>6. loops \in Seq(Seq(Fields) \X States) /\ Len(loops) = last - seg
  <2>1. loops = [k \in 1..last - seg |-> loops[k]] /\ DOMAIN loops = 1..last - seg
    OBVIOUS
  <2> HIDE DEF loops
  <2>2. loops \in Seq(Seq(Fields) \X States)
    BY <1>2, <1>5, <2>1, EntriesMakeSeq
  <2> QED
    BY <1>2, <2>1, <2>2
<1>7. wilds' = wilds \o loops
  BY DEF E
<1> HIDE DEF loops
<1>8. Part(wilds', layer.wilds, Len(wilds')) =
        Part(wilds, layer.wilds, Len(wilds)) \cup {loops[k] : k \in 1..Len(loops)}
  <2> DEFINE grown == wilds \o loops
  <2>1. Part(grown, layer.wilds, Len(grown)) =
          Part(wilds, layer.wilds, Len(wilds)) \cup {loops[k] : k \in 1..Len(loops)}
    BY <1>1, <1>6, PartConcat, ZenonT(60)
  <2> QED
    BY <1>7, <2>1
<1>9. ASSUME NEW e
      PROVE  e \in {loops[k] : k \in 1..Len(loops)} <=> \E k \in seg..last - 1 : e = E(k)
  <2>1. ASSUME NEW k \in 1..Len(loops), e = loops[k] PROVE \E n \in seg..last - 1 : e = E(n)
    BY <1>4, <1>5, <1>6, <2>1
  <2>2. ASSUME NEW k \in seg..last - 1 PROVE E(k) \in {loops[n] : n \in 1..Len(loops)}
    <3> DEFINE n == k - seg + 1
    <3>1. n \in 1..last - seg /\ seg + n - 1 = k
      BY <1>2
    <3> HIDE DEF n
    <3>2. loops[n] = E(k)
      BY <1>5, <3>1
    <3> QED
      BY <1>6, <3>1, <3>2
  <2> QED
    BY <2>1, <2>2
<1> QED
  BY <1>8, <1>9 DEF E

\* What flatten enters for a state stands for what the state spells: its run's
\* wildcards and the field behind them, one field of the trail on.
LEMMA RunLeads ==
  ASSUME NEW steps, Len(steps) \in Nat, Len(steps) > 0, ~IsWild(steps[Len(steps)]),
         NEW s \in 1..Len(steps), NEW last \in s..Len(steps),
         ~IsWild(steps[last]), \A i \in s..last - 1 : IsWild(steps[i]),
         NEW fields, Len(fields) \in Nat, NEW d \in Nat, Len(fields) > d
  PROVE  d + 1 \in Spellings(steps, fields)[s] <=>
           \/ Len(fields) = d + 1 /\ last = Len(steps) /\ fields[d + 1] = steps[last].field
           \/ Len(fields) > d + 1 /\ \E k \in 1..Len(steps) :
                /\ \/ last < Len(steps) /\ fields[d + 1] = steps[last].field /\ k = last + 1
                   \/ k \in s..last - 1 /\ Member(steps[k].descend, fields[d + 1])
                /\ d + 2 \in Spellings(steps, fields)[k]
<1> DEFINE Sp(k) == Spellings(steps, fields)[k]
           M(k) == Member(steps[k].descend, fields[d + 1])
           here == fields[d + 1] = steps[last].field
<1>1. /\ last \in 1..Len(steps) /\ s \in 1..last /\ d + 1 \in 1..Len(fields)
      /\ (d + 1) + 1 = d + 2
      /\ \A k \in s..last - 1 : k \in 1..Len(steps)
  OBVIOUS
<1>2. d + 1 \in Sp(s) <=> d + 1 \in Sp(last) \/ \E k \in s..last - 1 : M(k) /\ d + 2 \in Sp(k)
  BY <1>1, SpellRun
<1>3. d + 1 \in Sp(last) <=> here /\ d + 2 \in Sp(last + 1)
  BY SMTT(60), <1>1, SpellField
<1>4. \A k \in 1..Len(steps) : Len(fields) + 1 \notin Sp(k)
  BY SpellTail
<1>5. \A j : j \in Sp(Len(steps) + 1) <=> j = Len(fields) + 1
  BY SpellEnd
<1> HIDE DEF Sp, M, here
<1>6. CASE Len(fields) = d + 1
  <2>1. d + 2 = Len(fields) + 1 /\ ~(Len(fields) > d + 1)
    BY <1>6
  <2>2. ~\E k \in s..last - 1 : M(k) /\ d + 2 \in Sp(k)
    BY <1>1, <1>4, <2>1
  <2>3. d + 2 \in Sp(last + 1) <=> last = Len(steps)
    <3>1. CASE last = Len(steps)
      BY <1>5, <2>1, <3>1
    <3>2. CASE last # Len(steps)
      <4>1. last + 1 \in 1..Len(steps)
        BY <1>1, <3>2
      <4> QED
        BY <1>4, <2>1, <3>2, <4>1
    <3> QED
      BY <3>1, <3>2
  <2> QED
    BY <1>2, <1>3, <1>6, <2>1, <2>2, <2>3 DEF here, Sp, M
<1>7. CASE Len(fields) > d + 1
  <2>1. d + 2 # Len(fields) + 1 /\ ~(Len(fields) = d + 1)
    BY <1>7
  <2>2. here /\ d + 2 \in Sp(last + 1) <=>
          \E k \in 1..Len(steps) : last < Len(steps) /\ here /\ k = last + 1 /\ d + 2 \in Sp(k)
    <3>1. CASE last = Len(steps)
      <4>1. d + 2 \notin Sp(last + 1) /\ ~(last < Len(steps))
        BY <1>5, <2>1, <3>1
      <4> QED
        BY <4>1
    <3>2. CASE last # Len(steps)
      <4>1. last + 1 \in 1..Len(steps) /\ last < Len(steps)
        BY <1>1, <3>2
      <4> QED
        BY <4>1
    <3> QED
      BY <3>1, <3>2
  <2>3. (\E k \in s..last - 1 : M(k) /\ d + 2 \in Sp(k)) <=>
          \E k \in 1..Len(steps) : k \in s..last - 1 /\ M(k) /\ d + 2 \in Sp(k)
    BY <1>1
  <2>4. d + 1 \in Sp(s) <=>
          \E k \in 1..Len(steps) :
            /\ \/ last < Len(steps) /\ here /\ k = last + 1
               \/ k \in s..last - 1 /\ M(k)
            /\ d + 2 \in Sp(k)
    BY <1>2, <1>3, <2>2, <2>3
  <2> QED
    BY <1>7, <2>1, <2>4 DEF here, Sp, M
<1> QED
  BY <1>6, <1>7

\* The step compiles a state's run, up to its field at segment last.
RunFrom(path, s, last) ==
  /\ last \in s..Len(rules[path].steps)
  /\ ~IsWild(rules[path].steps[last])
  /\ \A i \in s..last - 1 : IsWild(rules[path].steps[i])
  /\ wilds' = wilds \o [k \in 1..last - s |->
                 <<rules[path].steps[s + k - 1].descend, <<path, s + k - 1>>>>]
  /\ Land(path, last)

\* What the top layer answers more than before: the run's field ends the path
\* or carries it on, and its wildcards loop.
LandsMore(d, path, last) ==
  \A id \in 1..Len(rules) : \A f : Lands(d, id, f)' <=>
    \/ Lands(d, id, f)
    \/ id = path /\ last = Len(rules[path].steps) /\ f = rules[path].steps[last].field
ContinuesMore(d, path, s, last) ==
  \A f, id, seg : Continues(d, f, <<id, seg>>)' <=>
    \/ Continues(d, f, <<id, seg>>)
    \/ /\ id = path /\ last < Len(rules[path].steps)
       /\ f = rules[path].steps[last].field /\ seg = last + 1
    \/ id = path /\ seg \in s..last - 1 /\ Member(rules[path].steps[seg].descend, f)

LEMMA FlattenAdds ==
  ASSUME Nested, Nested', NEW path \in 1..Len(rules), NEW s \in 1..Len(rules[path].steps),
         UNCHANGED <<rules, layer, levels, gapLayer>>, NEW last, RunFrom(path, s, last),
         NEW d \in Nat, d = Len(levels)
  PROVE  LandsMore(d, path, last) /\ ContinuesMore(d, path, s, last)
<1>0. /\ last \in s..Len(rules[path].steps)
      /\ ~IsWild(rules[path].steps[last])
      /\ \A i \in s..last - 1 : IsWild(rules[path].steps[i])
      /\ wilds' = wilds \o [k \in 1..last - s |->
                     <<rules[path].steps[s + k - 1].descend, <<path, s + k - 1>>>>]
      /\ Land(path, last)
  BY DEF RunFrom
<1>1. /\ MarkAt(d) = layer /\ MarkAt(d + 1) = Ends /\ GapMarkAt(d) = gapLayer /\ GapMarkAt(d + 1) = Len(gaps)
      /\ MarkAt(d)' = layer /\ MarkAt(d + 1)' = Ends' /\ GapMarkAt(d)' = gapLayer
      /\ GapMarkAt(d + 1)' = Len(gaps')
  BY DEF MarkAt, GapMarkAt
<1>2. /\ TargetsAt(d) = Part(targets, layer.targets, Len(targets))
      /\ TargetsAt(d)' = Part(targets', layer.targets, Len(targets'))
      /\ StagesAt(d) = Part(stages, layer.stages, Len(stages))
      /\ StagesAt(d)' = Part(stages', layer.stages, Len(stages'))
      /\ WildsAt(d) = Part(wilds, layer.wilds, Len(wilds))
      /\ WildsAt(d)' = Part(wilds', layer.wilds, Len(wilds'))
      /\ GapsAt(d) = Part(gaps, gapLayer, Len(gaps))
      /\ GapsAt(d)' = Part(gaps', gapLayer, Len(gaps'))
  BY SMTT(60), <1>1 DEF TargetsAt, StagesAt, WildsAt, GapsAt, Ends
<1> DEFINE N == Len(rules[path].steps)
           g == rules[path].steps[last].field
           lane == rules[path].lane
<1>3. last \in 1..N /\ N \in Nat /\ last \in Nat
  BY SMTT(60), <1>0, RuleShape DEF Nested, TypeOK
<1>4. /\ StagesAt(d)' = StagesAt(d) \cup (IF last < N THEN {<<g, <<path, last + 1>>>>} ELSE {})
      /\ TargetsAt(d)' = TargetsAt(d) \cup (IF last = N /\ lane = "Target" THEN {<<g, path>>} ELSE {})
      /\ GapsAt(d)' = GapsAt(d) \cup (IF last = N /\ lane # "Target" THEN {<<g, path, lane>>} ELSE {})
  <2> HIDE DEF g, lane
  <2>1. /\ Part(stages', layer.stages, Len(stages')) =
             Part(stages, layer.stages, Len(stages))
               \cup (IF last < N THEN {<<g, <<path, last + 1>>>>} ELSE {})
        /\ Part(targets', layer.targets, Len(targets')) =
             Part(targets, layer.targets, Len(targets))
               \cup (IF last = N /\ lane = "Target" THEN {<<g, path>>} ELSE {})
        /\ Part(gaps', gapLayer, Len(gaps')) =
             Part(gaps, gapLayer, Len(gaps))
               \cup (IF last = N /\ lane # "Target" THEN {<<g, path, lane>>} ELSE {})
    <3>1. g = rules[path].steps[last].field /\ lane = rules[path].lane
      BY DEF g, lane
    <3> QED
      BY ZenonT(60), <1>0, <1>3, <3>1, LandAdds
  <2> HIDE DEF N
  <2> QED
    BY <1>2, <2>1
<1>5. \A e : e \in WildsAt(d)' <=>
               \/ e \in WildsAt(d)
               \/ \E k \in s..last - 1 : e = <<rules[path].steps[k].descend, <<path, k>>>>
  <2>1. wilds' \in Seq(Seq(Fields) \X States)
    <3>1. States' = States
      BY SMTT(60) DEF States
    <3> QED
      BY <3>1 DEF Nested, TypeOK
  <2>2. \A e : e \in Part(wilds', layer.wilds, Len(wilds')) <=>
                 \/ e \in Part(wilds, layer.wilds, Len(wilds))
                 \/ \E k \in s..last - 1 : e = <<rules[path].steps[k].descend, <<path, k>>>>
    BY ZenonT(60), <1>0, <2>1, LoopsAdd
  <2> QED
    BY <1>2, <2>2
<1>6. ASSUME NEW id \in 1..Len(rules), NEW f
      PROVE  Lands(d, id, f)' <=> Lands(d, id, f) \/ (id = path /\ last = N /\ f = g)
  <2>1. CASE rules[id].lane = "Target"
    <3>1. Lands(d, id, f) <=> <<f, id>> \in TargetsAt(d)
      BY <2>1 DEF Lands
    <3>2. Lands(d, id, f)' <=> <<f, id>> \in TargetsAt(d)'
      BY <2>1 DEF Lands
    <3>3. <<f, id>> = <<g, path>> <=> f = g /\ id = path
      OBVIOUS
    <3>4. id = path => lane = "Target"
      BY <2>1
    <3> HIDE DEF g, N, lane
    <3> QED
      BY <1>4, <3>1, <3>2, <3>3, <3>4
  <2>2. CASE rules[id].lane # "Target"
    <3>1. Lands(d, id, f) <=> <<f, id, rules[id].lane>> \in GapsAt(d)
      BY <2>2 DEF Lands
    <3>2. Lands(d, id, f)' <=> <<f, id, rules[id].lane>> \in GapsAt(d)'
      BY <2>2 DEF Lands
    <3>3. <<f, id, rules[id].lane>> = <<g, path, lane>> <=> f = g /\ id = path /\ rules[id].lane = lane
      OBVIOUS
    <3>4. id = path => lane # "Target" /\ rules[id].lane = lane
      BY <2>2
    <3> HIDE DEF g, N, lane
    <3> QED
      BY <1>4, <3>1, <3>2, <3>3, <3>4
  <2> QED
    BY <2>1, <2>2
<1>7. ASSUME NEW f, NEW id, NEW seg
      PROVE  Continues(d, f, <<id, seg>>)' <=>
               \/ Continues(d, f, <<id, seg>>)
               \/ id = path /\ last < N /\ f = g /\ seg = last + 1
               \/ id = path /\ seg \in s..last - 1 /\ Member(rules[path].steps[seg].descend, f)
  <2>1. <<f, <<id, seg>>>> \in StagesAt(d)' <=>
          <<f, <<id, seg>>>> \in StagesAt(d) \/ (id = path /\ last < N /\ f = g /\ seg = last + 1)
    <3>1. <<f, <<id, seg>>>> = <<g, <<path, last + 1>>>> <=> f = g /\ id = path /\ seg = last + 1
      OBVIOUS
    <3> HIDE DEF g, N, lane
    <3> QED
      BY <1>4, <3>1
  <2>2. (\E e \in WildsAt(d)' : Member(e[1], f) /\ e[2] = <<id, seg>>) <=>
          \/ \E e \in WildsAt(d) : Member(e[1], f) /\ e[2] = <<id, seg>>
          \/ id = path /\ seg \in s..last - 1 /\ Member(rules[path].steps[seg].descend, f)
    <3>1. ASSUME NEW e, e \in WildsAt(d)', Member(e[1], f), e[2] = <<id, seg>>
          PROVE  \/ \E x \in WildsAt(d) : Member(x[1], f) /\ x[2] = <<id, seg>>
                 \/ id = path /\ seg \in s..last - 1 /\ Member(rules[path].steps[seg].descend, f)
      BY <1>5, <3>1
    <3>2. ASSUME NEW e \in WildsAt(d), Member(e[1], f), e[2] = <<id, seg>>
          PROVE  \E x \in WildsAt(d)' : Member(x[1], f) /\ x[2] = <<id, seg>>
      BY <1>5, <3>2
    <3>3. ASSUME id = path, seg \in s..last - 1, Member(rules[path].steps[seg].descend, f)
          PROVE  \E x \in WildsAt(d)' : Member(x[1], f) /\ x[2] = <<id, seg>>
      <4> DEFINE e == <<rules[path].steps[seg].descend, <<path, seg>>>>
      <4>1. e \in WildsAt(d)'
        BY <1>5, <3>3
      <4>2. Member(e[1], f) /\ e[2] = <<id, seg>>
        BY <3>3
      <4> QED
        BY <4>1, <4>2
    <3> QED
      BY <3>1, <3>2, <3>3
  <2> QED
    BY <2>1, <2>2 DEF Continues
<1> QED
  BY <1>6, <1>7 DEF LandsMore, ContinuesMore

LEMMA FlattenTop ==
  ASSUME Nested, Nested', NEW path, NEW s, <<path, s>> \in todo, FlattenState(path, s),
         todo' = todo \ {<<path, s>>}, UNCHANGED <<rules, layer, levels, gapLayer, trail>>,
         NEW d \in Nat, d = Len(levels), Exact(d)
  PROVE  Exact(d)'
<1> DEFINE steps == rules[path].steps
<1>1. path \in 1..Len(rules) /\ (steps # <<>> => s \in 1..Len(steps))
  <2> DEFINE state == <<path, s>>
  <2>1. state \in todo /\ state[1] = path /\ state[2] = s
    OBVIOUS
  <2> HIDE DEF state
  <2>2. state[1] \in 1..Len(rules) /\ (rules[state[1]].steps # <<>> => state[2] \in 1..Len(rules[state[1]].steps))
    BY <2>1, TodoIs DEF Nested
  <2> QED
    BY <2>1, <2>2
<1>5. ASSUME steps # <<>>
      PROVE  \E last \in s..Len(steps) :
               RunFrom(path, s, last) /\ LandsMore(d, path, last) /\ ContinuesMore(d, path, s, last)
  <2>1. PICK last : RunFrom(path, s, last) /\ last \in s..Len(steps)
    BY <1>5 DEF FlattenState, RunFrom
  <2> QED
    BY <1>1, <1>5, <2>1, FlattenAdds
<1>2. ASSUME NEW id \in 1..Len(rules), NEW fields \in Seq(Fields), rules[id].steps # <<>>, Through(d, fields)
      PROVE  Leads(d, id, fields)' <=> Leads(d, id, fields)
  <2> DEFINE Sp(seg) == Spellings(rules[id].steps, fields)[seg]
             A == Len(fields) = d + 1 /\ Lands(d, id, fields[d + 1])
             B == Len(fields) > d + 1 /\ \E seg \in 1..Len(rules[id].steps) :
                    Continues(d, fields[d + 1], <<id, seg>>) /\ d + 2 \in Sp(seg)
             C == \E seg \in 1..Len(rules[id].steps) : <<id, seg>> \in todo /\ d + 1 \in Sp(seg)
             AA == Len(fields) = d + 1 /\ Lands(d, id, fields[d + 1])'
             BB == Len(fields) > d + 1 /\ \E seg \in 1..Len(rules[id].steps) :
                    Continues(d, fields[d + 1], <<id, seg>>)' /\ d + 2 \in Sp(seg)
             CC == \E seg \in 1..Len(rules[id].steps) :
                     (<<id, seg>> \in todo /\ <<id, seg>> # <<path, s>>) /\ d + 1 \in Sp(seg)
  <2>1. (Leads(d, id, fields) <=> A \/ B \/ C) /\ (Leads(d, id, fields)' <=> AA \/ BB \/ CC)
    <3>1. Leads(d, id, fields) <=> A \/ B \/ C
      BY DEF Leads
    <3>2. Leads(d, id, fields)' <=> AA \/ BB \/ CC
      BY DEF Leads
    <3> QED
      BY <3>1, <3>2
  <2>2. CASE id # path
    <3>1. C <=> CC
      BY <1>1, <2>2
    <3>2. /\ \A f : Lands(d, id, f)' <=> Lands(d, id, f)
          /\ \A f, seg : Continues(d, f, <<id, seg>>)' <=> Continues(d, f, <<id, seg>>)
      <4>1. CASE steps = <<>>
        <5>1. UNCHANGED <<targets, stages, wilds, gaps>>
          BY <4>1 DEF FlattenState, tables
        <5>2. MarkAt(d)' = MarkAt(d) /\ MarkAt(d + 1)' = MarkAt(d + 1)
              /\ GapMarkAt(d)' = GapMarkAt(d) /\ GapMarkAt(d + 1)' = GapMarkAt(d + 1)
          BY <5>1 DEF MarkAt, GapMarkAt, Ends
        <5> QED
          BY <5>1, <5>2 DEF Lands, Continues, TargetsAt, StagesAt, WildsAt, GapsAt
      <4>2. CASE steps # <<>>
        <5>1. PICK last \in s..Len(steps) : LandsMore(d, path, last) /\ ContinuesMore(d, path, s, last)
          BY <1>5, <4>2
        <5> QED
          BY SMTT(60), <2>2, <5>1 DEF LandsMore, ContinuesMore
      <4> QED
        BY <4>1, <4>2
    <3>3. AA <=> A
      BY <3>2
    <3>4. BB <=> B
      BY <3>2
    <3> HIDE DEF A, B, C, AA, BB, CC
    <3> QED
      BY <2>1, <3>1, <3>3, <3>4
  <2>3. CASE id = path
    <3>1. /\ steps \in Seq(Segs) /\ Len(steps) \in Nat /\ Len(steps) > 0
          /\ ~IsWild(steps[Len(steps)]) /\ s \in 1..Len(steps)
          /\ rules[id].steps = steps
      BY <1>1, <1>2, <2>3, PathShape DEF Nested
    <3>2. PICK last \in s..Len(steps) : RunFrom(path, s, last) /\ LandsMore(d, path, last) /\ ContinuesMore(d, path, s, last)
      BY <1>2, <1>5, <2>3
    <3>3. Len(fields) \in Nat /\ Len(fields) > d
      BY <1>2 DEF Through
    <3> DEFINE a == Len(fields) = d + 1 /\ last = Len(steps) /\ fields[d + 1] = steps[last].field
               M(k) == \/ last < Len(steps) /\ fields[d + 1] = steps[last].field /\ k = last + 1
                       \/ k \in s..last - 1 /\ Member(steps[k].descend, fields[d + 1])
               b == Len(fields) > d + 1 /\ \E k \in 1..Len(rules[id].steps) : M(k) /\ d + 2 \in Sp(k)
    <3>4. d + 1 \in Sp(s) <=> a \/ b
      <4>1. d + 1 \in Spellings(steps, fields)[s] <=>
              \/ Len(fields) = d + 1 /\ last = Len(steps) /\ fields[d + 1] = steps[last].field
              \/ Len(fields) > d + 1 /\ \E k \in 1..Len(steps) :
                   /\ \/ last < Len(steps) /\ fields[d + 1] = steps[last].field /\ k = last + 1
                      \/ k \in s..last - 1 /\ Member(steps[k].descend, fields[d + 1])
                   /\ d + 2 \in Spellings(steps, fields)[k]
        <5>1. /\ last \in s..Len(steps) /\ ~IsWild(steps[last])
              /\ \A i \in s..last - 1 : IsWild(steps[i])
          BY <3>2 DEF RunFrom
        <5> HIDE DEF steps
        <5> QED
          BY ONLY ZenonT(60), <3>1, <3>3, <5>1, d \in Nat, RunLeads
      <4> QED
        BY <3>1, <4>1
    <3>5. /\ \A f : Lands(d, id, f)' <=>
               Lands(d, id, f) \/ (last = Len(steps) /\ f = steps[last].field)
          /\ \A f, seg : Continues(d, f, <<id, seg>>)' <=>
               \/ Continues(d, f, <<id, seg>>)
               \/ last < Len(steps) /\ f = steps[last].field /\ seg = last + 1
               \/ seg \in s..last - 1 /\ Member(steps[seg].descend, f)
      BY <2>3, <3>2 DEF LandsMore, ContinuesMore
    <3>6. AA <=> A \/ a
      BY <3>5
    <3>7. BB <=> B \/ b
      <4>1. \A seg : Continues(d, fields[d + 1], <<id, seg>>)' <=>
                       Continues(d, fields[d + 1], <<id, seg>>) \/ M(seg)
        BY <3>5
      <4> HIDE DEF M, Sp
      <4> QED
        BY <4>1
    <3>8. C <=> CC \/ d + 1 \in Sp(s)
      <4>1. s \in 1..Len(rules[id].steps) /\ <<id, s>> = <<path, s>> /\ <<id, s>> \in todo
        BY <2>3, <3>1
      <4>2. \A seg : <<id, seg>> = <<path, s>> <=> seg = s
        BY <1>1, <2>3, <3>1
      <4> HIDE DEF Sp, steps
      <4> QED
        BY <4>1, <4>2
    <3> HIDE DEF A, B, C, AA, BB, CC, a, b, Sp
    <3> QED
      BY <2>1, <3>4, <3>6, <3>7, <3>8
  <2> QED
    BY <2>2, <2>3
<1>3. \A fields : Through(d, fields)' <=> Through(d, fields)
  BY DEF Through
<1> QED
  BY <1>2, <1>3 DEF Exact

LEMMA FlattenExact ==
  ASSUME Answering, FlattenNext PROVE LayersExact'
<1> SUFFICES ASSUME NEW d \in Nat, d = Len(levels) PROVE LayersExact'
  BY DEF Answering, Ordered, Nested, TypeOK
<1>1. Nested /\ LayersExact /\ Nested' /\ TypeOK
  BY FlattenNested DEF Answering, Ordered, Nested
<1>2. PICK state \in todo : FlattenState(state[1], state[2]) /\ todo' = todo \ {state}
                            /\ UNCHANGED <<rules, marks, staged, probed, trail>>
  BY DEF FlattenNext
<1>3. UNCHANGED <<rules, layer, levels, gapLayer, gapLevels, trail>>
  BY <1>2 DEF marks
<1>4. /\ \A n \in 1..Len(targets) : targets'[n] = targets[n]
      /\ \A n \in 1..Len(stages) : stages'[n] = stages[n]
      /\ \A n \in 1..Len(wilds) : wilds'[n] = wilds[n]
      /\ \A n \in 1..Len(gaps) : gaps'[n] = gaps[n]
  BY <1>1, <1>2, FlattenStateTypes
<1>5. ASSUME NEW i \in 0..d PROVE MarkAt(i)' = MarkAt(i) /\ GapMarkAt(i)' = GapMarkAt(i)
  BY <1>3 DEF MarkAt, GapMarkAt
<1>6. ASSUME NEW i \in 0..d - 1 PROVE Exact(i)'
  <2>1. Exact(i) /\ i \in 0..d /\ i + 1 \in 0..d /\ i \in 0..Len(levels) /\ i # Len(levels)
    BY <1>1 DEF LayersExact
  <2>2. /\ MarkAt(i + 1) \in Marks /\ Ends \in Marks /\ Below(MarkAt(i + 1), Ends)
        /\ Gapped => GapMarkAt(i + 1) \in Nat /\ GapMarkAt(i + 1) <= Len(gaps) /\ Len(gaps) \in Nat
    BY <1>1, <2>1, PartsLie DEF TypeOK
  <2>3. /\ \A n \in 1..MarkAt(i + 1).targets : n \in 1..Len(targets)
        /\ \A n \in 1..MarkAt(i + 1).stages : n \in 1..Len(stages)
        /\ \A n \in 1..MarkAt(i + 1).wilds : n \in 1..Len(wilds)
    BY SMTT(60), <2>2, MarkIs DEF Below, Ends
  <2>4. Gapped => \A n \in 1..GapMarkAt(i + 1) : n \in 1..Len(gaps)
    BY <2>2
  <2>5. MarkAt(i)' = MarkAt(i) /\ MarkAt(i + 1)' = MarkAt(i + 1)
        /\ GapMarkAt(i)' = GapMarkAt(i) /\ GapMarkAt(i + 1)' = GapMarkAt(i + 1)
    BY <1>5, <2>1
  <2> QED
    BY <1>1, <1>3, <1>4, <2>1, <2>3, <2>4, <2>5, LayerKept
<1>7. Exact(d)'
  <2>1. Exact(d)
    BY <1>1 DEF LayersExact
  <2>2. state = <<state[1], state[2]>>
    BY <1>1, StateIs DEF TypeOK
  <2>3. <<state[1], state[2]>> \in todo /\ todo' = todo \ {<<state[1], state[2]>>}
    BY <1>2, <2>2
  <2> QED
    BY <1>1, <1>2, <1>3, <2>1, <2>3, FlattenTop
<1> QED
  BY <1>3, <1>6, <1>7 DEF LayersExact

----------------------------------------------------------------------------
(* The lanes, the probe and the order of the gap entries.                  *)

LEMMA LanesKept ==
  ASSUME LanesApart, UNCHANGED rules, Len(targets) \in Nat, Len(gaps) \in Nat,
         Len(targets') \in 0..Len(targets), \A n \in 1..Len(targets') : targets'[n] = targets[n],
         Len(gaps') \in 0..Len(gaps), \A n \in 1..Len(gaps') : gaps'[n] = gaps[n]
  PROVE  LanesApart'
<1>1. \A n \in 1..Len(targets') : n \in 1..Len(targets)
  OBVIOUS
<1>2. \A n \in 1..Len(gaps') : n \in 1..Len(gaps)
  OBVIOUS
<1> QED
  BY ZenonT(60), <1>1, <1>2 DEF LanesApart

LEMMA FlattenLanes ==
  ASSUME Nested, LanesApart, FlattenNext PROVE LanesApart'
<1>1. PICK state \in todo : FlattenState(state[1], state[2]) /\ UNCHANGED rules
  BY DEF FlattenNext
<1>2. /\ \A n \in 1..Len(targets) : targets'[n] = targets[n]
      /\ \A n \in 1..Len(gaps) : gaps'[n] = gaps[n]
      /\ \/ targets' = targets
         \/ /\ rules[state[1]].lane = "Target" /\ rules[state[1]].steps # <<>>
            /\ \E f \in Fields : targets' = Append(targets, <<f, state[1]>>)
      /\ \/ gaps' = gaps
         \/ /\ rules[state[1]].lane # "Target" /\ rules[state[1]].steps # <<>>
            /\ \E f \in Fields : gaps' = Append(gaps, <<f, state[1], rules[state[1]].lane>>)
  BY <1>1, FlattenStateTypes DEF Nested
<1>3. Len(targets) \in Nat /\ Len(gaps) \in Nat
  BY DEF Nested, TypeOK
<1>4. ASSUME NEW n \in 1..Len(targets')
      PROVE  rules[targets'[n][2]].lane = "Target" /\ rules[targets'[n][2]].steps # <<>>
  <2>1. CASE n \in 1..Len(targets)
    BY <1>2, <2>1 DEF LanesApart
  <2>2. CASE ~(n \in 1..Len(targets))
    <3>1. PICK f \in Fields : targets' = Append(targets, <<f, state[1]>>)
      BY <1>2, <1>4, <2>2
    <3>2. Len(targets') = Len(targets) + 1 /\ targets'[Len(targets) + 1] = <<f, state[1]>>
      BY <3>1 DEF Nested, TypeOK
    <3>3. n = Len(targets) + 1
      BY <1>3, <2>2, <3>2
    <3>4. targets'[n][2] = state[1] /\ targets' # targets
      BY <1>3, <3>2, <3>3
    <3> QED
      BY <1>2, <3>4
  <2> QED
    BY <2>1, <2>2
<1>5. ASSUME NEW n \in 1..Len(gaps')
      PROVE  rules[gaps'[n][2]].lane = gaps'[n][3] /\ rules[gaps'[n][2]].steps # <<>>
  <2>1. CASE n \in 1..Len(gaps)
    BY <1>2, <2>1 DEF LanesApart
  <2>2. CASE ~(n \in 1..Len(gaps))
    <3>1. PICK f \in Fields : gaps' = Append(gaps, <<f, state[1], rules[state[1]].lane>>)
      BY <1>2, <1>5, <2>2
    <3>2. /\ Len(gaps') = Len(gaps) + 1
          /\ gaps'[Len(gaps) + 1] = <<f, state[1], rules[state[1]].lane>>
      BY <3>1 DEF Nested, TypeOK
    <3>3. n = Len(gaps) + 1
      BY <1>3, <2>2, <3>2
    <3>4. gaps'[n][2] = state[1] /\ gaps'[n][3] = rules[state[1]].lane /\ gaps' # gaps
      BY <1>3, <3>2, <3>3
    <3> QED
      BY <1>2, <3>4
  <2> QED
    BY <2>1, <2>2
<1> QED
  BY <1>1, <1>4, <1>5 DEF LanesApart

\* The gap entries grow by one at most, of the path compiled: no earlier than
\* any of the layer, no later than any state still to come.
LEMMA FlattenGaps ==
  ASSUME Nested, GapsOrdered, FlattenNext, Gapped, NEW d \in Nat, d = Len(levels)
  PROVE  GapsOrdered'
<1>1. PICK state \in todo : /\ \A other \in todo : Before(state, other)
                            /\ FlattenState(state[1], state[2]) /\ todo' = todo \ {state}
                            /\ UNCHANGED <<rules, marks>>
  BY DEF FlattenNext
<1>2. UNCHANGED <<rules, layer, levels, gapLayer, gapLevels>>
  BY <1>1 DEF marks
<1>3. /\ \A n \in 1..Len(gaps) : gaps'[n] = gaps[n]
      /\ \/ gaps' = gaps
         \/ \E f \in Fields : gaps' = Append(gaps, <<f, state[1], rules[state[1]].lane>>)
  BY <1>1, FlattenStateTypes DEF Nested
<1>4. /\ Len(gaps) \in Nat /\ gapLayer \in Nat /\ gapLayer <= Len(gaps) /\ state[1] \in Nat
  BY TodoPathsAre DEF Nested, TypeOK, MarksNest
<1>5. \A other \in todo : state[1] <= other[1]
  <2> SUFFICES ASSUME NEW other \in todo PROVE state[1] <= other[1]
    OBVIOUS
  <2>1. other[1] \in Nat
    BY TodoPathsAre DEF Nested
  <2> QED
    BY <1>1, <1>4, <2>1 DEF Before
<1>6. \/ Len(gaps') = Len(gaps)
      \/ Len(gaps') = Len(gaps) + 1 /\ gaps'[Len(gaps) + 1][2] = state[1]
  <2>1. ASSUME NEW f \in Fields, gaps' = Append(gaps, <<f, state[1], rules[state[1]].lane>>)
        PROVE  Len(gaps') = Len(gaps) + 1 /\ gaps'[Len(gaps) + 1] = <<f, state[1], rules[state[1]].lane>>
    BY <2>1 DEF Nested, TypeOK
  <2> QED
    BY <1>3, <2>1
<1>7. /\ \A n \in gapLayer + 1..Len(gaps), other \in todo : gaps[n][2] <= other[1]
      /\ \A n \in gapLayer + 1..Len(gaps) : n \in 1..Len(gaps)
  BY <1>4 DEF GapsOrdered
<1>8. ASSUME NEW n \in gapLayer + 1..Len(gaps'), NEW other \in todo'
      PROVE  gaps'[n][2] <= other[1]
  <2>1. other \in todo
    BY <1>1
  <2>2. CASE n \in gapLayer + 1..Len(gaps)
    BY <1>3, <1>7, <2>1, <2>2
  <2>3. CASE ~(n \in gapLayer + 1..Len(gaps))
    <3>1. n = Len(gaps) + 1 /\ Len(gaps') # Len(gaps)
      BY <1>4, <1>6, <2>3
    <3> QED
      BY <1>5, <1>6, <2>1, <3>1
  <2> QED
    BY <2>2, <2>3
<1>9. ASSUME NEW i \in 0..d, NEW n \in GapMarkAt(i)' + 1..GapMarkAt(i + 1)',
             NEW m \in GapMarkAt(i)' + 1..GapMarkAt(i + 1)', n < m
      PROVE  gaps'[n][2] <= gaps'[m][2]
  <2>1. /\ GapMarkAt(i)' = GapMarkAt(i)
        /\ i < d => GapMarkAt(i + 1)' = GapMarkAt(i + 1)
        /\ i = d => /\ GapMarkAt(i) = gapLayer /\ GapMarkAt(i + 1) = Len(gaps)
                    /\ GapMarkAt(i + 1)' = Len(gaps')
    BY <1>2 DEF GapMarkAt
  <2>2. /\ GapMarkAt(i) \in Nat /\ GapMarkAt(i + 1) \in Nat
        /\ GapMarkAt(i) <= GapMarkAt(i + 1) /\ GapMarkAt(i + 1) <= Len(gaps)
    BY PartsLie
  <2>3. \A p, q \in GapMarkAt(i) + 1..GapMarkAt(i + 1) :
          p < q => gaps[p][2] <= gaps[q][2]
    BY DEF GapsOrdered
  <2>4. \A p \in GapMarkAt(i) + 1..GapMarkAt(i + 1) : p \in 1..Len(gaps) /\ gaps'[p] = gaps[p]
    BY SMTT(60), <1>3, <1>4, <2>2
  <2>5. CASE n \in GapMarkAt(i) + 1..GapMarkAt(i + 1) /\ m \in GapMarkAt(i) + 1..GapMarkAt(i + 1)
    BY <1>9, <2>3, <2>4, <2>5
  <2>6. CASE ~(n \in GapMarkAt(i) + 1..GapMarkAt(i + 1) /\ m \in GapMarkAt(i) + 1..GapMarkAt(i + 1))
    <3>1. i = d
      BY <2>1, <2>6
    <3>2. n \in gapLayer + 1..Len(gaps') /\ m \in gapLayer + 1..Len(gaps')
      BY <2>1, <3>1
    <3>3. m = Len(gaps) + 1 /\ Len(gaps') # Len(gaps) /\ n \in gapLayer + 1..Len(gaps)
      BY SMTT(60), <1>4, <1>6, <1>9, <2>1, <2>6, <3>1, <3>2
    <3>4. gaps[n][2] <= state[1] /\ gaps'[n] = gaps[n]
      BY <1>3, <1>7, <3>3
    <3> QED
      BY <1>6, <3>3, <3>4
  <2> QED
    BY <2>5, <2>6
<1> QED
  BY <1>2, <1>8, <1>9 DEF GapsOrdered

\* Where the open layers' parts of the gap table are parts they were, their
\* order stands.
LEMMA GapsKept ==
  ASSUME GapsOrdered, Gapped, NEW c, todo' = {} \/ gapLayer' = Len(gaps'),
         Len(levels') = c, Len(gaps') \in Nat,
         \A i \in 0..c : \/ GapMarkAt(i)' = GapMarkAt(i + 1)'
                         \/ /\ i \in 0..Len(levels)
                            /\ GapMarkAt(i)' = GapMarkAt(i) /\ GapMarkAt(i + 1)' = GapMarkAt(i + 1)
                            /\ \A n \in GapMarkAt(i) + 1..GapMarkAt(i + 1) : gaps'[n] = gaps[n],
         \A i \in 0..c + 1 : GapMarkAt(i)' \in Nat
  PROVE  GapsOrdered'
<1>1. ASSUME NEW i \in 0..c, NEW n \in GapMarkAt(i)' + 1..GapMarkAt(i + 1)',
             NEW m \in GapMarkAt(i)' + 1..GapMarkAt(i + 1)', n < m
      PROVE  gaps'[n][2] <= gaps'[m][2]
  <2>1. CASE GapMarkAt(i)' = GapMarkAt(i + 1)'
    <3>1. GapMarkAt(i)' \in Nat
      OBVIOUS
    <3> QED
      BY <2>1, <3>1
  <2>2. CASE /\ i \in 0..Len(levels)
             /\ GapMarkAt(i)' = GapMarkAt(i) /\ GapMarkAt(i + 1)' = GapMarkAt(i + 1)
             /\ \A p \in GapMarkAt(i) + 1..GapMarkAt(i + 1) : gaps'[p] = gaps[p]
    BY <1>1, <2>2 DEF GapsOrdered
  <2> QED
    BY <2>1, <2>2
<1>2. \A n \in gapLayer' + 1..Len(gaps'), other \in todo' : gaps'[n][2] <= other[1]
  OBVIOUS
<1> QED
  BY <1>1, <1>2 DEF GapsOrdered

LEMMA CommitGaps ==
  ASSUME Nested, GapsOrdered, CommitDescent, NEW d \in Nat, d = Len(levels), Gapped
  PROVE  GapsOrdered'
<1>1. /\ UNCHANGED gaps /\ Len(levels') = d + 1 /\ gapLayer' = Len(gaps)
      /\ \A i \in 0..d + 1 : GapMarkAt(i)' = GapMarkAt(i)
  BY CommitMarks
<1>2. Len(gaps) \in Nat
  BY DEF Nested, TypeOK
<1>3. GapMarkAt(d + 1)' = Len(gaps) /\ GapMarkAt((d + 1) + 1)' = Len(gaps)
  BY <1>1 DEF GapMarkAt
<1>4. \A i \in 0..d : GapMarkAt(i) \in Nat /\ GapMarkAt(i + 1) \in Nat
  BY PartsLie
<1>5. ASSUME NEW i \in 0..(d + 1) + 1 PROVE GapMarkAt(i)' \in Nat
  <2>1. i \in 0..d \/ i = d + 1 \/ i = (d + 1) + 1
    OBVIOUS
  <2> QED
    BY SMTT(60), <1>1, <1>2, <1>3, <1>4, <2>1
<1>6. ASSUME NEW i \in 0..d + 1
      PROVE  \/ GapMarkAt(i)' = GapMarkAt(i + 1)'
             \/ /\ i \in 0..Len(levels)
                /\ GapMarkAt(i)' = GapMarkAt(i) /\ GapMarkAt(i + 1)' = GapMarkAt(i + 1)
                /\ \A n \in GapMarkAt(i) + 1..GapMarkAt(i + 1) : gaps'[n] = gaps[n]
  <2>1. CASE i = d + 1
    BY <1>3, <2>1
  <2>2. CASE i # d + 1
    <3>1. i \in 0..d /\ i + 1 \in 0..d + 1
      BY <2>2
    <3> QED
      BY <1>1, <3>1
  <2> QED
    BY <2>1, <2>2
<1> DEFINE c == d + 1
<1>7. gapLayer' = Len(gaps') /\ Len(levels') = c /\ Len(gaps') \in Nat
  BY <1>1, <1>2
<1> HIDE DEF c
<1> QED
  BY <1>5, <1>6, <1>7, GapsKept DEF c

LEMMA ExitGapsOrdered ==
  ASSUME Nested, GapsOrdered, Exit, NEW d \in Nat, d = Len(levels), d > 0, Gapped
  PROVE  GapsOrdered'
<1>1. /\ todo' = {} /\ Len(levels') = d - 1
      /\ Len(gaps') = gapLayer /\ \A n \in 1..gapLayer : gaps'[n] = gaps[n]
      /\ \A i \in 0..d : GapMarkAt(i)' = GapMarkAt(i)
  BY ExitMarks
<1>2. gapLayer \in Nat
  BY DEF Nested, TypeOK
<1>3. \A i \in 0..d : /\ GapMarkAt(i) \in Nat /\ GapMarkAt(i + 1) \in Nat
                      /\ GapMarkAt(i) <= GapMarkAt(i + 1)
  BY PartsLie
<1>4. GapMarkAt(d) = gapLayer
  BY DEF GapMarkAt
<1>5. \A i \in 1..d : GapMarkAt(i) <= gapLayer
  <2> SUFFICES ASSUME NEW i \in 1..d PROVE GapMarkAt(i) <= gapLayer
    OBVIOUS
  <2>1. CASE i = d
    BY <1>2, <1>4, <2>1
  <2>2. CASE i # d
    <3>1. GapMarkAt(i) = gapLevels[i + 1] /\ i + 1 \in 1..Len(levels)
      BY <2>2 DEF GapMarkAt
    <3> QED
      BY <3>1 DEF Nested, MarksNest
  <2> QED
    BY <2>1, <2>2
<1>6. ASSUME NEW i \in 0..d - 1
      PROVE  \/ GapMarkAt(i)' = GapMarkAt(i + 1)'
             \/ /\ i \in 0..Len(levels)
                /\ GapMarkAt(i)' = GapMarkAt(i) /\ GapMarkAt(i + 1)' = GapMarkAt(i + 1)
                /\ \A n \in GapMarkAt(i) + 1..GapMarkAt(i + 1) : gaps'[n] = gaps[n]
  <2>1. i \in 0..d /\ i + 1 \in 0..d /\ i + 1 \in 1..d
    OBVIOUS
  <2>2. \A n \in GapMarkAt(i) + 1..GapMarkAt(i + 1) : n \in 1..gapLayer
    BY SMTT(60), <1>2, <1>3, <1>5, <2>1
  <2> QED
    BY <1>1, <2>1, <2>2
<1> DEFINE c == d - 1
<1>7. /\ Len(levels') = c /\ Len(gaps') \in Nat
      /\ \A i \in 0..c + 1 : GapMarkAt(i)' \in Nat
  <2>1. \A i \in 0..c + 1 : i \in 0..d
    OBVIOUS
  <2> QED
    BY <1>1, <1>2, <1>3, <2>1
<1> HIDE DEF c
<1> QED
  BY <1>1, <1>6, <1>7, GapsKept DEF c

----------------------------------------------------------------------------
(* The invariant of every answer.                                          *)

LEMMA InitAnswering == Init => Answering
<1> SUFFICES ASSUME Init PROVE Answering
  OBVIOUS
<1>1. /\ Len(targets) = 0 /\ Len(gaps) = 0 /\ Len(levels) = 0 /\ gapLayer = 0 /\ probed = None
  BY DEF Init
<1>2. LanesApart /\ ProbeStands
  BY <1>1 DEF LanesApart, ProbeStands
<1>3. GapsOrdered
  <2>1. \A i \in 0..Len(levels) : GapMarkAt(i) = 0 /\ GapMarkAt(i + 1) = 0
    BY <1>1 DEF GapMarkAt
  <2> QED
    BY <1>1, <2>1 DEF GapsOrdered
<1> QED
  BY <1>2, <1>3, InitExact, InitOrdered DEF Answering

LEMMA NextAnswering == Answering /\ [Next]_vars => Answering'
<1> SUFFICES ASSUME Answering, [Next]_vars PROVE Answering'
  OBVIOUS
<1> SUFFICES ASSUME NEW d \in Nat, d = Len(levels) PROVE Answering'
  BY SMTT(60) DEF Answering, Ordered, Nested, TypeOK
<1>1. Nested /\ TypeOK /\ LanesApart /\ ProbeStands /\ GapsOrdered
  BY DEF Answering, Ordered, Nested
<1>2. Ordered'
  BY NextOrdered DEF Answering
<1>3. Len(targets) \in Nat /\ Len(gaps) \in Nat /\ gapLayer \in 0..Len(gaps)
  BY <1>1 DEF TypeOK, Nested, MarksNest
<1>4. CASE FlattenNext
  <2>1. LayersExact' /\ LanesApart'
    BY <1>1, <1>4, FlattenExact, FlattenLanes
  <2>2. ProbeStands'
    <3>1. probed = None /\ probed' = probed
      BY <1>1, <1>4 DEF FlattenNext, ProbeStands
    <3> QED
      BY <3>1 DEF ProbeStands
  <2>3. GapsOrdered'
    <3>1. Gapped' = Gapped
      BY <1>4 DEF FlattenNext, Gapped
    <3>2. CASE Gapped
      BY <1>1, <1>4, <3>2, FlattenGaps
    <3> QED
      BY <3>1, <3>2 DEF GapsOrdered
  <2> QED
    BY <1>2, <2>1, <2>2, <2>3 DEF Answering
<1>5. CASE CommitDescent
  <2>1. LayersExact'
    BY <1>5, CommitExact
  <2>2. UNCHANGED <<rules, targets, gaps>> /\ Gapped' = Gapped /\ probed' = None
    BY <1>1, <1>5, CommitMarks
  <2>3. LanesApart' /\ ProbeStands'
    BY <1>1, <2>2 DEF LanesApart, ProbeStands
  <2>4. GapsOrdered'
    <3>1. CASE Gapped
      BY <1>1, <1>5, <3>1, CommitGaps
    <3> QED
      BY <2>2, <3>1 DEF GapsOrdered
  <2> QED
    BY <1>2, <2>1, <2>3, <2>4 DEF Answering
<1>6. CASE Exit
  <2>1. LayersExact'
    BY <1>6, ExitExact
  <2>2. d > 0
    BY <1>1, <1>6, EmptySeq DEF Exit, TypeOK
  <2>3. /\ rules' = rules /\ Gapped' = Gapped /\ probed' = None
        /\ layer.targets \in 0..Len(targets) /\ Len(targets') = layer.targets
        /\ \A n \in 1..layer.targets : targets'[n] = targets[n]
        /\ Gapped => Len(gaps') = gapLayer /\ \A n \in 1..gapLayer : gaps'[n] = gaps[n]
    BY <1>1, <1>6, <2>2, ExitMarks
  <2>4. Len(gaps') \in 0..Len(gaps) /\ \A n \in 1..Len(gaps') : gaps'[n] = gaps[n]
    <3>1. CASE Gapped
      BY <1>3, <2>3, <3>1
    <3>2. CASE ~Gapped
      BY <1>3, <1>6, <3>2 DEF Exit, ExitGaps
    <3> QED
      BY <3>1, <3>2
  <2>5. LanesApart'
    BY <1>1, <1>3, <2>3, <2>4, LanesKept
  <2>6. ProbeStands'
    BY <2>3 DEF ProbeStands
  <2>7. GapsOrdered'
    <3>1. CASE Gapped
      BY <1>1, <1>6, <2>2, <3>1, ExitGapsOrdered
    <3> QED
      BY <2>3, <3>1 DEF GapsOrdered
  <2> QED
    BY <1>2, <2>1, <2>5, <2>6, <2>7 DEF Answering
<1>7. ASSUME UNCHANGED <<rules, tables, marks, todo, trail>>, ProbeStands' PROVE Answering'
  <2>1. LayersExact'
    BY <1>7, StandsExact DEF Answering
  <2>2. UNCHANGED <<rules, targets, gaps, levels, gapLayer, gapLevels, todo>>
    BY <1>7 DEF tables, marks
  <2>3. LanesApart'
    BY <1>1, <2>2 DEF LanesApart
  <2>4. GapsOrdered'
    <3>1. Gapped' = Gapped /\ \A i : GapMarkAt(i)' = GapMarkAt(i)
      BY <2>2 DEF Gapped, GapMarkAt
    <3> QED
      BY <1>1, <2>2, <3>1 DEF GapsOrdered
  <2> QED
    BY <1>2, <1>7, <2>1, <2>3, <2>4 DEF Answering
<1>8. CASE \E f \in Fields : ProbeRoutes(f)
  <2>1. PICK f \in Fields : ProbeRoutes(f)
    BY <1>8
  <2>2. UNCHANGED <<rules, tables, marks, todo, trail>> /\ todo = {} /\ probed' = f
        /\ staged' = StagedBy(f)
    BY <2>1 DEF ProbeRoutes
  <2>3. StagedBy(probed)' = StagedBy(f)
    BY <2>2 DEF StagedBy, tables, marks
  <2> QED
    BY <1>7, <2>2, <2>3 DEF ProbeStands
<1>9. CASE UNCHANGED vars
  <2>1. UNCHANGED <<rules, tables, marks, todo, trail>> /\ UNCHANGED <<staged, probed>>
    BY <1>9 DEF vars
  <2>2. StagedBy(probed)' = StagedBy(probed)
    BY <2>1 DEF StagedBy, tables, marks
  <2> QED
    BY <1>1, <1>7, <2>1, <2>2 DEF ProbeStands
<1> QED
  BY <1>4, <1>5, <1>6, <1>8, <1>9 DEF Next

----------------------------------------------------------------------------
(* The folds over a layer's hits.                                          *)

\* Every hit behind a hit has a last hit before it.
LEMMA HitBefore ==
  ASSUME NEW hits \in SUBSET Nat, NEW i \in hits, NEW j \in Nat, i < j
  PROVE  \E p \in hits : p < j /\ i <= p /\ ~\E k \in hits : p < k /\ k < j
<1> DEFINE T == {j - h : h \in {h \in hits : h < j}}
<1>1. T \in SUBSET Nat /\ j - i \in T
  OBVIOUS
<1>2. Least(T) \in T /\ \A y \in T : Least(T) <= y
  <2> HIDE DEF T
  <2> QED
    BY <1>1, LeastOf
<1>3. PICK p \in hits : p < j /\ Least(T) = j - p
  BY <1>2
<1>4. \A k \in hits : k < j => j - p <= j - k
  BY <1>2, <1>3
<1> QED
  BY <1>3, <1>4

\* One register is enough where the ids never decrease.
LEMMA PassedVisits ==
  ASSUME NEW table, NEW hits \in SUBSET Nat, \A i \in hits : table[i][2] \in Nat,
         \A i, j \in hits : i < j => table[i][2] <= table[j][2]
  PROVE  Visits(table, Passed(table, hits), PathsAt(table, hits))
<1>1. ASSUME NEW i \in Passed(table, hits), NEW j \in Passed(table, hits), i < j
      PROVE  table[i][2] < table[j][2]
  <2>1. i \in hits /\ j \in hits /\ j \in Nat
    BY DEF Passed
  <2>2. PICK p \in hits : p < j /\ i <= p /\ ~\E k \in hits : p < k /\ k < j
    BY <1>1, <2>1, HitBefore
  <2>3. table[p][2] # table[j][2]
    BY <2>2 DEF Passed
  <2>4. /\ table[i][2] <= table[p][2] /\ table[p][2] <= table[j][2]
        /\ table[i][2] \in Nat /\ table[p][2] \in Nat /\ table[j][2] \in Nat
    <3>1. i = p \/ i < p
      BY <2>1, <2>2
    <3> QED
      BY <2>1, <2>2, <3>1
  <2> QED
    BY <2>3, <2>4
<1>2. ASSUME NEW i \in hits PROVE table[i][2] \in PathsAt(table, Passed(table, hits))
  <2> DEFINE T == {k \in hits : table[k][2] = table[i][2]}
             first == Least(T)
  <2>1. T \in SUBSET Nat /\ T # {}
    BY <1>2
  <2>2. first \in T /\ \A y \in T : first <= y
    <3> HIDE DEF T
    <3> QED
      BY <2>1, LeastOf
  <2> HIDE DEF first
  <2>3. first \in hits /\ table[first][2] = table[i][2] /\ first \in Nat
    BY <2>2
  <2>4. \A k \in hits : k < first => table[k][2] # table[first][2]
    BY <2>2, <2>3
  <2>5. first \in Passed(table, hits)
    BY <2>3, <2>4 DEF Passed
  <2> QED
    BY <2>3, <2>5 DEF PathsAt
<1>3. PathsAt(table, Passed(table, hits)) = PathsAt(table, hits)
  BY <1>2 DEF PathsAt, Passed
<1> QED
  BY <1>1, <1>3 DEF Visits

\* The first hit is of the lowest path.
LEMMA LeastHit ==
  ASSUME NEW table, NEW hits \in SUBSET Nat, hits # {}, \A i \in hits : table[i][2] \in Nat,
         \A i, j \in hits : i < j => table[i][2] <= table[j][2]
  PROVE  Least(hits) \in hits /\ table[Least(hits)][2] = Least(PathsAt(table, hits))
<1> DEFINE first == Least(hits)
           ids == PathsAt(table, hits)
<1>1. first \in hits /\ \A y \in hits : first <= y
  BY LeastOf
<1> HIDE DEF first
<1>2. ids \in SUBSET Nat /\ table[first][2] \in ids
  BY <1>1 DEF PathsAt
<1>3. \A id \in ids : table[first][2] <= id
  <2>1. ASSUME NEW i \in hits PROVE table[first][2] <= table[i][2]
    <3>1. first \in Nat /\ i \in Nat /\ first <= i
      BY <1>1
    <3>2. first = i \/ first < i
      BY ONLY <3>1
    <3>3. CASE first = i
      BY <2>1, <3>3
    <3>4. CASE first < i
      BY <1>1, <2>1, <3>4
    <3> QED
      BY <3>2, <3>3, <3>4
  <2> QED
    BY <2>1 DEF PathsAt
<1> HIDE DEF ids
<1>4. Least(ids) = table[first][2]
  BY <1>2, <1>3, LeastIs
<1> QED
  BY <1>1, <1>4 DEF first, ids

----------------------------------------------------------------------------
(* The answers at a record.                                                *)

LEMMA TrailHere ==
  ASSUME TypeOK, NEW f \in Fields
  PROVE  /\ Append(trail, f) \in Seq(Fields) /\ Len(trail) \in Nat /\ Len(trail) = Len(levels)
         /\ Len(Append(trail, f)) = Len(trail) + 1
         /\ Append(trail, f)[Len(trail) + 1] = f
         /\ \A k \in 1..Len(trail) : Append(trail, f)[k] = trail[k]
<1>1. trail \in Seq(Fields) /\ Len(trail) = Len(levels) /\ Len(trail) \in Nat
  BY DEF TypeOK
<1> QED
  BY <1>1, AppendProperties

\* A path selects a record of the container being walked exactly when the top
\* layer ends it there.
LEMMA TopAnswers ==
  ASSUME Answering, Ready, NEW f \in Fields, NEW id \in 1..Len(rules), rules[id].steps # <<>>
  PROVE  Selects(rules[id].steps, Append(trail, f)) <=> Lands(Len(levels), id, f)
<1> DEFINE here == Append(trail, f)
           d == Len(levels)
<1>1. TypeOK /\ Exact(d) /\ todo = {} /\ d \in Nat
  <2>1. TypeOK /\ d \in Nat
    BY DEF Answering, Ordered, Nested, TypeOK
  <2> QED
    BY <2>1 DEF Answering, LayersExact, Ready
<1>2. /\ here \in Seq(Fields) /\ Len(here) = d + 1 /\ here[d + 1] = f
      /\ \A k \in 1..d : here[k] = trail[k]
  BY <1>1, TrailHere
<1> HIDE DEF here, d
<1>3. Through(d, here) /\ ~(Len(here) > d + 1)
  BY <1>1, <1>2 DEF Through
<1>4. Selects(rules[id].steps, here) <=> Leads(d, id, here)
  BY <1>1, <1>2, <1>3 DEF Exact
<1>5. Leads(d, id, here) <=> Lands(d, id, f)
  BY <1>1, <1>2, <1>3 DEF Leads
<1> QED
  BY <1>4, <1>5 DEF here, d

LEMMA TargetHits ==
  ASSUME Answering, Ready, NEW f \in Fields
  PROVE  LET hits == Hits(targets, layer.targets, f)
         IN /\ hits \in SUBSET Nat
            /\ \A i \in hits : targets[i][2] \in Nat
            /\ \A i, j \in hits : i < j => targets[i][2] <= targets[j][2]
            /\ PathsAt(targets, hits) = Selected(rules, Append(trail, f), {"Target"})
<1> DEFINE hits == Hits(targets, layer.targets, f)
           ids == Selected(rules, Append(trail, f), {"Target"})
<1>1. /\ TypeOK /\ MarksNest /\ LayerOrder /\ LanesApart
      /\ targets \in Seq(Fields \X (1..Len(rules))) /\ Len(targets) \in Nat /\ layer.targets \in Nat
      /\ Len(rules) \in Nat
  BY MarkIs, RuleShape DEF Answering, Ordered, Nested, TypeOK, Admitted
<1>2. \A i : i \in hits <=> i \in layer.targets + 1..Len(targets) /\ targets[i][1] = f
  BY DEF Hits
<1>3. \A i \in layer.targets + 1..Len(targets) : i \in 1..Len(targets) /\ layer.targets < i
  BY <1>1
<1>4. \A i \in hits : /\ i \in Nat /\ targets[i] = <<f, targets[i][2]>>
                      /\ targets[i][2] \in 1..Len(rules)
  <2> SUFFICES ASSUME NEW i \in hits
               PROVE  /\ i \in Nat /\ targets[i] = <<f, targets[i][2]>>
                      /\ targets[i][2] \in 1..Len(rules)
    OBVIOUS
  <2>1. i \in 1..Len(targets) /\ targets[i][1] = f
    BY <1>2, <1>3
  <2>2. targets[i] \in Fields \X (1..Len(rules))
    BY <1>1, <2>1, ElementOfSeq
  <2> QED
    BY <2>1, <2>2
<1>5. ASSUME NEW i \in hits, NEW j \in hits, i < j PROVE targets[i][2] <= targets[j][2]
  <2>1. /\ i \in 1..Len(targets) /\ j \in 1..Len(targets) /\ layer.targets < i /\ i \in Nat
    BY <1>2, <1>3
  <2>2. ~(i <= layer.targets)
    BY <1>1, <2>1
  <2>3. \A l \in 1..Len(levels) : ~(i <= levels[l].targets)
    <3> SUFFICES ASSUME NEW l \in 1..Len(levels) PROVE ~(i <= levels[l].targets)
      OBVIOUS
    <3>1. levels[l].targets <= layer.targets
      BY <1>1 DEF MarksNest, Below
    <3>2. levels[l].targets \in Nat
      <4>1. levels[l] \in Marks
        BY <1>1, ElementOfSeq DEF TypeOK
      <4> QED
        BY <4>1, MarkIs
    <3> QED
      BY SMTT(60), <1>1, <2>1, <3>1, <3>2
  <2> QED
    BY <1>1, <1>5, <2>1, <2>2, <2>3 DEF LayerOrder
<1>6. ASSUME NEW id PROVE id \in PathsAt(targets, hits) <=> id \in ids
  <2> DEFINE d == Len(levels)
  <2>1. TargetsAt(d) = Part(targets, layer.targets, Len(targets))
    <3>1. d \in Nat
      BY <1>1 DEF TypeOK
    <3> QED
      BY <3>1 DEF TargetsAt, MarkAt, Ends
  <2>2. id \in PathsAt(targets, hits) => <<f, id>> \in TargetsAt(d)
    BY <1>2, <1>4, <2>1 DEF PathsAt, Part
  <2>3. ASSUME <<f, id>> \in TargetsAt(d) PROVE id \in PathsAt(targets, hits)
    <3>1. PICK n \in layer.targets + 1..Len(targets) : <<f, id>> = targets[n]
      BY <2>1, <2>3 DEF Part
    <3>2. n \in hits /\ targets[n][2] = id
      BY <1>2, <3>1
    <3> QED
      BY <3>2 DEF PathsAt
  <2>4. id \in PathsAt(targets, hits) =>
          id \in 1..Len(rules) /\ rules[id].lane = "Target" /\ rules[id].steps # <<>>
    <3> SUFFICES ASSUME NEW i \in hits
                 PROVE  /\ targets[i][2] \in 1..Len(rules)
                        /\ rules[targets[i][2]].lane = "Target" /\ rules[targets[i][2]].steps # <<>>
      BY DEF PathsAt
    <3>1. i \in 1..Len(targets)
      BY <1>2, <1>3
    <3> QED
      BY <1>1, <1>4, <3>1 DEF LanesApart
  <2>5. id \in ids <=> /\ id \in 1..Len(rules) /\ rules[id].lane = "Target" /\ rules[id].steps # <<>>
                       /\ Selects(rules[id].steps, Append(trail, f))
    BY DEF Selected
  <2>6. ASSUME id \in 1..Len(rules), rules[id].lane = "Target", rules[id].steps # <<>>
        PROVE  Selects(rules[id].steps, Append(trail, f)) <=> <<f, id>> \in TargetsAt(d)
    BY <2>6, TopAnswers DEF Lands
  <2> HIDE DEF hits, ids, d
  <2> QED
    BY <2>2, <2>3, <2>4, <2>5, <2>6
<1> HIDE DEF ids
<1>7. PathsAt(targets, hits) = ids /\ hits \in SUBSET Nat /\ \A i \in hits : targets[i][2] \in Nat
  <2>1. PathsAt(targets, hits) = ids
    <3> HIDE DEF hits
    <3> QED
      BY <1>6
  <2>2. \A i \in hits : i \in Nat /\ targets[i][2] \in Nat
    BY <1>4
  <2> QED
    BY <2>1, <2>2
<1> QED
  BY <1>5, <1>7 DEF ids

LEMMA DeliveriesExact == Answering => DeliveriesAreExact
<1> SUFFICES ASSUME Answering, Ready, NEW f \in Fields
             PROVE  Visits(targets, VisitTargets(f), Selected(rules, Append(trail, f), {"Target"}))
  BY DEF DeliveriesAreExact
<1> DEFINE hits == Hits(targets, layer.targets, f)
<1>1. /\ hits \in SUBSET Nat /\ \A i \in hits : targets[i][2] \in Nat
      /\ \A i, j \in hits : i < j => targets[i][2] <= targets[j][2]
      /\ PathsAt(targets, hits) = Selected(rules, Append(trail, f), {"Target"})
  BY TargetHits
<1> HIDE DEF hits
<1>2. Visits(targets, Passed(targets, hits), PathsAt(targets, hits))
  BY <1>1, PassedVisits
<1> QED
  BY <1>1, <1>2 DEF VisitTargets, hits

LEMMA WriteFoldExact == Answering => WriteFoldIsExact
<1> SUFFICES ASSUME Answering, Ready, NEW f \in Fields
             PROVE  LET ids == Selected(rules, Append(trail, f), {"Target"})
                        more == ids \ {Least(ids)}
                    IN /\ FirstTarget(f) = IF ids = {} THEN None ELSE Least(ids)
                       /\ ProbeTarget(f) = IF ids = {} THEN <<"None">>
                                           ELSE IF more = {} THEN <<"One", Least(ids)>>
                                           ELSE <<"Conflict", Least(ids), Least(more)>>
  BY DEF WriteFoldIsExact
<1> DEFINE hits == Hits(targets, layer.targets, f)
           ids == Selected(rules, Append(trail, f), {"Target"})
           more == ids \ {Least(ids)}
           first == Least(hits)
           others == {i \in hits : targets[i][2] # targets[first][2]}
<1>1. /\ hits \in SUBSET Nat /\ \A i \in hits : targets[i][2] \in Nat
      /\ \A i, j \in hits : i < j => targets[i][2] <= targets[j][2]
      /\ PathsAt(targets, hits) = ids
  BY TargetHits
<1>2. FirstTarget(f) = IF hits = {} THEN None ELSE targets[first][2]
  BY DEF FirstTarget
<1>3. ProbeTarget(f) = IF hits = {} THEN <<"None">>
                       ELSE IF others = {} THEN <<"One", targets[first][2]>>
                       ELSE <<"Conflict", targets[first][2], targets[Least(others)][2]>>
  BY DEF ProbeTarget
<1>4. hits = {} <=> ids = {}
  BY <1>1 DEF PathsAt
<1>5. ASSUME hits # {}
      PROVE  /\ targets[first][2] = Least(ids)
             /\ others = {} <=> more = {}
             /\ others # {} => targets[Least(others)][2] = Least(more)
  <2> HIDE DEF hits, ids
  <2>1. targets[first][2] = Least(ids)
    BY <1>1, <1>5, LeastHit
  <2> HIDE DEF first
  <2>2. PathsAt(targets, others) = more
    BY <1>1, <2>1 DEF PathsAt
  <2>3. /\ others \in SUBSET Nat /\ \A i \in others : targets[i][2] \in Nat
        /\ \A i, j \in others : i < j => targets[i][2] <= targets[j][2]
    BY <1>1
  <2>4. others = {} <=> more = {}
    <3> HIDE DEF others, more
    <3> QED
      BY <2>2 DEF PathsAt
  <2>5. others # {} => targets[Least(others)][2] = Least(more)
    <3> HIDE DEF others, more
    <3> QED
      BY <2>2, <2>3, LeastHit
  <2> QED
    BY <2>1, <2>4, <2>5
<1> HIDE DEF hits, ids, first, others, more
<1>6. /\ FirstTarget(f) = IF ids = {} THEN None ELSE Least(ids)
      /\ ProbeTarget(f) = IF ids = {} THEN <<"None">>
                          ELSE IF more = {} THEN <<"One", Least(ids)>>
                          ELSE <<"Conflict", Least(ids), Least(more)>>
  BY <1>2, <1>3, <1>4, <1>5
<1> QED
  BY <1>6 DEF ids, more

LEMMA GapsAre ==
  ASSUME Answering, Ready, NEW f \in Fields
  PROVE  /\ GapHits(f) \in SUBSET Nat
         /\ \A i \in GapHits(f) : gaps[i][2] \in Nat
         /\ \A i, j \in GapHits(f) : i < j => gaps[i][2] <= gaps[j][2]
         /\ \A id, lane :
              (\E i \in GapHits(f) : gaps[i][2] = id /\ gaps[i][3] = lane) <=>
                id \in Selected(rules, Append(trail, f), {"Head", "Tail"}) /\ rules[id].lane = lane
<1> DEFINE hits == GapHits(f)
           ids == Selected(rules, Append(trail, f), {"Head", "Tail"})
           d == Len(levels)
<1>1. /\ TypeOK /\ MarksNest /\ GapsOrdered /\ LanesApart /\ d \in Nat
      /\ gaps \in Seq(Fields \X (1..Len(rules)) \X {"Head", "Tail"}) /\ Len(gaps) \in Nat
      /\ gapLayer \in Nat
  BY DEF Answering, Ordered, Nested, TypeOK
<1>2. \A i : i \in hits <=> i \in gapLayer + 1..Len(gaps) /\ gaps[i][1] = f
  BY DEF GapHits, Hits
<1>3. \A i \in gapLayer + 1..Len(gaps) : i \in 1..Len(gaps) /\ i \in Nat
  BY <1>1
<1> HIDE DEF hits
<1>4. ASSUME NEW i \in hits
      PROVE  /\ i \in Nat /\ gaps[i] = <<f, gaps[i][2], gaps[i][3]>>
             /\ gaps[i][2] \in 1..Len(rules) /\ gaps[i][2] \in Nat
             /\ gaps[i][3] \in {"Head", "Tail"} /\ rules[gaps[i][2]].lane = gaps[i][3]
             /\ rules[gaps[i][2]].steps # <<>> /\ Gapped
  <2>1. i \in 1..Len(gaps) /\ gaps[i][1] = f /\ i \in Nat
    BY <1>2, <1>3
  <2>2. gaps[i] \in Fields \X (1..Len(rules)) \X {"Head", "Tail"}
    BY <1>1, <2>1, ElementOfSeq
  <2>3. /\ gaps[i] = <<f, gaps[i][2], gaps[i][3]>>
        /\ gaps[i][2] \in 1..Len(rules) /\ gaps[i][3] \in {"Head", "Tail"}
    BY <2>1, <2>2
  <2>4. rules[gaps[i][2]].lane = gaps[i][3] /\ rules[gaps[i][2]].steps # <<>>
    BY <1>1, <2>1 DEF LanesApart
  <2>5. gaps[i][2] \in Nat
    BY <2>3
  <2>6. Gapped
    BY <2>3, <2>4 DEF Gapped
  <2> QED
    BY <2>1, <2>3, <2>4, <2>5, <2>6
<1>5. /\ MarkAt(d) = MarkAt(d) /\ GapMarkAt(d) = gapLayer /\ GapMarkAt(d + 1) = Len(gaps)
  BY <1>1 DEF GapMarkAt
<1>6. GapsAt(d) = Part(gaps, gapLayer, Len(gaps))
  BY <1>5 DEF GapsAt
<1>7. ASSUME NEW i \in hits, NEW j \in hits, i < j PROVE gaps[i][2] <= gaps[j][2]
  <2>1. Gapped /\ d \in 0..Len(levels)
    BY <1>1, <1>4
  <2>2. \A n, m \in GapMarkAt(d) + 1..GapMarkAt(d + 1) : n < m => gaps[n][2] <= gaps[m][2]
    BY <1>1, <2>1 DEF GapsOrdered
  <2> HIDE DEF d
  <2> QED
    BY <1>2, <1>5, <1>7, <2>2
<1>8. ASSUME NEW id, NEW lane
      PROVE  (\E i \in hits : gaps[i][2] = id /\ gaps[i][3] = lane) <=>
               id \in ids /\ rules[id].lane = lane
  <2>1. ASSUME NEW i \in hits, gaps[i][2] = id, gaps[i][3] = lane
        PROVE  <<f, id, lane>> \in GapsAt(d)
    BY <1>2, <1>4, <1>6, <2>1 DEF Part
  <2>2. ASSUME <<f, id, lane>> \in GapsAt(d)
        PROVE  \E i \in hits : gaps[i][2] = id /\ gaps[i][3] = lane
    <3>1. PICK n \in gapLayer + 1..Len(gaps) : <<f, id, lane>> = gaps[n]
      BY <1>6, <2>2 DEF Part
    <3>2. n \in hits /\ gaps[n][2] = id /\ gaps[n][3] = lane
      BY <1>2, <3>1
    <3> QED
      BY <3>2
  <2>3. ASSUME NEW i \in hits, gaps[i][2] = id, gaps[i][3] = lane
        PROVE  id \in 1..Len(rules) /\ rules[id].lane = lane /\ lane \in {"Head", "Tail"}
               /\ rules[id].steps # <<>>
    BY <1>4, <2>3
  <2>4. id \in ids <=> /\ id \in 1..Len(rules) /\ rules[id].lane \in {"Head", "Tail"}
                       /\ rules[id].steps # <<>> /\ Selects(rules[id].steps, Append(trail, f))
    BY DEF Selected
  <2>5. ASSUME id \in 1..Len(rules), rules[id].lane = lane, lane \in {"Head", "Tail"},
               rules[id].steps # <<>>
        PROVE  Selects(rules[id].steps, Append(trail, f)) <=> <<f, id, lane>> \in GapsAt(d)
    <3>1. rules[id].lane # "Target"
      BY <2>5
    <3>2. Selects(rules[id].steps, Append(trail, f)) <=> Lands(d, id, f)
      BY <2>5, TopAnswers
    <3>3. Lands(d, id, f) <=> <<f, id, lane>> \in GapsAt(d)
      BY <2>5, <3>1 DEF Lands
    <3> QED
      BY <3>2, <3>3
  <2> HIDE DEF ids, d
  <2> QED
    BY <2>1, <2>2, <2>3, <2>4, <2>5
<1> QED
  BY <1>4, <1>7, <1>8 DEF hits

LEMMA GapsExact == Answering => GapsAreExact
<1> SUFFICES ASSUME Answering, Ready, NEW f \in Fields
             PROVE  LET here == Append(trail, f)
                        either == Selected(rules, here, {"Head", "Tail"})
                    IN /\ \A lane \in {"Head", "Tail"} :
                            Visits(gaps, VisitGaps(f, lane), Selected(rules, here, {lane}))
                       /\ ProbeGaps(f) = {rules[id].lane : id \in either}
                       /\ FirstInteriorGap(f) = IF either = {} THEN None ELSE Least(either)
  BY DEF GapsAreExact
<1> DEFINE here == Append(trail, f)
           either == Selected(rules, here, {"Head", "Tail"})
           hits == GapHits(f)
<1>1. /\ hits \in SUBSET Nat
      /\ \A i \in hits : gaps[i][2] \in Nat
      /\ \A i, j \in hits : i < j => gaps[i][2] <= gaps[j][2]
      /\ \A id, lane :
           (\E i \in hits : gaps[i][2] = id /\ gaps[i][3] = lane) <=>
             id \in either /\ rules[id].lane = lane
  BY GapsAre
<1>2. \A id \in either : rules[id].lane \in {"Head", "Tail"}
  BY DEF Selected
<1>3. \A lane \in {"Head", "Tail"} : \A id :
        id \in Selected(rules, here, {lane}) <=> id \in either /\ rules[id].lane = lane
  BY DEF Selected
<1>4. /\ \A lane : VisitGaps(f, lane) = Passed(gaps, {i \in hits : gaps[i][3] = lane})
      /\ ProbeGaps(f) = {gaps[i][3] : i \in hits}
      /\ FirstInteriorGap(f) = IF hits = {} THEN None ELSE gaps[Least(hits)][2]
  BY DEF VisitGaps, ProbeGaps, FirstInteriorGap
<1> HIDE DEF hits, either, here
<1>5. ASSUME NEW lane \in {"Head", "Tail"}
      PROVE  Visits(gaps, VisitGaps(f, lane), Selected(rules, here, {lane}))
  <2> DEFINE side == {i \in hits : gaps[i][3] = lane}
  <2>1. /\ side \in SUBSET Nat /\ \A i \in side : gaps[i][2] \in Nat
        /\ \A i, j \in side : i < j => gaps[i][2] <= gaps[j][2]
    BY <1>1
  <2>2. \A id : id \in PathsAt(gaps, side) <=> id \in Selected(rules, here, {lane})
    <3>1. \A id : id \in PathsAt(gaps, side) <=> \E i \in hits : gaps[i][2] = id /\ gaps[i][3] = lane
      BY DEF PathsAt
    <3>2. \A id : (\E i \in hits : gaps[i][2] = id /\ gaps[i][3] = lane) <=>
                    id \in either /\ rules[id].lane = lane
      BY <1>1
    <3>3. \A id : id \in Selected(rules, here, {lane}) <=> id \in either /\ rules[id].lane = lane
      BY <1>3
    <3> HIDE DEF side
    <3> QED
      BY <3>1, <3>2, <3>3
  <2> DEFINE chosen == Selected(rules, here, {lane})
             named == PathsAt(gaps, side)
  <2>3. named = chosen
    <3>1. \A id : id \in named <=> id \in chosen
      BY <2>2
    <3> HIDE DEF named, chosen
    <3> QED
      BY <3>1
  <2>4. Visits(gaps, Passed(gaps, side), PathsAt(gaps, side))
    <3> HIDE DEF side
    <3> QED
      BY ONLY <2>1, PassedVisits, ZenonT(60)
  <2>5. VisitGaps(f, lane) = Passed(gaps, side)
    BY <1>4
  <2> HIDE DEF side, named, chosen
  <2>6. Visits(gaps, Passed(gaps, side), named)
    BY <2>4 DEF named
  <2>7. Visits(gaps, VisitGaps(f, lane), chosen)
    BY <2>3, <2>5, <2>6
  <2> QED
    BY <2>7 DEF chosen
<1>6. \A id : id \in PathsAt(gaps, hits) <=> id \in either
  <2>1. ASSUME NEW i \in hits PROVE gaps[i][2] \in either
    <3>1. gaps[i][2] \in either /\ rules[gaps[i][2]].lane = gaps[i][3]
      BY <1>1
    <3> QED
      BY <3>1
  <2>2. ASSUME NEW id \in either PROVE \E i \in hits : gaps[i][2] = id
    BY <1>1
  <2> QED
    BY <2>1, <2>2 DEF PathsAt
<1>7. ProbeGaps(f) = {rules[id].lane : id \in either}
  <2>1. ASSUME NEW i \in hits PROVE gaps[i][3] \in {rules[id].lane : id \in either}
    <3>1. gaps[i][2] \in either /\ rules[gaps[i][2]].lane = gaps[i][3]
      BY <1>1
    <3> QED
      BY <3>1
  <2>2. ASSUME NEW id \in either PROVE rules[id].lane \in {gaps[i][3] : i \in hits}
    <3>1. \E i \in hits : gaps[i][2] = id /\ gaps[i][3] = rules[id].lane
      BY <1>1
    <3> QED
      BY <3>1
  <2> QED
    BY <1>4, <2>1, <2>2
<1>8. FirstInteriorGap(f) = IF either = {} THEN None ELSE Least(either)
  <2>1. PathsAt(gaps, hits) = either
    BY <1>6 DEF PathsAt, either, Selected
  <2>2. hits = {} <=> either = {}
    BY <2>1 DEF PathsAt
  <2>3. hits # {} => gaps[Least(hits)][2] = Least(either)
    BY <1>1, <2>1, LeastHit
  <2> QED
    BY <1>4, <2>2, <2>3
<1> QED
  BY <1>5, <1>7, <1>8 DEF here, either

\* What a probe stages can still be matched behind it, and what can be matched
\* behind it is staged.
LEMMA PruningExact == Answering => PruningIsExact
<1> SUFFICES ASSUME Answering, Ready, probed # None
             PROVE  staged # {} <=> MatchesBelow(rules, Append(trail, probed), Fields)
  BY DEF PruningIsExact
<1> DEFINE here == Append(trail, probed)
           d == Len(levels)
<1>1. /\ Nested /\ TypeOK /\ d \in Nat /\ Exact(d) /\ todo = {} /\ probed \in Fields
      /\ staged = StagedBy(probed)
  <2>1. Nested /\ TypeOK /\ d \in Nat
    BY DEF Answering, Ordered, Nested, TypeOK
  <2> QED
    BY <2>1 DEF Answering, LayersExact, Ready, ProbeStands, TypeOK
<1>2. /\ here \in Seq(Fields) /\ Len(here) = d + 1 /\ here[d + 1] = probed
      /\ \A k \in 1..d : here[k] = trail[k]
  BY <1>1, TrailHere
<1>3. ASSUME NEW n \in Nat, n > 0, NEW inner \in [1..n -> Fields]
      PROVE  /\ here \o inner \in Seq(Fields) /\ Len(here \o inner) = (d + 1) + n
             /\ Through(d, here \o inner) /\ (here \o inner)[d + 1] = probed
             /\ \A k \in 1..n : (here \o inner)[(d + 1) + k] = inner[k]
  <2>1. inner \in Seq(Fields) /\ Len(inner) = n
    BY <1>3
  <2> HIDE DEF here, d
  <2>2. /\ here \o inner \in Seq(Fields) /\ Len(here \o inner) = (d + 1) + n
        /\ \A i \in 1..(d + 1) + n :
             (here \o inner)[i] = IF i <= d + 1 THEN here[i] ELSE inner[i - (d + 1)]
    <3> DEFINE all == here \o inner
    <3>1. /\ here \in Seq(Fields) /\ inner \in Seq(Fields) /\ Len(here) = d + 1 /\ Len(inner) = n
      BY <1>2, <2>1
    <3>2. /\ all \in Seq(Fields) /\ Len(all) = Len(here) + Len(inner)
          /\ \A i \in 1..Len(here) + Len(inner) :
               all[i] = IF i <= Len(here) THEN here[i] ELSE inner[i - Len(here)]
      BY ONLY <3>1, ConcatProperties, Zenon
    <3> HIDE DEF all
    <3>3. /\ all \in Seq(Fields) /\ Len(all) = (d + 1) + n
          /\ \A i \in 1..(d + 1) + n : all[i] = IF i <= d + 1 THEN here[i] ELSE inner[i - (d + 1)]
      BY <3>1, <3>2
    <3> QED
      BY <3>3 DEF all
  <2>3. /\ \A k \in 1..d : k \in 1..(d + 1) + n /\ k <= d + 1
        /\ d + 1 \in 1..(d + 1) + n /\ d + 1 <= d + 1
        /\ \A k \in 1..n : (d + 1) + k \in 1..(d + 1) + n /\ ~((d + 1) + k <= d + 1)
                           /\ ((d + 1) + k) - (d + 1) = k
        /\ (d + 1) + n > d
    BY <1>1, <1>3
  <2> QED
    BY SMTT(60), <1>2, <2>2, <2>3 DEF Through
<1> HIDE DEF here
<1>4. ASSUME NEW id \in 1..Len(rules), NEW n \in 1..Len(rules[id].steps), NEW inner \in [1..n -> Fields],
             Selects(rules[id].steps, here \o inner)
      PROVE  staged # {}
  <2> DEFINE fields == here \o inner
  <2>1. Len(rules[id].steps) \in Nat /\ rules[id].steps # <<>> /\ n \in Nat /\ n > 0
    BY <1>1, <1>4, RuleShape DEF TypeOK
  <2>2. /\ fields \in Seq(Fields) /\ Len(fields) = (d + 1) + n /\ Through(d, fields)
        /\ fields[d + 1] = probed
    BY <1>3, <2>1
  <2> HIDE DEF fields, d
  <2>3. Leads(d, id, fields)
    BY <1>1, <1>4, <2>1, <2>2 DEF Exact, fields
  <2>4. \E seg : Continues(d, probed, <<id, seg>>)
    <3>1. Len(fields) # d + 1
      BY <1>1, <2>1, <2>2
    <3> QED
      BY <1>1, <2>2, <2>3, <3>1 DEF Leads
  <2> QED
    BY <1>1, <2>4, StagedAre DEF d
<1>5. ASSUME NEW state \in staged PROVE MatchesBelow(rules, here, Fields)
  <2>1. state \in States
    BY <1>1, StagedTypes
  <2> DEFINE id == state[1]
             seg == state[2]
             steps == rules[id].steps
             n == Len(steps) + 1 - seg
             inner == Shortest(steps, seg)
             fields == here \o inner
  <2>2. id \in 1..Len(rules) /\ seg \in 1..Len(steps) /\ state = <<id, seg>>
    BY <2>1, StateIs
  <2>3. Continues(d, probed, <<id, seg>>)
    BY <1>1, <1>5, <2>2, StagedAre
  <2> HIDE DEF id, seg
  <2>4. steps # <<>> /\ Len(steps) \in Nat /\ steps \in Seq(Segs)
    <3>1. Len(steps) \in Nat /\ steps \in Seq(Segs)
      BY SMTT(60), <1>1, <2>2, RuleShape DEF TypeOK
    <3> QED
      BY <2>2, <3>1
  <2>5. \A i \in 1..Len(steps) : IsWild(steps[i]) => Member(steps[i].descend, steps[i].descend[1])
    BY <1>1, <2>2, <2>4, PathShape
  <2>6. n \in 1..Len(steps) /\ n \in Nat /\ n > 0
    BY <2>2, <2>4
  <2>7. inner \in [1..n -> Fields]
    <3> SUFFICES ASSUME NEW k \in 1..n
                 PROVE  (LET segment == steps[seg + k - 1]
                         IN IF IsWild(segment) THEN segment.descend[1] ELSE segment.field) \in Fields
      BY DEF Shortest
    <3> DEFINE i == seg + k - 1
    <3>1. i \in 1..Len(steps)
      BY SMTT(60), <2>2, <2>4
    <3> HIDE DEF i
    <3>2. steps[i] \in Segs
      BY <2>4, <3>1, ElementOfSeq
    <3>3. CASE IsWild(steps[i])
      <4>1. steps[i].descend \in Seq(Fields)
        BY <3>2, <3>3, SegmentShape
      <4>2. Member(steps[i].descend, steps[i].descend[1])
        BY <2>5, <3>1, <3>3
      <4>3. PICK x \in 1..Len(steps[i].descend) : steps[i].descend[x] = steps[i].descend[1]
        BY <4>2 DEF Member
      <4>4. steps[i].descend[x] \in Fields
        BY <4>1, ElementOfSeq
      <4> QED
        BY <3>3, <4>3, <4>4 DEF i
    <3>4. CASE ~IsWild(steps[i])
      <4>1. steps[i].field \in Fields
        BY <3>2, <3>4, SegmentShape
      <4> QED
        BY <3>4, <4>1 DEF i
    <3> QED
      BY <3>3, <3>4
  <2> HIDE DEF inner
  <2>8. /\ fields \in Seq(Fields) /\ Len(fields) = (d + 1) + n /\ Through(d, fields)
        /\ fields[d + 1] = probed
        /\ \A k \in 1..n : fields[(d + 1) + k] = inner[k]
    BY <1>3, <2>6, <2>7
  <2> HIDE DEF fields
  <2>9. (d + 1) + 1 \in Spellings(steps, fields)[seg]
    <3> DEFINE m == d + 1
    <3>1. /\ m \in Nat /\ Len(fields) = m + (Len(steps) + 1 - seg)
          /\ \A k \in 1..Len(steps) + 1 - seg : fields[m + k] = Shortest(steps, seg)[k]
      BY <1>1, <2>8 DEF inner
    <3> HIDE DEF m, steps
    <3>2. m + 1 \in Spellings(steps, fields)[seg]
      BY <2>2, <2>4, <2>5, <3>1, SpellShortest
    <3> QED
      BY <3>2 DEF m
  <2>10. Leads(d, id, fields)
    <3>1. (d + 1) + 1 = d + 2 /\ Len(fields) > d + 1
      BY <1>1, <2>6, <2>8
    <3>2. Len(fields) > d + 1 /\ \E s \in 1..Len(rules[id].steps) :
            /\ Continues(d, fields[d + 1], <<id, s>>)
            /\ d + 2 \in Spellings(rules[id].steps, fields)[s]
      BY <2>2, <2>3, <2>8, <2>9, <3>1
    <3> QED
      BY <3>2 DEF Leads
  <2>11. Selects(steps, fields)
    BY <1>1, <2>2, <2>4, <2>8, <2>10 DEF Exact
  <2> QED
    BY <2>2, <2>6, <2>7, <2>11 DEF MatchesBelow, fields
<1>6. MatchesBelow(rules, here, Fields) => staged # {}
  BY <1>4 DEF MatchesBelow
<1> QED
  BY <1>5, <1>6 DEF here

(* Every record is delivered to the rules that select it, each once and in     *)
(* authoring order, and to no other, for every program admitted and every walk *)
(* (path.rs:1312-1338).                                                        *)
THEOREM DeliveriesStayExact == Spec => []DeliveriesAreExact
<1>1. Init => Answering
  BY InitAnswering
<1>2. Answering /\ [Next]_vars => Answering'
  BY NextAnswering
<1>3. Answering => DeliveriesAreExact
  BY DeliveriesExact
<1> QED
  BY <1>1, <1>2, <1>3, PTL DEF Spec

(* The write fold conflicts exactly where two rules select one record, and     *)
(* quotes the two lowest (path.rs:1216-1241, 1295-1310).                       *)
THEOREM WriteFoldStaysExact == Spec => []WriteFoldIsExact
<1>1. Init => Answering
  BY InitAnswering
<1>2. Answering /\ [Next]_vars => Answering'
  BY NextAnswering
<1>3. Answering => WriteFoldIsExact
  BY WriteFoldExact
<1> QED
  BY <1>1, <1>2, <1>3, PTL DEF Spec

(* Insert rules fire at the gap they anchor, on their side, and nowhere else   *)
(* (path.rs:846-882).                                                          *)
THEOREM GapsStayExact == Spec => []GapsAreExact
<1>1. Init => Answering
  BY InitAnswering
<1>2. Answering /\ [Next]_vars => Answering'
  BY NextAnswering
<1>3. Answering => GapsAreExact
  BY GapsExact
<1> QED
  BY <1>1, <1>2, <1>3, PTL DEF Spec

(* A walk descends exactly where some rule can still match (path.rs:1344-1368). *)
THEOREM PruningStaysExact == Spec => []PruningIsExact
<1>1. Init => Answering
  BY InitAnswering
<1>2. Answering /\ [Next]_vars => Answering'
  BY NextAnswering
<1>3. Answering => PruningIsExact
  BY PruningExact
<1> QED
  BY <1>1, <1>2, <1>3, PTL DEF Spec
=============================================================================
