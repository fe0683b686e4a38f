----------------------------- MODULE MCMatcher -----------------------------
(* TLC instances of the path matcher.                                       *)
EXTENDS MatcherReads

ThreeFields == {1, 2, 3}
F1 == Field(1)
F2 == Field(2)
W1 == AnyDepth(<<1>>)
W2 == AnyDepth(<<2>>)
W12 == AnyDepth(<<1, 2>>)
W23 == AnyDepth(<<2, 3>>)

\* Every path of up to three segments, the inadmissible ones too.
Segments == {F1, F2, W1, W2, W12, AnyDepth(<<2, 1>>), AnyDepth(<<>>)}
Short == UNION {[1..n -> Segments] : n \in 0..2}
Long == {<<a, b, c>> : a \in Segments, b \in {F1, F2, W1, W2}, c \in {F1, F2}}
Action(steps) == [steps |-> steps, lane |-> "Target"]
\* Wildcards that converge, overlap and chain, beside plain paths. Two sets that
\* share a field, neither within the other, reach one terminal from two states.
Partners == {<<F1>>, <<F1, F2>>, <<W1, F2>>, <<W12, F1>>, <<W1, W2, F1>>, <<W12, F1, F1>>,
             <<W12, W23, F2>>, <<W12, W23, F1, F2>>}
PathPairs == {<<Action(a)>> : a \in Short \cup Long \cup Partners}
             \cup {<<Action(a), Action(b)>> : a \in Short \cup Long, b \in Partners}

\* Insert rules on both sides of gaps, at the root, and beside actions.
Anchors == {<<>>, <<F1>>, <<F1, F2>>, <<W1, F2>>, <<W12, F1>>, <<W1, W2, F1>>}
Rule(steps, lane) == [steps |-> steps, lane |-> lane]
GapTriples ==
  {<<Rule(a, "Head"), Rule(b, lane), Rule(c, "Target")>> :
     a \in Anchors, b \in Anchors, lane \in {"Head", "Tail", "Target"},
     c \in {<<>>, <<F1>>, <<W12, F2>>}}
  \cup {<<Rule(<<W12, F1>>, "Tail"), Rule(a, "Tail"), Rule(b, "Head")>> : a \in Anchors, b \in Anchors}
AllRules == PathPairs \cup GapTriples
=============================================================================
