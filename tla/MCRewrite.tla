----------------------------- MODULE MCRewrite -----------------------------
(* TLC instances of the two rewriters. Widths are small: a one-byte prefix   *)
(* spells lengths below 4 and the LEN class ends at 14.                      *)
EXTENDS RewriteTwins

TwoFields == {1, 2}
Scalar3(kind, f, tag, width, min) ==
  [kind |-> kind, field |-> f, tag |-> tag, prefix |-> 0, width |-> tag + width, min |-> min]
V(f) == Scalar3("Varint", f, 1, 1, 1)
Padded(f) == Scalar3("Varint", f, 2, 2, 1)
Fixed(f) == Scalar3("I32", f, 1, 2, 2)
L(f, prefix, items) ==
  [kind |-> "Len", field |-> f, tag |-> 1, prefix |-> prefix,
   width |-> 1 + prefix + Widths(items), body |-> items]
In(f) == [kind |-> "Enter", field |-> f, tag |-> 1, prefix |-> 0, width |-> 1]
Out(f) == [kind |-> "Exit", field |-> f, tag |-> 1, prefix |-> 0, width |-> 1]
Bad(breach) == [kind |-> "Bad", field |-> 0, tag |-> 0, prefix |-> 0, width |-> 1, breach |-> breach]

Sources == {
  \* Messages in messages, clean and changed ones side by side, padded prefixes.
  <<L(1, 2, <<L(1, 1, <<V(2)>>), L(1, 2, <<>>), V(2)>>), V(1)>>,
  <<L(1, 1, <<Fixed(1)>>), L(1, 1, <<L(2, 1, <<>>)>>), Padded(2)>>,
  <<L(2, 1, <<L(2, 1, <<>>)>>), L(1, 1, <<L(2, 1, <<>>)>>), Padded(2)>>,
  \* Groups in messages and messages in groups.
  <<In(1), L(1, 1, <<In(1), V(2), Out(1)>>), In(2), V(1), Out(2), Out(1), V(2)>>,
  <<L(1, 2, <<In(2), L(1, 1, <<>>), Out(2), In(1), Out(1)>>), In(2), Out(2)>>,
  <<In(1), In(1), L(2, 1, <<V(1)>>), Out(1), Out(1), V(1)>>,
  \* Payloads that are no messages, mismatched and unclosed groups, nothing at all.
  <<L(1, 1, <<Bad("Tag"), V(2)>>), L(2, 1, <<V(1), Bad("Varint")>>), In(2)>>,
  <<In(2), L(1, 1, <<In(1), V(2), Out(2)>>), V(1)>>,
  <<L(1, 1, <<L(1, 1, <<In(1)>>), V(2), Fixed(2)>>), Fixed(1)>>,
  <<>> }

F1 == Field(1)
F2 == Field(2)
W1 == AnyDepth(<<1>>)
W12 == AnyDepth(<<1, 2>>)
Action(steps, act, kind, size) ==
  [steps |-> steps, lane |-> "Target", act |-> act, field |-> 0, kind |-> kind, size |-> size]
Insert(steps, lane, f, kind, size) ==
  [steps |-> steps, lane |-> lane, act |-> "Insert", field |-> f, kind |-> kind, size |-> size]

ActionRules ==
  {Action(steps, act, "None", 0) :
     steps \in {<<F1>>, <<F1, F1>>, <<W12, F2>>, <<W1, F1>>}, act \in {"Delete", "Normalize"}}
  \cup {Action(<<F1, F2>>, "Replace", "Varint", 3), Action(<<W1, F2>>, "Replace", "Varint", 1),
        Action(<<F1>>, "Replace", "Len", 4), Action(<<F1, F1>>, "Replace", "Len", 12),
        Action(<<W12, F1>>, "Replace", "Len", 0)}
InsertRules ==
  {Insert(steps, lane, 2, "Varint", 1) :
     steps \in {<<>>, <<F1>>, <<F1, F1>>, <<W12, F2>>}, lane \in {"Head", "Tail"}}
  \cup {Insert(<<W12, F1>>, "Tail", 1, "Len", 3)}

\* A source that is some bytes short still is a document to a cursor.
Supplied(short) ==
  UNION {{[source |-> src, supply |-> Widths(src) - n, document |-> CursorView(src, Widths(src) - n)] :
            n \in {n \in short : n <= Widths(src)}} : src \in Sources}
JobsOver(programs, limits, short) ==
  {[rules |-> program, limit |-> limit, source |-> d.source, supply |-> d.supply,
    document |-> d.document] : program \in programs, limit \in limits, d \in Supplied(short)}

ActionJobs == JobsOver({<<a, b>> : a \in ActionRules, b \in ActionRules}, {1, 3}, {0, 1, 3, 6})
MixedJobs == JobsOver({<<a, b>> : a \in ActionRules, b \in InsertRules}, {1, 3}, {0})
InsertJobs ==
  JobsOver({<<a, b, c>> : a \in InsertRules, b \in InsertRules,
              c \in {Action(<<F1>>, "Normalize", "None", 0), Action(<<W12, F2>>, "Delete", "None", 0)}},
           {2, 3}, {0})

\* Without rules: a container that shrinks below the width of its prefix, and
\* groups whose bodies outgrow theirs and the LEN class.
WidthSources == {
  <<V(2), L(1, 1, <<L(1, 2, <<V(1), V(1)>>)>>)>>,
  <<In(1), V(2), In(2), V(1), V(1), Out(2), Out(1), In(1), Out(1)>>,
  <<In(1), In(2), In(1), V(1), V(2), V(1), V(1), Out(1), Out(2), Out(1)>>,
  <<In(2), In(1), In(1), In(2), V(1), V(1), V(2), Out(2), Out(1), Out(1), Out(2)>> }
\* Fields with wider tags, framed as groups: prefixes that grow, a crossed
\* interior past the LEN class, an output past it.
T(f, prefix, items) ==
  [kind |-> "Len", field |-> f, tag |-> f - 1, prefix |-> prefix,
   width |-> f - 1 + prefix + Widths(items), body |-> items]
WideSources == {
  <<L(1, 1, <<T(3, 1, <<>>)>>), L(1, 1, <<V(2)>>)>>,
  <<L(1, 2, <<T(4, 1, <<>>), T(4, 1, <<>>), Fixed(2)>>)>>,
  <<T(4, 1, <<V(1)>>), T(4, 2, <<L(1, 1, <<>>)>>)>> }
WideJobs ==
  {[rules |-> <<>>, limit |-> 4, source |-> src, supply |-> Widths(src),
    document |-> CursorView(src, Widths(src))] : src \in WidthSources \cup WideSources}
RulelessJobs == JobsOver({<<>>}, {1, 3}, {0, 1, 4}) \cup WideJobs
AllJobs == ActionJobs \cup MixedJobs \cup InsertJobs \cup RulelessJobs

\* The records of these sources, nested ones too.
RECURSIVE EntriesIn(_)
EntriesIn(items) ==
  UNION {{items[i]} \cup IF items[i].kind = "Len" THEN EntriesIn(items[i].body) ELSE {} :
           i \in 1..Len(items)}
AllEntries == UNION {EntriesIn(src) : src \in Sources \cup WidthSources \cup WideSources}

\* What the converter is told to frame.
TagWidths == <<1, 1, 2, 3>>

Paths(paths) == [i \in 1..Len(paths) |-> [steps |-> paths[i], lane |-> "Target"]]
SomeDesignations ==
  {Paths(<<<<F1>>>>), Paths(<<<<F1, F1>>>>), Paths(<<<<F1>>, <<F1, F1>>>>), Paths(<<<<W12, F1>>>>),
   Paths(<<<<W12, F2>>>>), Paths(<<<<F2>>, <<F1, F2>>>>), Paths(<<<<F1>>, <<F1, F1, F1>>>>),
   Paths(<<<<W1, Field(3)>>, <<W1, Field(4)>>, <<Field(4), F1, F1>>>>)}

\* An answer that fits, and one past the LEN class.
AnswerLengths == {3, 15}

\* The second walk is the first, or it is shorter or longer.
SomeDrifts == {-5, -1, 0, 2}
=============================================================================
