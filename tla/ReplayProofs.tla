---------------------------- MODULE ReplayProofs ----------------------------
(* The replay writer reports every tear: the script its walk compiles is     *)
(* well formed when the walk ends, for every rule set, every source, every   *)
(* supply and every depth limit, and the fold of a well-formed script ends   *)
(* well only against a walk of the measured length, whatever the lengths of  *)
(* the two walks and however the source lends its bytes.                     *)
EXTENDS ReplayRewrite, SequenceTheorems, WellFoundedInduction, TLAPS

----------------------------------------------------------------------------
(* Sequences, whatever they hold.                                          *)

IsSeq(q) == Len(q) \in Nat /\ q = [i \in 1..Len(q) |-> q[i]]

LEMMA SeqIs ==
  ASSUME NEW S, NEW q \in Seq(S)
  PROVE  IsSeq(q) /\ \A i \in 1..Len(q) : q[i] \in S
BY DEF IsSeq

LEMMA IsSeqOf ==
  ASSUME NEW q, IsSeq(q), NEW S, \A i \in 1..Len(q) : q[i] \in S
  PROVE  q \in Seq(S)
<1>1. Len(q) \in Nat /\ q \in [1..Len(q) -> S]
  BY DEF IsSeq
<1> DEFINE n == Len(q)
<1>2. n \in Nat /\ q \in [1..n -> S]
  BY <1>1
<1> HIDE DEF n
<1> QED
  BY <1>2

LEMMA OwnSeq ==
  ASSUME NEW q, IsSeq(q)
  PROVE  q \in Seq({q[i] : i \in 1..Len(q)})
BY IsSeqOf

LEMMA Appended ==
  ASSUME NEW q, IsSeq(q), NEW x
  PROVE  /\ IsSeq(Append(q, x)) /\ Len(Append(q, x)) = Len(q) + 1
         /\ \A i \in 1..Len(q) : Append(q, x)[i] = q[i]
         /\ Append(q, x)[Len(q) + 1] = x
<1> DEFINE S == {q[i] : i \in 1..Len(q)} \cup {x}
<1>1. q \in Seq(S) /\ x \in S
  BY IsSeqOf
<1> HIDE DEF S
<1>2. /\ Append(q, x) \in Seq(S) /\ Len(Append(q, x)) = Len(q) + 1
      /\ \A i \in 1..Len(q) : Append(q, x)[i] = q[i]
      /\ Append(q, x)[Len(q) + 1] = x
  BY <1>1, AppendProperties
<1>3. IsSeq(Append(q, x))
  BY <1>2, SeqIs
<1> QED
  BY <1>2, <1>3

LEMMA Popped ==
  ASSUME NEW q, IsSeq(q), q # <<>>
  PROVE  /\ Len(q) \in Nat \ {0} /\ Last(q) = q[Len(q)]
         /\ IsSeq(Front(q)) /\ Len(Front(q)) = Len(q) - 1
         /\ \A i \in 1..Len(q) - 1 : Front(q)[i] = q[i]
<1> DEFINE S == {q[i] : i \in 1..Len(q)}
<1>1. q \in Seq(S)
  BY OwnSeq
<1> HIDE DEF S
<1>2. Len(q) \in Nat \ {0}
  BY <1>1, EmptySeq
<1>3. Len(q) - 1 \in 0..Len(q) /\ \A i \in 1..Len(q) - 1 : i \in 1..Len(q)
  BY <1>2
<1>4. /\ SubSeq(q, 1, Len(q) - 1) \in Seq(S)
      /\ Len(SubSeq(q, 1, Len(q) - 1)) = Len(q) - 1
      /\ \A i \in 1..Len(q) - 1 : SubSeq(q, 1, Len(q) - 1)[i] = q[i]
  <2> DEFINE n == Len(q) - 1
  <2>1. n \in Int /\ 1..n \subseteq 1..Len(q) /\ n \in 0..Len(q)
    BY <1>2, <1>3
  <2>2. \A i \in 1..n : q[i] \in S
    BY <1>1, <2>1, ElementOfSeq
  <2> HIDE DEF n
  <2>3. /\ SubSeq(q, 1, n) \in Seq(S) /\ Len(SubSeq(q, 1, n)) = n
        /\ \A i \in 1..n : SubSeq(q, 1, n)[i] = q[i]
    BY <1>1, <2>1, <2>2, SubSeqProperties
  <2> QED
    BY <2>3 DEF n
<1> QED
  BY <1>2, <1>4, SeqIs DEF Front, Last

\* The last entry given way to another.
LEMMA Replaced1 ==
  ASSUME NEW q, IsSeq(q), q # <<>>, NEW x
  PROVE  /\ IsSeq(Append(Front(q), x)) /\ Len(Append(Front(q), x)) = Len(q)
         /\ \A i \in 1..Len(q) - 1 : Append(Front(q), x)[i] = q[i]
         /\ Append(Front(q), x)[Len(q)] = x
<1>1. /\ Len(q) \in Nat \ {0} /\ IsSeq(Front(q)) /\ Len(Front(q)) = Len(q) - 1
      /\ \A i \in 1..Len(q) - 1 : Front(q)[i] = q[i]
  BY Popped
<1>2. /\ IsSeq(Append(Front(q), x)) /\ Len(Append(Front(q), x)) = Len(Front(q)) + 1
      /\ \A i \in 1..Len(Front(q)) : Append(Front(q), x)[i] = Front(q)[i]
      /\ Append(Front(q), x)[Len(Front(q)) + 1] = x
  BY <1>1, Appended
<1>3. Len(Front(q)) + 1 = Len(q)
  BY <1>1
<1> QED
  BY <1>1, <1>2, <1>3

----------------------------------------------------------------------------
(* What entries take together.                                             *)

LEMMA NatOrder == OpToRel(<, Nat) = {ss \in Nat \X Nat : ss[1] < ss[2]}
BY DEF OpToRel

LEMMA HasLeast ==
  ASSUME NEW T \in SUBSET Nat, T # {}
  PROVE  \E z \in T : \A y \in T : z <= y
<1> DEFINE R == {ss \in Nat \X Nat : ss[1] < ss[2]}
<1>1. IsWellFoundedOn(R, Nat)
  BY NatLessThanWellFounded, NatOrder, Zenon
<1>2. \A x, y \in Nat : <<y, x>> \in R <=> y < x
  OBVIOUS
<1> HIDE DEF R
<1>3. PICK z \in T : \A y \in T : ~(<<y, z>> \in R)
  <2>1. T \subseteq Nat
    OBVIOUS
  <2> QED
    BY <1>1, <2>1, WFMin
<1>4. ASSUME NEW y \in T PROVE z <= y
  <2>1. y \in Nat /\ z \in Nat
    OBVIOUS
  <2>2. ~(<<y, z>> \in R)
    BY <1>3
  <2>3. ~(y < z)
    BY <1>2, <2>1, <2>2, Zenon
  <2> QED
    BY <2>1, <2>3
<1> QED
  BY <1>4

\* What holds of the last number, and of each whose successor it holds of, holds
\* of all.
LEMMA Descends ==
  ASSUME NEW a \in Nat, NEW b \in Nat, a <= b, NEW S, b \in S,
         \A k \in a..b - 1 : k + 1 \in S => k \in S
  PROVE  \A k \in a..b : k \in S
<1> DEFINE T == {b - k : k \in (a..b) \ S}
<1> SUFFICES ASSUME NEW x \in a..b, x \notin S PROVE FALSE
  OBVIOUS
<1>1. T \in SUBSET Nat /\ b - x \in T
  OBVIOUS
<1>2. PICK z \in T : \A y \in T : z <= y
  BY <1>1, HasLeast, Zenon
<1>3. PICK k \in (a..b) \ S : z = b - k
  BY <1>2
<1>4. k \in a..b - 1
  BY <1>3
<1>5. k + 1 \in (a..b) \ S
  BY <1>3, <1>4
<1>6. b - (k + 1) \in T
  BY <1>5
<1>7. z <= b - (k + 1)
  BY <1>2, <1>6
<1> QED
  BY <1>3, <1>4, <1>7

\* What entry i and those behind it take if g says it of those behind.
SumFrom(items, g, i) == IF i > Len(items) THEN 0 ELSE items[i].width + g[i + 1]
SumBy(items, g) == [i \in 1..Len(items) + 1 |-> SumFrom(items, g, i)]
Sums(items) == CHOOSE g : g = SumBy(items, g)

LEMMA WidthsSum == \A items : Widths(items) = Sums(items)[1]
BY DEF Widths, Sums, SumBy, SumFrom

LEMMA SumsExist ==
  ASSUME NEW items, Len(items) \in Nat
  PROVE  \E g : g = SumBy(items, g)
<1> DEFINE n == Len(items)
           S == {k \in 1..n + 1 : \E g : \A i \in k..n + 1 : g[i] = SumFrom(items, g, i)}
<1>1. n + 1 \in S
  <2> DEFINE g == [i \in 1..n + 1 |-> 0]
  <2>1. \A i \in n + 1..n + 1 : i = n + 1 /\ i > n /\ i \in 1..n + 1
    OBVIOUS
  <2>2. \A i \in n + 1..n + 1 : g[i] = SumFrom(items, g, i)
    BY <2>1 DEF SumFrom
  <2> HIDE DEF g
  <2>3. n + 1 \in 1..n + 1
    OBVIOUS
  <2> QED
    BY <2>2, <2>3
<1>2. ASSUME NEW k \in 1..(n + 1) - 1, k + 1 \in S PROVE k \in S
  <2>1. PICK g : \A i \in k + 1..n + 1 : g[i] = SumFrom(items, g, i)
    BY <1>2
  <2> DEFINE h == [i \in 1..n + 1 |-> IF i = k THEN items[k].width + g[k + 1] ELSE g[i]]
  <2>2. \A i \in k..n + 1 : i = k \/ i \in k + 1..n + 1
    OBVIOUS
  <2>3. h[k] = SumFrom(items, h, k)
    <3>1. ~(k > n) /\ k \in 1..n + 1 /\ k + 1 \in 1..n + 1 /\ k + 1 # k
      OBVIOUS
    <3>2. h[k] = items[k].width + g[k + 1] /\ h[k + 1] = g[k + 1]
      BY <3>1
    <3> HIDE DEF h
    <3> QED
      BY <3>1, <3>2 DEF SumFrom
  <2>4. ASSUME NEW i \in k + 1..n + 1 PROVE h[i] = SumFrom(items, h, i)
    <3>1. h[i] = g[i] /\ (~(i > n) => h[i + 1] = g[i + 1])
      OBVIOUS
    <3>2. g[i] = SumFrom(items, g, i)
      BY <2>1
    <3> HIDE DEF h
    <3> QED
      BY <3>1, <3>2 DEF SumFrom
  <2> HIDE DEF h
  <2>5. \A i \in k..n + 1 : h[i] = SumFrom(items, h, i)
    BY <2>2, <2>3, <2>4
  <2>6. k \in 1..n + 1
    OBVIOUS
  <2> QED
    BY <2>5, <2>6
<1> HIDE DEF S
<1>3. 1 \in S
  <2> DEFINE b == n + 1
  <2>1. 1 \in Nat /\ b \in Nat /\ 1 <= b /\ b \in S /\ \A k \in 1..b - 1 : k + 1 \in S => k \in S
    BY <1>1, <1>2
  <2> HIDE DEF b
  <2>2. \A k \in 1..b : k \in S
    BY <2>1, Descends
  <2> QED
    BY <2>1, <2>2
<1>4. PICK g : \A i \in 1..n + 1 : g[i] = SumFrom(items, g, i)
  BY <1>3 DEF S
<1> DEFINE h == [i \in 1..n + 1 |-> g[i]]
<1>5. ASSUME NEW i \in 1..n + 1 PROVE SumFrom(items, h, i) = SumFrom(items, g, i)
  <2>1. ~(i > n) => h[i + 1] = g[i + 1]
    OBVIOUS
  <2> HIDE DEF h
  <2> QED
    BY <2>1 DEF SumFrom
<1>6. h = SumBy(items, h)
  BY <1>4, <1>5 DEF SumBy
<1> QED
  BY <1>6

LEMMA SumsAre ==
  ASSUME NEW items, Len(items) \in Nat, NEW i \in 1..Len(items) + 1
  PROVE  Sums(items)[i] = SumFrom(items, Sums(items), i)
<1>1. Sums(items) = SumBy(items, Sums(items))
  BY SumsExist DEF Sums
<1> QED
  BY <1>1 DEF SumBy

\* Behind the first entry stand the others.
LEMMA SumsBehind ==
  ASSUME NEW S, NEW items \in Seq(S), items # <<>>
  PROVE  Sums(Tail(items))[1] = Sums(items)[2]
<1> DEFINE n == Len(items)
           rear == Tail(items)
           E == {i \in 1..n : Sums(rear)[i] = Sums(items)[i + 1]}
<1>1. /\ n \in Nat \ {0} /\ Len(rear) = n - 1 /\ Len(rear) \in Nat
      /\ \A i \in 1..n - 1 : rear[i] = items[i + 1]
  BY EmptySeq, HeadTailProperties
<1> HIDE DEF rear, n
<1>2. n \in E
  <2>1. n \in 1..n /\ n \in 1..Len(rear) + 1 /\ n > Len(rear)
    BY <1>1
  <2>2. n + 1 \in 1..Len(items) + 1 /\ n + 1 > Len(items)
    BY <1>1 DEF n
  <2>3. Sums(rear)[n] = 0
    BY <1>1, <2>1, SumsAre DEF SumFrom
  <2>4. Sums(items)[n + 1] = 0
    BY <2>2, SumsAre DEF SumFrom
  <2> QED
    BY <2>1, <2>3, <2>4
<1>3. ASSUME NEW i \in 1..n - 1, i + 1 \in E PROVE i \in E
  <2>1. /\ i \in 1..n /\ i \in 1..Len(rear) + 1 /\ ~(i > Len(rear))
        /\ i + 1 \in 1..Len(items) + 1 /\ ~(i + 1 > Len(items))
    BY <1>1 DEF n
  <2>2. Sums(rear)[i] = rear[i].width + Sums(rear)[i + 1]
    BY <1>1, <2>1, SumsAre DEF SumFrom
  <2>3. Sums(items)[i + 1] = items[i + 1].width + Sums(items)[(i + 1) + 1]
    <3>1. i + 1 \in 1..Len(items) + 1 /\ ~(i + 1 > Len(items))
      BY <2>1
    <3> HIDE DEF E, n
    <3> QED
      BY ONLY <3>1, SumsAre DEF SumFrom
  <2>4. rear[i] = items[i + 1]
    BY <1>1
  <2> QED
    BY <1>3, <2>1, <2>2, <2>3, <2>4
<1> HIDE DEF E
<1>4. 1 \in Nat /\ n \in Nat /\ 1 <= n
  BY <1>1
<1>5. \A k \in 1..n : k \in E
  BY <1>2, <1>3, <1>4, Descends
<1>6. 1 \in E
  BY <1>4, <1>5
<1> QED
  BY <1>6 DEF E, rear

\* Nothing takes nothing.
LEMMA WidthsEmpty == Widths(<<>>) = 0
<1>1. Len(<<>>) = 0 /\ 1 \in 1..Len(<<>>) + 1 /\ 1 > Len(<<>>) /\ Len(<<>>) \in Nat
  OBVIOUS
<1> QED
  BY <1>1, SumsAre, WidthsSum DEF SumFrom

\* Entries take what the first takes and what the others take.
LEMMA WidthsMet ==
  ASSUME NEW S, NEW items \in Seq(S), items # <<>>
  PROVE  Widths(items) = items[1].width + Widths(Tail(items))
<1>1. Len(items) \in Nat \ {0}
  BY EmptySeq
<1>2. 1 \in 1..Len(items) + 1 /\ ~(1 > Len(items)) /\ Len(items) \in Nat /\ 1 + 1 = 2
  BY <1>1
<1>3. Sums(items)[1] = items[1].width + Sums(items)[2]
  BY <1>2, SumsAre DEF SumFrom
<1> QED
  BY <1>3, SumsBehind, WidthsSum

LEMMA WidthsAre ==
  ASSUME NEW items, Len(items) \in Nat, \A i \in 1..Len(items) : items[i].width \in Nat
  PROVE  Widths(items) \in Nat
<1> DEFINE b == Len(items) + 1
           E == {i \in 1..b : Sums(items)[i] \in Nat}
<1>1. 1 \in Nat /\ b \in Nat /\ 1 <= b /\ b \in 1..b /\ b > Len(items)
  OBVIOUS
<1>2. b \in E
  BY <1>1, SumsAre DEF SumFrom
<1>3. ASSUME NEW i \in 1..b - 1, i + 1 \in E PROVE i \in E
  <2>1. i \in 1..b /\ ~(i > Len(items)) /\ i \in 1..Len(items)
    OBVIOUS
  <2>2. Sums(items)[i] = items[i].width + Sums(items)[i + 1]
    BY <2>1, SumsAre DEF SumFrom
  <2> QED
    BY <1>3, <2>1, <2>2
<1> HIDE DEF E, b
<1>4. \A k \in 1..b : k \in E
  BY <1>1, <1>2, <1>3, Descends
<1>5. 1 \in E
  BY <1>1, <1>4
<1> QED
  BY <1>5, WidthsSum DEF E

----------------------------------------------------------------------------
(* The compiler's bookings.                                                *)

ScriptShape(s) == DOMAIN s = {"steps", "prefixes", "cursor", "outLen"}
SlotShape(p) == DOMAIN p = {"start", "end", "verbatim", "tokens"}

\* A script under construction: well formed as far as its cursor.
Sound(s) ==
  /\ ScriptShape(s) /\ IsSeq(s.steps) /\ IsSeq(s.prefixes)
  /\ \A i \in 1..Len(s.prefixes) : SlotShape(s.prefixes[i])
  /\ \A k \in 1..Len(s.steps) : s.steps[k].kind = "Prefix" => s.steps[k].slot \in 1..Len(s.prefixes)
  /\ WellFormed(s, s.cursor)

\* Script t keeps the steps of s before its own last one, and its slots.
Reworks(t, s) ==
  /\ ScriptShape(t) /\ IsSeq(t.steps) /\ IsSeq(t.prefixes)
  /\ \A i \in 1..Len(t.prefixes) : SlotShape(t.prefixes[i])
  /\ \A i \in 1..Len(s.prefixes) : i \in 1..Len(t.prefixes) /\ t.prefixes[i] = s.prefixes[i]
  /\ Len(t.steps) \in Nat \ {0}
  /\ \A i \in 1..Len(t.steps) - 1 : i \in 1..Len(s.steps) /\ t.steps[i] = s.steps[i]
  /\ t.steps[Len(t.steps)].kind = "Prefix" => t.steps[Len(t.steps)].slot \in 1..Len(t.prefixes)

LEMMA ReworkedUntil ==
  ASSUME NEW s, Sound(s), NEW t, Reworks(t, s)
  PROVE  /\ \A k \in 1..Len(t.steps) - 1 :
              /\ k \in 1..Len(t.steps) /\ k \in 1..Len(s.steps) /\ k < Len(t.steps)
              /\ k \in Moves(t) <=> k \in Moves(s)
              /\ k \in Moves(s) => Until(t, k) = Until(s, k)
         /\ \A k \in 1..Len(t.steps) : k = Len(t.steps) \/ k \in 1..Len(t.steps) - 1
         /\ \A k \in 1..Len(t.steps) :
              t.steps[k].kind = "Prefix" => t.steps[k].slot \in 1..Len(t.prefixes)
<1>1. ASSUME NEW k \in 1..Len(t.steps) - 1
      PROVE  /\ k \in 1..Len(t.steps) /\ k \in 1..Len(s.steps) /\ k < Len(t.steps)
             /\ t.steps[k] = s.steps[k]
  BY DEF Reworks
<1>2. ASSUME NEW k \in 1..Len(t.steps) - 1, s.steps[k].kind = "Prefix"
      PROVE  /\ s.steps[k].slot \in 1..Len(t.prefixes)
             /\ t.prefixes[s.steps[k].slot] = s.prefixes[s.steps[k].slot]
  BY <1>1, <1>2 DEF Sound, Reworks
<1>3. \A k \in 1..Len(t.steps) - 1 : k \in Moves(t) <=> k \in Moves(s)
  BY <1>1 DEF Moves
<1>4. \A k \in 1..Len(t.steps) - 1 : Until(t, k) = Until(s, k)
  BY <1>1, <1>2 DEF Until
<1>5. \A k \in 1..Len(t.steps) : k = Len(t.steps) \/ k \in 1..Len(t.steps) - 1
  BY DEF Reworks
<1>6. \A k \in 1..Len(t.steps) : t.steps[k].kind = "Prefix" => t.steps[k].slot \in 1..Len(t.prefixes)
  BY <1>1, <1>2, <1>5 DEF Reworks
<1> QED
  BY <1>1, <1>3, <1>4, <1>5, <1>6

\* The source moves on: the last step ends where the cursor stands.
LEMMA MoveIsSound ==
  ASSUME NEW s, Sound(s), NEW t, Reworks(t, s), Len(t.steps) \in Moves(t),
         t.cursor \in Nat, s.cursor < t.cursor, Until(t, Len(t.steps)) = t.cursor
  PROVE  Sound(t)
<1>1. /\ s.cursor \in Nat /\ \A k \in Moves(s) : Until(s, k) \in 1..s.cursor
      /\ \A j, k \in Moves(s) : j < k => Until(s, j) < Until(s, k)
  BY DEF Sound, WellFormed
<1>2. \A k \in Moves(t) : k = Len(t.steps) \/ k \in 1..Len(t.steps) - 1
  BY ReworkedUntil DEF Moves
<1>3. \A k \in 1..Len(t.steps) - 1 :
        k < Len(t.steps) /\ (k \in Moves(t) => k \in Moves(s) /\ Until(t, k) = Until(s, k))
  BY ReworkedUntil
<1>4. \A k \in Moves(t) : Until(t, k) \in 1..t.cursor
  BY SMTT(60), <1>1, <1>2, <1>3
<1>5. ASSUME NEW j \in Moves(t), NEW k \in Moves(t), j < k PROVE Until(t, j) < Until(t, k)
  <2>1. j \in 1..Len(t.steps) - 1
    BY <1>2, <1>5 DEF Moves
  <2>2. /\ j \in Moves(s) /\ Until(t, j) = Until(s, j)
        /\ Until(s, j) <= s.cursor /\ Until(s, j) \in Nat
    BY <1>1, <1>3, <2>1
  <2>3. CASE k = Len(t.steps)
    BY <1>1, <2>2, <2>3
  <2>4. CASE k \in 1..Len(t.steps) - 1
    BY <1>1, <1>3, <1>5, <2>2, <2>4
  <2> QED
    BY <1>2, <2>3, <2>4
<1>6. WellFormed(t, t.cursor)
  BY <1>4, <1>5 DEF WellFormed, Reworks
<1> QED
  BY ZenonT(60), <1>6, ReworkedUntil DEF Sound, Reworks

\* The source stands: the last step emits, and was no move before.
LEMMA StandIsSound ==
  ASSUME NEW s, Sound(s), NEW t, Reworks(t, s), Len(t.steps) \notin Moves(t),
         Len(t.steps) \notin Moves(s), Len(s.steps) <= Len(t.steps), t.cursor = s.cursor
  PROVE  Sound(t)
<1>1. Len(s.steps) \in Nat /\ Len(t.steps) \in Nat
  BY DEF Sound, IsSeq, Reworks
<1>2. Moves(t) = Moves(s)
  <2>1. \A k \in Moves(t) : k \in Moves(s)
    BY ReworkedUntil DEF Moves
  <2>2. \A k \in Moves(s) : k \in 1..Len(t.steps) - 1
    BY <1>1 DEF Moves
  <2>3. \A k \in Moves(s) : k \in Moves(t)
    BY <2>2, ReworkedUntil
  <2> QED
    BY <2>1, <2>3
<1>3. \A k \in Moves(s) : Until(t, k) = Until(s, k)
  <2>1. \A k \in Moves(s) : k \in 1..Len(t.steps) - 1
    BY <1>1 DEF Moves
  <2> QED
    BY <2>1, ReworkedUntil
<1>4. WellFormed(t, t.cursor)
  BY <1>1, <1>2, <1>3 DEF Sound, WellFormed
<1> QED
  BY <1>4, ReworkedUntil DEF Sound, Reworks

\* A step put behind the steps of s, or in the place of its last one.
LEMMA PutsBehind ==
  ASSUME NEW s, Sound(s), NEW x, NEW t, ScriptShape(t), t.prefixes = s.prefixes,
         x.kind # "Prefix",
         \/ t.steps = Append(s.steps, x)
         \/ s.steps # <<>> /\ t.steps = Append(Front(s.steps), x)
  PROVE  /\ Reworks(t, s) /\ t.steps[Len(t.steps)] = x /\ Len(s.steps) <= Len(t.steps)
         /\ Len(t.steps) \in 1..Len(t.steps)
         /\ t.steps = Append(s.steps, x) => Len(t.steps) = Len(s.steps) + 1
         /\ t.steps = Append(Front(s.steps), x) /\ s.steps # <<>> => Len(t.steps) = Len(s.steps)
<1>1. IsSeq(s.steps) /\ Len(s.steps) \in Nat
  BY DEF Sound, IsSeq
<1>2. CASE t.steps = Append(s.steps, x)
  <2>1. /\ IsSeq(t.steps) /\ Len(t.steps) = Len(s.steps) + 1
        /\ \A i \in 1..Len(s.steps) : t.steps[i] = s.steps[i]
        /\ t.steps[Len(s.steps) + 1] = x
    BY <1>1, <1>2, Appended
  <2>2. /\ Len(t.steps) \in Nat \ {0} /\ t.steps[Len(t.steps)] = x
        /\ \A i \in 1..Len(t.steps) - 1 : i \in 1..Len(s.steps) /\ t.steps[i] = s.steps[i]
    BY <1>1, <2>1
  <2>3. t.steps = Append(Front(s.steps), x) /\ s.steps # <<>> => Len(t.steps) = Len(s.steps)
    BY <1>1, Replaced1
  <2> QED
    BY SMTT(60), <1>1, <2>1, <2>2, <2>3 DEF Reworks, Sound
<1>3. CASE s.steps # <<>> /\ t.steps = Append(Front(s.steps), x)
  <2>1. /\ IsSeq(t.steps) /\ Len(t.steps) = Len(s.steps)
        /\ \A i \in 1..Len(s.steps) - 1 : t.steps[i] = s.steps[i]
        /\ t.steps[Len(s.steps)] = x
    BY SMTT(60), <1>1, <1>3, Replaced1
  <2>2. Len(s.steps) \in Nat \ {0}
    BY <1>1, <1>3, Popped
  <2>3. /\ Len(t.steps) \in Nat \ {0} /\ t.steps[Len(t.steps)] = x
        /\ \A i \in 1..Len(t.steps) - 1 : i \in 1..Len(s.steps) /\ t.steps[i] = s.steps[i]
    BY <2>1, <2>2
  <2>4. t.steps = Append(s.steps, x) => Len(t.steps) = Len(s.steps) + 1
    BY <1>1, Appended
  <2> QED
    BY <1>1, <2>1, <2>3, <2>4 DEF Reworks, Sound
<1> QED
  BY <1>2, <1>3

\* The output length is nobody's concern here.
LEMMA LengthIsFree ==
  ASSUME NEW s, Sound(s), NEW n
  PROVE  Sound([s EXCEPT !.outLen = n]) /\ [s EXCEPT !.outLen = n].cursor = s.cursor
<1> DEFINE t == [s EXCEPT !.outLen = n]
<1>1. /\ ScriptShape(t) /\ t.steps = s.steps /\ t.prefixes = s.prefixes /\ t.cursor = s.cursor
  BY DEF Sound, ScriptShape
<1> HIDE DEF t
<1>2. Moves(t) = Moves(s) /\ \A k : Until(t, k) = Until(s, k)
  BY <1>1 DEF Moves, Until
<1>3. WellFormed(t, t.cursor)
  BY <1>1, <1>2 DEF Sound, WellFormed
<1>4. Sound(t) /\ t.cursor = s.cursor
  BY <1>1, <1>3 DEF Sound
<1> QED
  BY <1>4 DEF t

LEMMA MovedToIsSound ==
  ASSUME NEW s, Sound(s), NEW kind \in {"Copy", "Skip"}, NEW to \in Nat, s.cursor < to
  PROVE  Sound(MovedTo(s, kind, to)) /\ MovedTo(s, kind, to).cursor = to
<1> DEFINE t == MovedTo(s, kind, to)
           x == [kind |-> kind, to |-> to]
<1>1. /\ ScriptShape(t) /\ t.prefixes = s.prefixes /\ t.cursor = to
      /\ \/ t.steps = Append(s.steps, x)
         \/ s.steps # <<>> /\ t.steps = Append(Front(s.steps), x)
  BY DEF Sound, ScriptShape, MovedTo
<1>2. x.kind = kind /\ x.to = to /\ x.kind # "Prefix"
  OBVIOUS
<1> HIDE DEF t, x
<1>3. Reworks(t, s) /\ t.steps[Len(t.steps)] = x /\ Len(t.steps) \in 1..Len(t.steps)
  BY <1>1, <1>2, PutsBehind
<1>4. Len(t.steps) \in Moves(t) /\ Until(t, Len(t.steps)) = to
  BY <1>2, <1>3 DEF Moves, Until
<1>5. Sound(t) /\ t.cursor = to
  BY <1>1, <1>3, <1>4, MoveIsSound
<1> QED
  BY <1>5 DEF t

\* A copy or a skip to a place not behind the cursor.
LEMMA CopyToIsSound ==
  ASSUME NEW s, Sound(s), NEW to \in Nat, s.cursor <= to
  PROVE  Sound(CopyTo(s, to)) /\ CopyTo(s, to).cursor = to
<1>1. s.cursor \in Nat
  BY DEF Sound, WellFormed
<1>2. CASE to = s.cursor
  BY <1>2 DEF CopyTo
<1>3. CASE to # s.cursor
  <2> DEFINE t == MovedTo(s, "Copy", to)
  <2>1. Sound(t) /\ t.cursor = to
    BY <1>1, <1>3, MovedToIsSound
  <2>2. CopyTo(s, to) = [t EXCEPT !.outLen = @ + (to - s.cursor)]
    BY <1>3 DEF CopyTo
  <2> HIDE DEF t
  <2> QED
    BY <2>1, <2>2, LengthIsFree
<1> QED
  BY <1>2, <1>3

LEMMA SkipToIsSound ==
  ASSUME NEW s, Sound(s), NEW to \in Nat, s.cursor <= to
  PROVE  Sound(SkipTo(s, to)) /\ SkipTo(s, to).cursor = to
<1>1. s.cursor \in Nat
  BY DEF Sound, WellFormed
<1> QED
  BY <1>1, MovedToIsSound DEF SkipTo

\* Authored bytes leave the source where it stands.
LEMMA StageIsSound ==
  ASSUME NEW s, Sound(s), NEW tokens
  PROVE  Sound(Stage(s, tokens)) /\ Stage(s, tokens).cursor = s.cursor
<1> DEFINE t == Stage(s, tokens)
           merges == s.steps # <<>> /\ Last(s.steps).kind = "Staged"
           x == [kind |-> "Staged", tokens |-> (IF merges THEN Last(s.steps).tokens ELSE <<>>) \o tokens]
<1>1. /\ ScriptShape(t) /\ t.prefixes = s.prefixes /\ t.cursor = s.cursor
      /\ IF merges THEN t.steps = Append(Front(s.steps), x) ELSE t.steps = Append(s.steps, x)
  BY DEF Sound, ScriptShape, Stage
<1>2. x.kind = "Staged"
  OBVIOUS
<1> HIDE DEF t, x
<1>3. /\ Reworks(t, s) /\ t.steps[Len(t.steps)] = x /\ Len(s.steps) <= Len(t.steps)
      /\ Len(t.steps) = IF merges THEN Len(s.steps) ELSE Len(s.steps) + 1
  BY <1>1, <1>2, PutsBehind
<1>4. Len(t.steps) \notin Moves(t)
  BY <1>2, <1>3 DEF Moves
<1>5. Len(t.steps) \notin Moves(s)
  <2>1. CASE merges
    <3>1. Last(s.steps) = s.steps[Len(s.steps)]
      BY <2>1, Popped DEF Sound
    <3> QED
      BY <1>3, <2>1, <3>1 DEF Moves
  <2>2. CASE ~merges
    <3>1. Len(s.steps) \in Nat
      BY DEF Sound, IsSeq
    <3> QED
      BY <1>3, <2>2, <3>1 DEF Moves
  <2> QED
    BY <2>1, <2>2
<1>6. Sound(t) /\ t.cursor = s.cursor
  BY <1>1, <1>3, <1>4, <1>5, StandIsSound
<1> QED
  BY <1>6 DEF t

LEMMA BorrowIsSound ==
  ASSUME NEW s, Sound(s), NEW tokens
  PROVE  Sound(Borrow(s, tokens)) /\ Borrow(s, tokens).cursor = s.cursor
<1> DEFINE t == Borrow(s, tokens)
           x == [kind |-> "Borrowed", tokens |-> tokens]
<1>1. /\ ScriptShape(t) /\ t.prefixes = s.prefixes /\ t.cursor = s.cursor
      /\ t.steps = Append(s.steps, x)
  BY DEF Sound, ScriptShape, Borrow
<1>2. x.kind = "Borrowed"
  OBVIOUS
<1> HIDE DEF t, x
<1>3. /\ Reworks(t, s) /\ t.steps[Len(t.steps)] = x /\ Len(s.steps) <= Len(t.steps)
      /\ Len(t.steps) = Len(s.steps) + 1
  BY <1>1, <1>2, PutsBehind
<1>4. Len(s.steps) \in Nat
  BY DEF Sound, IsSeq
<1>5. Len(t.steps) \notin Moves(t) /\ Len(t.steps) \notin Moves(s)
  BY SMTT(60), <1>2, <1>3, <1>4 DEF Moves
<1>6. Sound(t) /\ t.cursor = s.cursor
  BY <1>1, <1>3, <1>5, StandIsSound
<1> QED
  BY <1>6 DEF t

\* A prefix waits: its step crosses the source's bytes.
LEMMA OpenPrefixIsSound ==
  ASSUME NEW s, Sound(s), NEW end \in Nat, s.cursor < end
  PROVE  Sound(OpenPrefix(s, end)) /\ OpenPrefix(s, end).cursor = end
<1> DEFINE t == OpenPrefix(s, end)
           p == [start |-> s.cursor, end |-> end, verbatim |-> FALSE, tokens |-> <<>>]
           x == [kind |-> "Prefix", slot |-> Len(s.prefixes) + 1]
<1>1. /\ ScriptShape(t) /\ t.prefixes = Append(s.prefixes, p) /\ t.cursor = end
      /\ t.steps = Append(s.steps, x)
  BY DEF Sound, ScriptShape, OpenPrefix
<1>2. x.kind = "Prefix" /\ x.slot = Len(s.prefixes) + 1 /\ SlotShape(p) /\ p.end = end
  BY DEF SlotShape
<1> HIDE DEF t, x, p
<1>3. /\ IsSeq(s.steps) /\ IsSeq(s.prefixes) /\ Len(s.steps) \in Nat /\ Len(s.prefixes) \in Nat
      /\ \A i \in 1..Len(s.prefixes) : SlotShape(s.prefixes[i])
  BY DEF Sound, IsSeq
<1>4. /\ IsSeq(t.steps) /\ Len(t.steps) = Len(s.steps) + 1
      /\ \A i \in 1..Len(s.steps) : t.steps[i] = s.steps[i]
      /\ t.steps[Len(s.steps) + 1] = x
  BY <1>1, <1>3, Appended
<1>5. /\ IsSeq(t.prefixes) /\ Len(t.prefixes) = Len(s.prefixes) + 1
      /\ \A i \in 1..Len(s.prefixes) : t.prefixes[i] = s.prefixes[i]
      /\ t.prefixes[Len(s.prefixes) + 1] = p
  BY <1>1, <1>3, Appended
<1>6. \A i \in 1..Len(t.prefixes) : SlotShape(t.prefixes[i])
  <2>1. \A i \in 1..Len(t.prefixes) : i \in 1..Len(s.prefixes) \/ i = Len(s.prefixes) + 1
    BY <1>3, <1>5
  <2> QED
    BY <1>2, <1>3, <1>5, <2>1
<1>7. /\ Len(t.steps) \in Nat \ {0} /\ t.steps[Len(t.steps)] = x
      /\ \A i \in 1..Len(t.steps) - 1 : i \in 1..Len(s.steps) /\ t.steps[i] = s.steps[i]
      /\ \A i \in 1..Len(s.prefixes) : i \in 1..Len(t.prefixes)
      /\ Len(s.prefixes) + 1 \in 1..Len(t.prefixes)
  BY SMTT(60), <1>3, <1>4, <1>5
<1>8. Reworks(t, s)
  BY SMTT(60), <1>1, <1>2, <1>4, <1>5, <1>6, <1>7 DEF Reworks
<1>9. Len(t.steps) \in Moves(t) /\ Until(t, Len(t.steps)) = end
  BY <1>2, <1>5, <1>7 DEF Moves, Until
<1>10. Sound(t) /\ t.cursor = end
  BY <1>1, <1>8, <1>9, MoveIsSound
<1> QED
  BY <1>10 DEF t

\* Settling a slot says what it emits, never where it ends.
LEMMA SettleIsSound ==
  ASSUME NEW s, Sound(s), NEW slot, NEW held, NEW tokens
  PROVE  /\ Sound(SettlePrefix(s, slot, held, tokens))
         /\ SettlePrefix(s, slot, held, tokens).cursor = s.cursor
<1> DEFINE t == SettlePrefix(s, slot, held, tokens)
           q == s.prefixes
           r == IF held THEN [q EXCEPT ![slot].verbatim = TRUE] ELSE [q EXCEPT ![slot].tokens = tokens]
<1>1. ScriptShape(t) /\ t.steps = s.steps /\ t.prefixes = r /\ t.cursor = s.cursor
  BY DEF Sound, ScriptShape, SettlePrefix
<1>2. IsSeq(q) /\ Len(q) \in Nat /\ \A i \in 1..Len(q) : SlotShape(q[i])
  BY DEF Sound, IsSeq
<1> HIDE DEF t, q
<1>3. /\ IsSeq(r) /\ Len(r) = Len(q)
      /\ \A i \in 1..Len(q) : SlotShape(r[i]) /\ r[i].end = q[i].end
  <2> DEFINE n == Len(q)
  <2>1. n \in Nat /\ q = [i \in 1..n |-> q[i]] /\ \A i \in 1..n : SlotShape(q[i])
    BY <1>2 DEF IsSeq
  <2> HIDE DEF n
  <2>2. \/ r = [i \in 1..n |-> IF i = slot THEN [q[i] EXCEPT !.verbatim = TRUE] ELSE q[i]]
        \/ r = [i \in 1..n |-> IF i = slot THEN [q[i] EXCEPT !.tokens = tokens] ELSE q[i]]
    BY <2>1
  <2> HIDE DEF r
  <2>3. \A i \in 1..n :
          r[i] \in {q[i], [q[i] EXCEPT !.verbatim = TRUE], [q[i] EXCEPT !.tokens = tokens]}
    BY <2>2
  <2>4. r = [i \in 1..n |-> r[i]] /\ Len(r) = n
    BY <2>1, <2>2
  <2>5. \A i \in 1..n : SlotShape(r[i]) /\ r[i].end = q[i].end
    BY <2>1, <2>3 DEF SlotShape
  <2> QED
    BY <2>1, <2>4, <2>5 DEF IsSeq, n
<1>4. IsSeq(r) /\ Len(r) = Len(q)
  BY <1>3
<1> HIDE DEF r
<1>5. Moves(t) = Moves(s)
  BY <1>1 DEF Moves
<1>6. \A k \in Moves(s) : Until(t, k) = Until(s, k)
  BY <1>1, <1>3 DEF Sound, Moves, Until, q
<1>7. WellFormed(t, t.cursor)
  BY <1>1, <1>5, <1>6 DEF Sound, WellFormed
<1>8. Sound(t) /\ t.cursor = s.cursor
  BY <1>1, <1>3, <1>4, <1>7 DEF Sound, q
<1> QED
  BY <1>8 DEF t

----------------------------------------------------------------------------
(* The measuring walk: where it stands, and what is still before it.       *)

\* What the records before the walk end at: the innermost LEN's end, or the source's.
Bound(z) == IF z = None THEN Widths(job.source) ELSE z

\* Of the first n frames the innermost LEN ends at z; without a LEN there is no zone.
ZoneOf(stack, n, z) ==
  /\ \A i \in 1..n : /\ stack[i].kind = "Len"
                     /\ \A j \in 1..n : i < j => stack[j].kind # "Len"
                     => z = stack[i].end
  /\ (\A i \in 1..n : stack[i].kind # "Len") => z = None

\* A LEN's frame remembers the records behind it and the zone they stand in.
Fits(stack, i) ==
  stack[i].kind = "Len" =>
    /\ stack[i].end \in Nat /\ stack[i].beyond \in Seq(Entries)
    /\ stack[i].end + Widths(stack[i].beyond) = Bound(stack[i].prevZone)
    /\ ZoneOf(stack, i - 1, stack[i].prevZone)
Framed(stack) == \A i \in 1..Len(stack) : Fits(stack, i)

\* The groups of a deletion are the innermost frames.
Vanishing(stack, n) ==
  /\ n \in 0..Len(stack)
  /\ \A i \in 1..Len(stack) : stack[i].kind = "Vanish" <=> i > Len(stack) - n

\* Whatever the walk has passed is booked, up to the deletion that stands open.
Booked ==
  /\ Sound(script) /\ script.cursor <= off
  /\ silent = 0 => script.cursor = off

MeasureInv ==
  /\ off \in Nat /\ rest \in Seq(Entries) /\ off + Widths(rest) = Bound(zone)
  /\ IsSeq(frames) /\ Framed(frames) /\ ZoneOf(frames, Len(frames), zone)
  /\ Vanishing(frames, silent) /\ Booked

LEMMA EntryIs ==
  ASSUME NEW e \in Entries
  PROVE  /\ e.tag \in Nat /\ e.prefix \in Nat /\ e.width \in Nat
         /\ e.kind # "Bad" => e.tag > 0 /\ e.tag + e.prefix <= e.width
         /\ e.kind \in {"Enter", "Exit"} => e.width = e.tag
         /\ e.kind = "Len" => /\ e.prefix > 0 /\ e.body \in Seq(Entries)
                              /\ e.tag + e.prefix + Widths(e.body) = e.width
BY SourcesAssumption

LEMMA EntriesTake ==
  ASSUME NEW items \in Seq(Entries)
  PROVE  Widths(items) \in Nat
<1>1. Len(items) \in Nat /\ \A i \in 1..Len(items) : items[i] \in Entries
  OBVIOUS
<1>2. \A i \in 1..Len(items) : items[i].width \in Nat
  BY <1>1, EntryIs
<1> QED
  BY <1>1, <1>2, WidthsAre

\* The walk stands before a record wherever the source and its zone go on.
LEMMA MetIs ==
  ASSUME MeasureInv, job \in Jobs, Reading
  PROVE  /\ Met \in Entries /\ Tail(rest) \in Seq(Entries)
         /\ off + Met.width + Widths(Tail(rest)) = Bound(zone)
         /\ Widths(Tail(rest)) \in Nat
<1>1. off \in Nat /\ rest \in Seq(Entries) /\ off + Widths(rest) = Bound(zone)
  BY DEF MeasureInv
<1>2. job.supply \in 0..Widths(job.source) /\ Widths(job.source) \in Nat
  BY SourcesAssumption, EntriesTake
<1>3. off # zone /\ off < job.supply
  BY DEF Reading
<1>4. Widths(rest) # 0
  <2>1. CASE zone = None
    BY <1>1, <1>2, <1>3, <2>1 DEF Bound
  <2>2. CASE zone # None
    BY <1>1, <1>3, <2>2 DEF Bound
  <2> QED
    BY <2>1, <2>2
<1>5. rest # <<>>
  BY <1>4, WidthsEmpty
<1>6. Met \in Entries /\ Tail(rest) \in Seq(Entries)
  BY <1>1, <1>5, HeadTailProperties, EmptySeq DEF Met
<1>7. Widths(rest) = Met.width + Widths(Tail(rest))
  BY <1>1, <1>5, WidthsMet DEF Met
<1>8. Met.width \in Nat /\ Widths(Tail(rest)) \in Nat
  BY <1>6, EntryIs, EntriesTake
<1> QED
  BY <1>1, <1>6, <1>7, <1>8

----------------------------------------------------------------------------
(* The stack of open containers.                                           *)

LEMMA ZoneAgrees ==
  ASSUME NEW p, NEW q, NEW n \in Nat, \A i \in 1..n : p[i] = q[i], NEW z
  PROVE  ZoneOf(p, n, z) <=> ZoneOf(q, n, z)
BY DEF ZoneOf

\* A frame fits by itself and by what is below it.
LEMMA FitsAgree ==
  ASSUME NEW p, NEW q, NEW i \in Nat \ {0}, \A k \in 1..i : p[k] = q[k], Fits(p, i)
  PROVE  Fits(q, i)
<1>1. p[i] = q[i] /\ i - 1 \in Nat /\ \A k \in 1..i - 1 : p[k] = q[k]
  OBVIOUS
<1>2. ZoneOf(p, i - 1, q[i].prevZone) <=> ZoneOf(q, i - 1, q[i].prevZone)
  BY <1>1, ZoneAgrees
<1> QED
  BY <1>1, <1>2 DEF Fits

LEMMA FramedBelow ==
  ASSUME NEW p, Framed(p), Len(p) \in Nat, NEW q, NEW n \in 0..Len(p), \A i \in 1..n : q[i] = p[i],
         NEW i \in 1..n
  PROVE  Fits(q, i)
<1>1. i \in 1..Len(p) /\ i \in Nat \ {0} /\ \A k \in 1..i : p[k] = q[k]
  OBVIOUS
<1> QED
  BY <1>1, FitsAgree DEF Framed

LEMMA PushGroup ==
  ASSUME IsSeq(frames), Framed(frames), ZoneOf(frames, Len(frames), zone), NEW g, g.kind # "Len"
  PROVE  /\ IsSeq(Append(frames, g)) /\ Framed(Append(frames, g))
         /\ ZoneOf(Append(frames, g), Len(frames) + 1, zone)
         /\ Len(Append(frames, g)) = Len(frames) + 1
<1> DEFINE q == Append(frames, g)
           n == Len(frames)
<1>1. /\ n \in Nat /\ IsSeq(q) /\ Len(q) = n + 1 /\ \A i \in 1..n : q[i] = frames[i]
      /\ q[n + 1] = g
  BY Appended DEF IsSeq
<1> HIDE DEF q
<1>2. \A i \in 1..n + 1 : i \in 1..n \/ i = n + 1
  BY <1>1
<1>3. \A i \in 1..n : i \in 1..n + 1
  BY <1>1
<1>4. Framed(q)
  <2>1. \A i \in 1..n : Fits(q, i)
    BY SMTT(60), <1>1, FramedBelow
  <2>2. Fits(q, n + 1)
    BY <1>1 DEF Fits
  <2> QED
    BY <1>1, <1>2, <2>1, <2>2 DEF Framed
<1>5. ZoneOf(q, n + 1, zone)
  BY <1>1, <1>2, <1>3 DEF ZoneOf
<1> QED
  BY <1>1, <1>4, <1>5 DEF q

LEMMA PushLen ==
  ASSUME IsSeq(frames), Framed(frames), ZoneOf(frames, Len(frames), zone), NEW g,
         g.kind = "Len", g.end \in Nat, g.beyond \in Seq(Entries), g.prevZone = zone,
         g.end + Widths(g.beyond) = Bound(zone)
  PROVE  /\ IsSeq(Append(frames, g)) /\ Framed(Append(frames, g))
         /\ ZoneOf(Append(frames, g), Len(frames) + 1, g.end)
         /\ Len(Append(frames, g)) = Len(frames) + 1
<1> DEFINE q == Append(frames, g)
           n == Len(frames)
<1>1. /\ n \in Nat /\ IsSeq(q) /\ Len(q) = n + 1 /\ \A i \in 1..n : q[i] = frames[i]
      /\ q[n + 1] = g
  BY Appended DEF IsSeq
<1> HIDE DEF q
<1>2. \A i \in 1..n + 1 : i \in 1..n \/ i = n + 1
  BY <1>1
<1>3. n + 1 \in 1..n + 1 /\ (n + 1) - 1 = n /\ \A i \in 1..n : i < n + 1
  BY <1>1
<1>4. ZoneOf(q, n, zone)
  BY <1>1, ZoneAgrees
<1>5. \A i \in 1..n + 1 : Fits(q, i)
  <2>1. \A i \in 1..n : Fits(q, i)
    BY SMTT(60), <1>1, FramedBelow
  <2>2. Fits(q, n + 1)
    BY <1>1, <1>3, <1>4 DEF Fits
  <2> QED
    BY <1>2, <2>1, <2>2
<1>6. Framed(q)
  BY <1>1, <1>5 DEF Framed
<1>7. ZoneOf(q, n + 1, g.end)
  BY <1>1, <1>2, <1>3 DEF ZoneOf
<1> QED
  BY <1>1, <1>6, <1>7 DEF q

\* The innermost frame goes: the zone is the one its container stands in.
LEMMA PopFrame ==
  ASSUME IsSeq(frames), Framed(frames), ZoneOf(frames, Len(frames), zone), frames # <<>>
  PROVE  LET g == Last(frames)
             below == IF g.kind = "Len" THEN g.prevZone ELSE zone
         IN /\ IsSeq(Front(frames)) /\ Framed(Front(frames))
            /\ Len(Front(frames)) = Len(frames) - 1 /\ Len(frames) \in Nat \ {0}
            /\ ZoneOf(Front(frames), Len(frames) - 1, below)
            /\ g.kind = "Len" => /\ zone = g.end /\ g.end \in Nat /\ g.beyond \in Seq(Entries)
                                 /\ g.end + Widths(g.beyond) = Bound(below)
<1> DEFINE q == Front(frames)
           g == Last(frames)
           n == Len(frames)
<1>1. /\ n \in Nat \ {0} /\ IsSeq(q) /\ Len(q) = n - 1 /\ g = frames[n]
      /\ \A i \in 1..n - 1 : q[i] = frames[i]
  BY Popped
<1> HIDE DEF q, g
<1>2. n \in 1..n /\ n - 1 \in Nat /\ n - 1 \in 0..n /\ \A i \in 1..n : i = n \/ i \in 1..n - 1
  BY <1>1
<1>3. Framed(q)
  BY <1>1, <1>2, FramedBelow DEF Framed
<1>4. CASE g.kind = "Len"
  <2>1. /\ g.end \in Nat /\ g.beyond \in Seq(Entries)
        /\ g.end + Widths(g.beyond) = Bound(g.prevZone)
        /\ ZoneOf(frames, n - 1, g.prevZone)
    BY <1>1, <1>2, <1>4 DEF Framed, Fits
  <2>2. ZoneOf(q, n - 1, g.prevZone)
    BY <1>1, <1>2, <2>1, ZoneAgrees
  <2>3. zone = g.end
    BY <1>1, <1>2, <1>4 DEF ZoneOf
  <2> QED
    BY <1>1, <1>3, <1>4, <2>1, <2>2, <2>3 DEF q, g
<1>5. CASE g.kind # "Len"
  <2>1. ZoneOf(frames, n - 1, zone)
    BY <1>1, <1>2, <1>5 DEF ZoneOf
  <2>2. ZoneOf(q, n - 1, zone)
    BY <1>1, <1>2, <2>1, ZoneAgrees
  <2> QED
    BY <1>1, <1>3, <1>5, <2>2 DEF q, g
<1> QED
  BY <1>4, <1>5

LEMMA PushVanishing ==
  ASSUME IsSeq(frames), Vanishing(frames, silent), NEW g, g.kind = "Vanish" \/ silent = 0
  PROVE  Vanishing(Append(frames, g), IF g.kind = "Vanish" THEN silent + 1 ELSE silent)
<1> DEFINE q == Append(frames, g)
           n == Len(frames)
<1>1. /\ n \in Nat /\ Len(q) = n + 1 /\ \A i \in 1..n : q[i] = frames[i] /\ q[n + 1] = g
  BY Appended DEF IsSeq
<1>2. q[n + 1] = g
  BY Appended
<1> HIDE DEF q
<1>3. silent \in 0..n /\ \A i \in 1..n : frames[i].kind = "Vanish" <=> i > n - silent
  BY DEF Vanishing
<1>4. \A i \in 1..n + 1 : i \in 1..n \/ i = n + 1
  BY <1>1
<1>5. CASE g.kind = "Vanish"
  BY <1>1, <1>2, <1>3, <1>4, <1>5 DEF Vanishing, q
<1>6. CASE g.kind # "Vanish"
  <2>1. silent = 0
    BY <1>6
  <2>2. \A i \in 1..n + 1 : q[i].kind # "Vanish" /\ ~(i > (n + 1) - 0)
    BY <1>1, <1>2, <1>3, <1>4, <1>6, <2>1
  <2> QED
    BY <1>1, <1>6, <2>1, <2>2 DEF Vanishing, q
<1> QED
  BY <1>5, <1>6

LEMMA PopVanishing ==
  ASSUME IsSeq(frames), Vanishing(frames, silent), frames # <<>>
  PROVE  IF Last(frames).kind = "Vanish"
         THEN silent \in Nat \ {0} /\ Vanishing(Front(frames), silent - 1)
         ELSE silent = 0 /\ Vanishing(Front(frames), 0)
<1> DEFINE q == Front(frames)
           g == Last(frames)
           n == Len(frames)
<1>1. /\ n \in Nat \ {0} /\ Len(q) = n - 1 /\ g = frames[n]
      /\ \A i \in 1..n - 1 : q[i] = frames[i]
  BY Popped
<1> HIDE DEF q, g
<1>2. silent \in 0..n /\ \A i \in 1..n : frames[i].kind = "Vanish" <=> i > n - silent
  BY DEF Vanishing
<1>3. n \in 1..n /\ \A i \in 1..n - 1 : i \in 1..n
  BY <1>1
<1>4. CASE g.kind = "Vanish"
  <2>1. silent \in Nat \ {0} /\ silent - 1 \in 0..n - 1
    BY <1>1, <1>2, <1>3, <1>4
  <2>2. \A i \in 1..n - 1 : q[i].kind = "Vanish" <=> i > (n - 1) - (silent - 1)
    BY <1>1, <1>2, <1>3, <2>1
  <2> QED
    BY <1>1, <1>4, <2>1, <2>2 DEF Vanishing, q, g
<1>5. CASE g.kind # "Vanish"
  <2>1. silent = 0
    BY <1>1, <1>2, <1>3, <1>5
  <2>2. \A i \in 1..n - 1 : q[i].kind # "Vanish" /\ ~(i > (n - 1) - 0)
    BY <1>1, <1>2, <1>3, <2>1
  <2> QED
    BY <1>1, <1>5, <2>1, <2>2 DEF Vanishing, q, g
<1> QED
  BY <1>4, <1>5

----------------------------------------------------------------------------
(* What a step of the walk owes the invariant.                             *)

LEMMA FramedNext ==
  ASSUME job' = job, NEW q, frames' = q, Framed(q) PROVE Framed(frames)'
BY DEF Framed, Fits, Bound, ZoneOf

LEMMA Restored ==
  ASSUME job' = job, NEW q, frames' = q, IsSeq(q), Framed(q), ZoneOf(q, Len(q), zone'),
         Vanishing(q, silent'), off' \in Nat, rest' \in Seq(Entries),
         off' + Widths(rest') = Bound(zone'), NEW s, script' = s, Sound(s), s.cursor <= off',
         silent' = 0 => s.cursor = off'
  PROVE  MeasureInv'
<1>1. Framed(frames)'
  BY FramedNext
<1>2. (off + Widths(rest) = Bound(zone))'
  BY DEF Bound
<1>3. IsSeq(frames)' /\ ZoneOf(frames, Len(frames), zone)' /\ Vanishing(frames, silent)'
  <2>1. IsSeq(frames') /\ ZoneOf(frames', Len(frames'), zone') /\ Vanishing(frames', silent')
    OBVIOUS
  <2> QED
    BY <2>1
<1>4. Sound(script')
  OBVIOUS
<1>5. Booked'
  BY <1>4 DEF Booked
<1> QED
  BY <1>1, <1>2, <1>3, <1>5 DEF MeasureInv

\* A record is passed: the stack stands, the script is booked to its end.
LEMMA BooksKeep ==
  ASSUME MeasureInv, job \in Jobs, job' = job, Reading, NEW s, NEW r, Books(s, r),
         Sound(s), s.cursor <= MetEnd, silent = 0 => s.cursor = MetEnd
  PROVE  MeasureInv'
<1>1. /\ Met \in Entries /\ Tail(rest) \in Seq(Entries)
      /\ off + Met.width + Widths(Tail(rest)) = Bound(zone)
  BY MetIs
<1>2. off \in Nat /\ Met.width \in Nat
  BY <1>1, EntryIs DEF MeasureInv
<1>3. /\ script' = s /\ off' = off + Met.width /\ rest' = Tail(rest)
      /\ frames' = frames /\ zone' = zone /\ silent' = silent
  BY DEF Books, MetEnd
<1>4. /\ IsSeq(frames) /\ Framed(frames) /\ ZoneOf(frames, Len(frames), zone')
      /\ Vanishing(frames, silent')
  BY <1>3 DEF MeasureInv
<1>5. off' \in Nat /\ rest' \in Seq(Entries) /\ off' + Widths(rest') = Bound(zone')
  BY <1>1, <1>2, <1>3
<1>6. s.cursor <= off' /\ (silent' = 0 => s.cursor = off')
  BY <1>3 DEF MetEnd
<1> QED
  BY <1>3, <1>4, <1>5, <1>6, Restored

\* A group opens, kept or deleted.
LEMMA OpenGroupKeeps ==
  ASSUME MeasureInv, job \in Jobs, job' = job, Reading, Met.kind = "Enter",
         NEW kind \in {"Vanish", "Normal", "Group"}, NEW s, NEW r, OpenGroup(kind, s, r),
         Sound(s), s.cursor <= TagEnd, kind # "Vanish" => silent = 0 /\ s.cursor = TagEnd
  PROVE  MeasureInv'
<1> DEFINE g == [kind |-> kind, field |-> Met.field, head |-> off]
           q == Append(frames, g)
<1>1. /\ Met \in Entries /\ Tail(rest) \in Seq(Entries)
      /\ off + Met.width + Widths(Tail(rest)) = Bound(zone)
  BY MetIs
<1>2. off \in Nat /\ Met.tag \in Nat /\ Met.width = Met.tag
  BY <1>1, EntryIs DEF MeasureInv
<1>3. /\ script' = s /\ off' = off + Met.tag /\ rest' = Tail(rest) /\ frames' = q /\ zone' = zone
      /\ silent' = IF kind = "Vanish" THEN silent + 1 ELSE silent
  BY DEF OpenGroup, TagEnd
<1>4. g.kind = kind /\ g.kind # "Len"
  OBVIOUS
<1> HIDE DEF g
<1>5. IsSeq(q) /\ Framed(q) /\ ZoneOf(q, Len(frames) + 1, zone) /\ Len(q) = Len(frames) + 1
  BY <1>4, PushGroup DEF MeasureInv
<1>6. Vanishing(q, silent')
  BY <1>3, <1>4, PushVanishing DEF MeasureInv
<1> HIDE DEF q
<1>7. ZoneOf(q, Len(q), zone')
  BY <1>3, <1>5
<1>8. off' \in Nat /\ rest' \in Seq(Entries) /\ off' + Widths(rest') = Bound(zone')
  BY <1>1, <1>2, <1>3
<1>9. s.cursor <= off' /\ (silent' = 0 => s.cursor = off')
  <2>1. silent \in Nat
    BY DEF MeasureInv, Vanishing
  <2> QED
    BY <1>3, <2>1 DEF TagEnd
<1> QED
  BY <1>3, <1>5, <1>6, <1>7, <1>8, <1>9, Restored

----------------------------------------------------------------------------
(* The fold.                                                               *)

\* Where the pump stands between the steps behind it and the steps ahead.
Abreast ==
  /\ off \in Nat /\ walk \in Nat /\ step \in 1..Len(script.steps) + 1
  /\ off <= walk /\ off <= total
  /\ \A k \in Moves(script) : IF k < step THEN Until(script, k) <= off
                                          ELSE off < Until(script, k)

Fates == {<<"Measured">>, <<"Folding">>, <<"Done">>, <<"Torn">>, <<"Source">>}

FoldInv ==
  /\ WellFormed(script, total)
  /\ fate \in Fates
  /\ Folding => Abreast
  /\ fate = <<"Done">> => walk = total
  /\ fate = <<"Torn">> => walk # total

LEMMA FatesDiffer ==
  /\ <<"Measured">> # <<"Folding">> /\ <<"Measured">> # <<"Done">>
  /\ <<"Measured">> # <<"Torn">> /\ <<"Measured">> # <<"Source">>
  /\ <<"Folding">> # <<"Done">> /\ <<"Folding">> # <<"Torn">>
  /\ <<"Folding">> # <<"Source">> /\ <<"Done">> # <<"Torn">>
  /\ <<"Done">> # <<"Source">> /\ <<"Torn">> # <<"Source">>
OBVIOUS

\* A step that leaves the script alone owes the invariant only its own fate.
LEMMA ToFolding ==
  ASSUME FoldInv, UNCHANGED <<script, total>>, fate' = <<"Folding">>, Abreast'
  PROVE  FoldInv'
BY FatesDiffer DEF FoldInv, Fates

LEMMA ToDone ==
  ASSUME FoldInv, UNCHANGED <<script, total>>, fate' = <<"Done">>, walk' = total
  PROVE  FoldInv'
<1>1. ~Folding' BY FatesDiffer DEF Folding
<1> QED BY <1>1, FatesDiffer DEF FoldInv, Fates

LEMMA ToTorn ==
  ASSUME FoldInv, UNCHANGED <<script, total>>, fate' = <<"Torn">>, walk' # total
  PROVE  FoldInv'
<1>1. ~Folding' BY FatesDiffer DEF Folding
<1> QED BY <1>1, FatesDiffer DEF FoldInv, Fates

LEMMA ToSource ==
  ASSUME FoldInv, UNCHANGED <<script, total>>, fate' = <<"Source">> PROVE FoldInv'
<1>1. ~Folding' BY FatesDiffer DEF Folding
<1> QED BY <1>1, FatesDiffer DEF FoldInv, Fates

LEMMA FoldInitInv == FoldInit => FoldInv
BY FatesDiffer DEF FoldInit, FoldInv, Folding, Fates

\* A walk rewinds to zero, behind every step.
LEMMA RewindsKeeps == FoldInv /\ Rewinds => FoldInv'
<1> SUFFICES ASSUME FoldInv, Rewinds PROVE FoldInv'
  OBVIOUS
<1>1. /\ off' = 0 /\ step' = 1 /\ fate' = <<"Folding">> /\ script' = script /\ total' = total
      /\ \E d \in Drifts : total + d >= 0 /\ walk' = total + d
  BY DEF Rewinds
<1>2. WellFormed(script, total) BY DEF FoldInv
<1>3. total \in Nat /\ Len(script.steps) \in Nat BY <1>2 DEF WellFormed
<1>4. walk' \in Nat BY <1>1, <1>3, DriftsAssumption
<1>5. \A k \in Moves(script) : k \in Int /\ k >= 1 /\ Until(script, k) \in Int /\ 0 < Until(script, k)
  BY <1>2 DEF WellFormed, Moves
<1>6. \A k \in Moves(script) : IF k < 1 THEN Until(script, k) <= 0 ELSE 0 < Until(script, k)
  BY <1>5
<1>7. Abreast' BY <1>1, <1>3, <1>4, <1>6 DEF Abreast
<1> QED BY <1>1, <1>7, ToFolding

\* A tear is reported where the walk is shorter than an extent of the script.
LEMMA TornKeeps ==
  ASSUME FoldInv, Torn, walk # total PROVE FoldInv'
BY ToTorn DEF Torn

\* The pump moves inside or to the end of the step it serves.
LEMMA MovingKeeps ==
  ASSUME FoldInv, Folding, NEW k \in Moves(script), step = k,
         off' \in Nat, off <= off', off' <= walk, off' <= Until(script, k),
         step' = IF off' = Until(script, k) THEN k + 1 ELSE k,
         UNCHANGED <<script, total, walk, fate>>
  PROVE  FoldInv'
<1>1. WellFormed(script, total) BY SMTT(60) DEF FoldInv
<1>2. Abreast BY DEF FoldInv
<1>3. Until(script, k) \in 1..total /\ total \in Nat /\ k \in Nat BY <1>1 DEF WellFormed, Moves
<1>4. \A j \in Moves(script) : j \in Nat /\ Until(script, j) \in Int
  BY <1>1 DEF WellFormed, Moves
<1>5. \A j \in Moves(script) : IF j < step' THEN Until(script, j) <= off'
                                              ELSE off' < Until(script, j)
  <2> SUFFICES ASSUME NEW j \in Moves(script)
               PROVE IF j < step' THEN Until(script, j) <= off' ELSE off' < Until(script, j)
    OBVIOUS
  <2>1. CASE j < k
    <3>1. Until(script, j) <= off /\ off \in Nat BY <1>2, <2>1 DEF Abreast
    <3> QED BY <2>1, <3>1, <1>3, <1>4
  <2>2. CASE j = k BY <2>2, <1>3, <1>4
  <2>3. CASE j > k
    <3>1. Until(script, k) < Until(script, j) BY <2>3, <1>1 DEF WellFormed
    <3> QED BY <2>3, <3>1, <1>3, <1>4
  <2> QED BY <2>1, <2>2, <2>3, <1>3, <1>4
<1>6. Abreast'
  <2>1. Len(script.steps) \in Nat /\ k \in 1..Len(script.steps) BY <1>1 DEF WellFormed, Moves
  <2>2. step' \in 1..Len(script.steps) + 1 BY <2>1
  <2>3. off' <= total' BY <1>3
  <2>4. walk' \in Nat /\ off' <= walk' BY <1>2 DEF Abreast
  <2> QED BY <1>5, <2>2, <2>3, <2>4 DEF Abreast
<1> QED BY <1>6, ToFolding DEF Folding

LEMMA CopyViewKeeps == FoldInv /\ CopyView => FoldInv'
<1> SUFFICES ASSUME FoldInv, CopyView PROVE FoldInv'
  OBVIOUS
<1>1. PICK k \in Moves(script) :
        /\ Serves(k) /\ off < walk
        /\ \E n \in 1..Until(script, k) - off :
             /\ off + n <= walk /\ off' = off + n
             /\ step' = IF off + n = Until(script, k) THEN k + 1 ELSE k
        /\ UNCHANGED <<script, total, walk, fate>>
  BY DEF CopyView
<1>2. PICK n \in 1..Until(script, k) - off :
        /\ off + n <= walk /\ off' = off + n
        /\ step' = IF off + n = Until(script, k) THEN k + 1 ELSE k
  BY <1>1
<1>3. off \in Nat /\ walk \in Nat /\ Until(script, k) \in Int
  BY <1>1 DEF Serves, FoldInv, Abreast, WellFormed
<1>4. /\ off' \in Nat /\ off <= off' /\ off' <= walk /\ off' <= Until(script, k)
      /\ step' = IF off' = Until(script, k) THEN k + 1 ELSE k
  BY <1>2, <1>3
<1> QED BY <1>1, <1>4, MovingKeeps DEF Serves

LEMMA SeekKeeps == FoldInv /\ Seek => FoldInv'
<1> SUFFICES ASSUME FoldInv, Seek PROVE FoldInv'
  OBVIOUS
<1>1. PICK k \in Moves(script) :
        /\ Serves(k)
        /\ IF Until(script, k) > walk THEN Torn
           ELSE /\ off' = Until(script, k) /\ step' = k + 1
                /\ UNCHANGED <<script, total, walk, fate>>
  BY DEF Seek
<1>2. /\ off \in Nat /\ walk \in Nat /\ total \in Nat
      /\ Until(script, k) \in 1..total /\ off <= Until(script, k)
  BY <1>1 DEF Serves, FoldInv, Abreast, WellFormed, Moves
<1>3. CASE Until(script, k) > walk BY <1>1, <1>2, <1>3, TornKeeps
<1>4. CASE ~(Until(script, k) > walk)
  <2>1. off' \in Nat /\ off <= off' /\ off' <= walk /\ off' <= Until(script, k)
    BY <1>1, <1>2, <1>4
  <2> QED BY <1>1, <1>4, <2>1, MovingKeeps DEF Serves
<1> QED BY <1>3, <1>4

LEMMA CopyFallsShortKeeps == FoldInv /\ CopyFallsShort => FoldInv'
<1> SUFFICES ASSUME FoldInv, CopyFallsShort PROVE FoldInv'
  OBVIOUS
<1>1. PICK k \in Moves(script) : Serves(k) /\ off = walk /\ Torn BY DEF CopyFallsShort
<1>2. off \in Nat /\ off < Until(script, k) /\ total \in Nat /\ Until(script, k) \in 1..total
  BY SMTT(60), <1>1 DEF Serves, FoldInv, Abreast, WellFormed, Moves
<1> QED BY <1>1, <1>2, TornKeeps

LEMMA EmitKeeps == FoldInv /\ Emit => FoldInv'
<1> SUFFICES ASSUME FoldInv, Emit PROVE FoldInv'
  OBVIOUS
<1>1. PICK k \in (1..Len(script.steps)) \ Moves(script) :
        Serves(k) /\ step' = k + 1 /\ UNCHANGED <<script, total, walk, off, fate>>
  BY DEF Emit
<1>2. Abreast /\ Len(script.steps) \in Nat BY <1>1 DEF FoldInv, Serves, WellFormed
<1>3. k = step /\ k \in 1..Len(script.steps) BY <1>1 DEF Serves
<1>4. Abreast'
  <2>1. step \in Nat /\ step' = step + 1 /\ step' \in 1..Len(script.steps) + 1
    BY <1>1, <1>2, <1>3
  <2>2. \A j \in Moves(script) : j \in Nat /\ j # step BY <1>1, <1>3 DEF Moves
  <2>3. \A j \in Moves(script) : j < step' <=> j < step BY <2>1, <2>2
  <2>4. \A j \in Moves(script) : IF j < step' THEN Until(script, j) <= off
                                               ELSE off < Until(script, j)
    BY <1>2, <2>3 DEF Abreast
  <2>5. off \in Nat /\ walk \in Nat /\ off <= walk /\ off <= total BY <1>2 DEF Abreast
  <2> QED BY <1>1, <2>1, <2>4, <2>5 DEF Abreast
<1> QED BY <1>1, <1>4, ToFolding DEF Serves, Folding

\* Behind the last step the pump stands at the measured total.
LEMMA ProbeKeeps == FoldInv /\ Probe => FoldInv'
<1> SUFFICES ASSUME FoldInv, Probe PROVE FoldInv'
  OBVIOUS
<1>1. Abreast /\ step = Len(script.steps) + 1 /\ WellFormed(script, total)
  BY DEF Probe, FoldInv
<1>2. off = total
  <2>1. off \in Nat /\ total \in Nat /\ off <= total BY <1>1 DEF Abreast, WellFormed
  <2>2. CASE total = 0 BY <2>1, <2>2
  <2>3. CASE total # 0
    <3>1. PICK k \in Moves(script) : Until(script, k) = total BY <1>1, <2>3 DEF WellFormed
    <3>2. k < step BY <1>1, <3>1 DEF Moves, WellFormed
    <3> QED BY <1>1, <2>1, <3>1, <3>2 DEF Abreast
  <2> QED BY <2>2, <2>3
<1>3. off \in Nat /\ walk \in Nat /\ off <= walk BY <1>1 DEF Abreast
<1>4. CASE off < walk BY <1>2, <1>3, <1>4, TornKeeps DEF Probe
<1>5. CASE ~(off < walk)
  <2>1. walk = total BY <1>2, <1>3, <1>5
  <2>2. fate' = <<"Done">> /\ UNCHANGED <<script, total, walk, off, step, handed>>
    BY <1>5 DEF Probe
  <2> QED BY <2>1, <2>2, ToDone
<1> QED BY <1>4, <1>5

LEMMA SourceRefusesKeeps == FoldInv /\ SourceRefuses => FoldInv'
BY ToSource DEF SourceRefuses

LEMMA StutterKeeps == FoldInv /\ UNCHANGED foldVars => FoldInv'
<1> SUFFICES ASSUME FoldInv, UNCHANGED foldVars PROVE FoldInv'
  OBVIOUS
<1>1. /\ script' = script /\ total' = total /\ walk' = walk
      /\ off' = off /\ step' = step /\ fate' = fate
  BY DEF foldVars
<1>2. Abreast => Abreast' BY <1>1 DEF Abreast
<1> QED BY <1>1, <1>2 DEF FoldInv, Folding

----------------------------------------------------------------------------
(* Each action of the walk.                                                *)

\* The job is not begun, measured, folded, or given up.
GivenUp == fate[1] \in {"Document", "Source"}
ReplayInv ==
  /\ job \in Jobs
  /\ \/ NoReplay
     \/ Measuring /\ MeasureInv
     \/ FoldInv
     \/ GivenUp

LEMMA BreaksGiveUp ==
  ASSUME job \in Jobs, job' = job, NEW kind, NEW at, NEW stack, Breaks(kind, at, stack)
  PROVE  ReplayInv'
<1>1. fate'[1] = "Document"
  BY DEF Breaks, Arbitrated
<1> QED
  BY <1>1 DEF ReplayInv, GivenUp

LEMMA GoesOn ==
  ASSUME job \in Jobs, job' = job, Measuring, fate' = fate, MeasureInv'
  PROVE  ReplayInv'
BY DEF ReplayInv, Measuring

LEMMA PartsInOrder ==
  ASSUME NEW from \in Nat, NEW tag \in Nat, NEW prefix \in Nat, NEW width \in Nat, tag > 0,
         tag + prefix <= width
  PROVE  /\ from + tag \in Nat /\ from + tag + prefix \in Nat /\ from + width \in Nat
         /\ from < from + tag /\ from + tag <= from + tag + prefix
         /\ from + tag + prefix <= from + width
         /\ prefix > 0 => from + tag < from + tag + prefix
OBVIOUS

LEMMA InteriorFills ==
  ASSUME NEW from \in Nat, NEW tag \in Nat, NEW prefix \in Nat, NEW body \in Nat
  PROVE  from + tag + prefix + body = from + (tag + prefix + body)
OBVIOUS

\* The parts of the record met stand in their order.
LEMMA WordsInOrder ==
  ASSUME MeasureInv, job \in Jobs, Reads
  PROVE  /\ off \in Nat /\ TagEnd \in Nat /\ PayloadAt \in Nat /\ MetEnd \in Nat
         /\ off < TagEnd /\ TagEnd <= PayloadAt /\ PayloadAt <= MetEnd
         /\ Met.kind = "Len" => TagEnd < PayloadAt /\ PayloadAt + Widths(Met.body) = MetEnd
                                /\ Met.body \in Seq(Entries)
         /\ Met.kind \in {"Enter", "Exit"} => MetEnd = TagEnd
         /\ Tail(rest) \in Seq(Entries) /\ MetEnd + Widths(Tail(rest)) = Bound(zone)
<1>1. /\ Met \in Entries /\ Tail(rest) \in Seq(Entries)
      /\ off + Met.width + Widths(Tail(rest)) = Bound(zone) /\ Widths(Tail(rest)) \in Nat
  BY MetIs DEF Reads
<1>2. off \in Nat
  BY DEF MeasureInv
<1>3. /\ Met.tag \in Nat /\ Met.prefix \in Nat /\ Met.width \in Nat
      /\ Met.tag > 0 /\ Met.tag + Met.prefix <= Met.width
      /\ Met.kind \in {"Enter", "Exit"} => Met.width = Met.tag
      /\ Met.kind = "Len" => /\ Met.prefix > 0 /\ Met.body \in Seq(Entries)
                             /\ Met.tag + Met.prefix + Widths(Met.body) = Met.width
  BY <1>1, EntryIs DEF Reads
<1>4. Met.kind = "Len" => Widths(Met.body) \in Nat
  BY <1>3, EntriesTake
<1>5. /\ TagEnd = off + Met.tag /\ PayloadAt = TagEnd + Met.prefix
      /\ MetEnd = off + Met.width
  BY DEF TagEnd, PayloadAt, MetEnd
<1>6. /\ TagEnd \in Nat /\ PayloadAt \in Nat /\ MetEnd \in Nat
      /\ off < TagEnd /\ TagEnd <= PayloadAt /\ PayloadAt <= MetEnd
  BY <1>2, <1>3, <1>5, PartsInOrder
<1>7. MetEnd + Widths(Tail(rest)) = Bound(zone)
  BY <1>1, <1>5
<1>8. Met.kind = "Len" => /\ TagEnd < PayloadAt /\ Met.body \in Seq(Entries)
                          /\ PayloadAt + Widths(Met.body) = MetEnd
  <2> SUFFICES ASSUME Met.kind = "Len"
               PROVE  /\ TagEnd < PayloadAt /\ Met.body \in Seq(Entries)
                      /\ PayloadAt + Widths(Met.body) = MetEnd
    OBVIOUS
  <2>1. TagEnd < PayloadAt /\ Met.body \in Seq(Entries)
    BY <1>2, <1>3, <1>5, PartsInOrder
  <2>2. /\ off + Met.tag + Met.prefix + Widths(Met.body)
           = off + (Met.tag + Met.prefix + Widths(Met.body))
        /\ Met.tag + Met.prefix + Widths(Met.body) = Met.width
    BY <1>2, <1>3, <1>4, InteriorFills
  <2>3. PayloadAt + Widths(Met.body) = MetEnd
    BY <1>5, <2>2
  <2> QED
    BY <2>1, <2>3
<1>9. Met.kind \in {"Enter", "Exit"} => MetEnd = TagEnd
  BY <1>3, <1>5
<1> QED
  BY <1>1, <1>2, <1>6, <1>7, <1>8, <1>9

LEMMA SilentIs ==
  ASSUME MeasureInv
  PROVE  /\ silent \in Nat /\ Sound(script) /\ script.cursor \in Nat /\ script.cursor <= off
         /\ silent = 0 => script.cursor = off
BY DEF MeasureInv, Vanishing, Booked, Sound, WellFormed

LEMMA GroupOpensKeeps ==
  ASSUME MeasureInv, Measuring, job \in Jobs, job' = job, GroupOpens
  PROVE  ReplayInv'
<1>1. Reads /\ Reading /\ Met.kind = "Enter"
  BY DEF GroupOpens, Reads
<1>2. off \in Nat /\ TagEnd \in Nat /\ off <= TagEnd
  BY <1>1, WordsInOrder
<1>3. /\ silent \in Nat /\ Sound(script) /\ script.cursor \in Nat /\ script.cursor <= TagEnd
      /\ ~(silent > 0) => silent = 0 /\ script.cursor = off
  BY <1>2, SilentIs
<1>4. \/ Breaks("Conflict", off, frames) \/ Breaks("KindMismatch", off, frames)
      \/ Breaks("Depth", off, frames)
      \/ OpenGroup("Vanish", script, receipt)
      \/ OpenGroup("Vanish", script, Noted("deleted"))
      \/ ~(silent > 0) /\ OpenGroup("Normal",
                                    Stage(SkipTo(script, TagEnd), <<TagToken(Met.field, "Group")>>),
                                    Noted("normalized"))
      \/ ~(silent > 0) /\ OpenGroup("Group", CopyTo(script, TagEnd), receipt)
  BY Zenon DEF GroupOpens
<1>5. CASE \/ Breaks("Conflict", off, frames) \/ Breaks("KindMismatch", off, frames)
           \/ Breaks("Depth", off, frames)
  BY <1>5, BreaksGiveUp
<1>6. CASE OpenGroup("Vanish", script, receipt) \/ OpenGroup("Vanish", script, Noted("deleted"))
  <2>1. MeasureInv'
    BY <1>1, <1>3, <1>6, OpenGroupKeeps
  <2>2. fate' = fate
    BY <1>6 DEF OpenGroup
  <2> QED
    BY <2>1, <2>2, GoesOn
<1>7. CASE ~(silent > 0) /\ OpenGroup("Normal",
                                      Stage(SkipTo(script, TagEnd), <<TagToken(Met.field, "Group")>>),
                                      Noted("normalized"))
  <2> DEFINE s == Stage(SkipTo(script, TagEnd), <<TagToken(Met.field, "Group")>>)
  <2>1. Sound(s) /\ s.cursor = TagEnd
    BY <1>2, <1>3, SkipToIsSound, StageIsSound
  <2>2. OpenGroup("Normal", s, Noted("normalized")) /\ silent = 0
    BY <1>3, <1>7
  <2> HIDE DEF s
  <2>3. MeasureInv'
    BY <1>1, <1>2, <2>1, <2>2, OpenGroupKeeps
  <2>4. fate' = fate
    BY <2>2 DEF OpenGroup
  <2> QED
    BY <2>3, <2>4, GoesOn
<1>8. CASE ~(silent > 0) /\ OpenGroup("Group", CopyTo(script, TagEnd), receipt)
  <2> DEFINE s == CopyTo(script, TagEnd)
  <2>1. Sound(s) /\ s.cursor = TagEnd
    BY <1>2, <1>3, CopyToIsSound
  <2>2. OpenGroup("Group", s, receipt) /\ silent = 0
    BY <1>3, <1>8
  <2> HIDE DEF s
  <2>3. MeasureInv'
    BY <1>1, <1>2, <2>1, <2>2, OpenGroupKeeps
  <2>4. fate' = fate
    BY <2>2 DEF OpenGroup
  <2> QED
    BY <2>3, <2>4, GoesOn
<1> QED
  BY <1>4, <1>5, <1>6, <1>7, <1>8

LEMMA GroupClosesKeeps ==
  ASSUME MeasureInv, Measuring, job \in Jobs, job' = job, GroupCloses
  PROVE  ReplayInv'
<1> DEFINE g == Last(frames)
           skipped == SkipTo(script, TagEnd)
           staged == Stage(skipped, <<TagToken(Met.field, "End")>>)
           copied == CopyTo(script, TagEnd)
           left == IF g.kind = "Vanish" THEN silent - 1 ELSE silent
           s == CASE g.kind = "Vanish" -> IF silent = 1 THEN skipped ELSE script
                  [] g.kind = "Normal" -> staged
                  [] OTHER -> copied
<1>1. Reads /\ Reading /\ Met.kind = "Exit"
  BY SMTT(60) DEF GroupCloses, Reads
<1>2. /\ off \in Nat /\ TagEnd \in Nat /\ off <= TagEnd
      /\ Tail(rest) \in Seq(Entries) /\ TagEnd + Widths(Tail(rest)) = Bound(zone)
  BY <1>1, WordsInOrder
<1>3. /\ silent \in Nat /\ Sound(script) /\ script.cursor \in Nat /\ script.cursor <= TagEnd
      /\ silent = 0 => script.cursor = off
  BY <1>2, SilentIs
<1>4. CASE frames = <<>> \/ g.kind = "Len" \/ g.field # Met.field
  <2>1. Breaks("Grouping", off, frames)
    BY <1>4 DEF GroupCloses
  <2> QED
    BY <2>1, BreaksGiveUp
<1>5. CASE ~(frames = <<>> \/ g.kind = "Len" \/ g.field # Met.field)
  <2>1. /\ frames' = Front(frames) /\ off' = TagEnd /\ rest' = Tail(rest) /\ zone' = zone
        /\ silent' = left /\ script' = s /\ fate' = fate
    BY <1>5 DEF GroupCloses
  <2>2. /\ IsSeq(Front(frames)) /\ Framed(Front(frames))
        /\ Len(Front(frames)) = Len(frames) - 1
        /\ ZoneOf(Front(frames), Len(frames) - 1, zone)
    BY <1>5, PopFrame DEF MeasureInv
  <2>3. /\ Vanishing(Front(frames), left)
        /\ g.kind = "Vanish" => silent \in Nat \ {0}
        /\ g.kind # "Vanish" => silent = 0
    <3>1. CASE g.kind = "Vanish"
      BY <1>5, <3>1, PopVanishing DEF MeasureInv
    <3>2. CASE g.kind # "Vanish"
      <4>1. silent = 0 /\ Vanishing(Front(frames), 0)
        BY <1>5, <3>2, PopVanishing DEF MeasureInv
      <4> QED
        BY <3>2, <4>1
    <3> QED
      BY <3>1, <3>2
  <2>4. /\ Sound(skipped) /\ skipped.cursor = TagEnd
        /\ Sound(staged) /\ staged.cursor = TagEnd
        /\ Sound(copied) /\ copied.cursor = TagEnd
    BY <1>2, <1>3, SkipToIsSound, StageIsSound, CopyToIsSound
  <2> HIDE DEF skipped, staged, copied
  <2>5. Sound(s) /\ s.cursor <= TagEnd /\ (left = 0 => s.cursor = TagEnd)
    <3>1. CASE g.kind = "Vanish"
      <4>1. s = IF silent = 1 THEN skipped ELSE script
        BY <3>1
      <4>2. left = silent - 1 /\ silent \in Nat \ {0}
        BY <2>3, <3>1
      <4> QED
        BY SMTT(60), <1>2, <1>3, <2>4, <4>1, <4>2
    <3>2. CASE g.kind # "Vanish"
      BY <1>2, <2>4, <3>2
    <3> QED
      BY <3>1, <3>2
  <2> HIDE DEF s, left, g
  <2>6. MeasureInv'
    BY <1>2, <2>1, <2>2, <2>3, <2>5, Restored
  <2> QED
    BY <2>1, <2>6, GoesOn
<1> QED
  BY <1>4, <1>5

LEMMA CloseFrameKeeps ==
  ASSUME MeasureInv, Measuring, job \in Jobs, job' = job, CloseFrame
  PROVE  ReplayInv'
<1> DEFINE g == Last(frames)
           interior == script.outLen - g.mark
           s == SettlePrefix(script, g.slot, interior = g.declared, <<PrefixToken(interior)>>)
<1>1. off \in Nat /\ off = zone /\ zone # None
  BY SourcesAssumption DEF CloseFrame, MeasureInv
<1>2. frames # <<>>
  BY <1>1, EmptySeq DEF MeasureInv, ZoneOf
<1>3. CASE g.kind # "Len"
  <2>1. Breaks("Grouping", off, Front(frames))
    BY <1>3 DEF CloseFrame
  <2> QED
    BY <2>1, BreaksGiveUp
<1>4. CASE g.kind = "Len" /\ interior # g.declared /\ interior > LenMax
  <2>1. Breaks("Growth", g.head, Front(frames))
    BY <1>4 DEF CloseFrame
  <2> QED
    BY <2>1, BreaksGiveUp
<1>5. CASE g.kind = "Len" /\ ~(interior # g.declared /\ interior > LenMax)
  <2>1. /\ frames' = Front(frames) /\ off' = off /\ rest' = g.beyond /\ zone' = g.prevZone
        /\ silent' = silent /\ script' = s /\ fate' = fate
    BY <1>5 DEF CloseFrame
  <2>2. /\ IsSeq(Front(frames)) /\ Framed(Front(frames))
        /\ Len(Front(frames)) = Len(frames) - 1
        /\ ZoneOf(Front(frames), Len(frames) - 1, g.prevZone)
        /\ zone = g.end /\ g.beyond \in Seq(Entries)
        /\ g.end + Widths(g.beyond) = Bound(g.prevZone)
    BY <1>2, <1>5, PopFrame DEF MeasureInv
  <2>3. silent = 0 /\ Vanishing(Front(frames), 0)
    BY <1>2, <1>5, PopVanishing DEF MeasureInv
  <2>4. Sound(script) /\ script.cursor = off
    BY <2>3, SilentIs
  <2>5. Sound(s) /\ s.cursor = off
    BY <2>4, SettleIsSound
  <2> HIDE DEF s, g
  <2>6. s.cursor <= off' /\ off' + Widths(rest') = Bound(zone')
    BY <1>1, <2>1, <2>2, <2>5
  <2>7. MeasureInv'
    BY <1>1, <2>1, <2>2, <2>3, <2>5, <2>6, Restored
  <2> QED
    BY <2>1, <2>7, GoesOn
<1> QED
  BY <1>3, <1>4, <1>5
\* A source that ends at the root ends the script there.
LEMMA SourceEndsKeeps ==
  ASSUME MeasureInv, Measuring, job \in Jobs, job' = job, SourceEnds
  PROVE  ReplayInv'
<1>1. CASE frames # <<>>
  <2>1. \/ Breaks("Truncated", off, frames) \/ Breaks("Grouping", off, frames)
    BY <1>1 DEF SourceEnds
  <2> QED
    BY <2>1, BreaksGiveUp
<1>2. CASE frames = <<>>
  <2>1. Len(frames) = 0
    BY <1>2, EmptySeq
  <2>2. silent = 0
    BY <2>1 DEF MeasureInv, Vanishing
  <2>3. Sound(script) /\ script.cursor = off
    BY <2>2, SilentIs
  <2>4. WellFormed(script, off)
    BY <2>3 DEF Sound
  <2>5. script' = script /\ total' = off /\ fate' = <<"Measured">>
    BY <1>2 DEF SourceEnds
  <2>6. WellFormed(script', total')
    BY <2>4, <2>5
  <2>7. FoldInv'
    BY <2>5, <2>6, FatesDiffer DEF FoldInv, Fates, Folding
  <2> QED
    BY <2>7 DEF ReplayInv
<1> QED
  BY <1>1, <1>2

\* A rule's record: what is dropped, authored or kept ends where it ends.
LEMMA TakesKeep ==
  ASSUME MeasureInv, Measuring, job \in Jobs, job' = job, Reads, silent = 0, NEW id, Takes(id)
  PROVE  ReplayInv'
<1>1. /\ off \in Nat /\ TagEnd \in Nat /\ PayloadAt \in Nat /\ MetEnd \in Nat
      /\ off <= TagEnd /\ TagEnd <= PayloadAt /\ PayloadAt <= MetEnd
      /\ off <= PayloadAt /\ off <= MetEnd /\ TagEnd <= MetEnd
  BY WordsInOrder
<1>2. Sound(script) /\ script.cursor = off
  BY SilentIs
<1>3. ASSUME NEW s, NEW r, Books(s, r), Sound(s), s.cursor = MetEnd
      PROVE  ReplayInv'
  <2>1. MeasureInv'
    BY <1>1, <1>3, BooksKeep DEF Reads
  <2>2. fate' = fate
    BY <1>3 DEF Books
  <2> QED
    BY <2>1, <2>2, GoesOn
<1>4. Sound(SkipTo(script, MetEnd)) /\ SkipTo(script, MetEnd).cursor = MetEnd
  BY <1>1, <1>2, SkipToIsSound
<1>5. Sound(Replaced(id)) /\ Replaced(id).cursor = MetEnd
  <2> DEFINE kept == CopyTo(script, TagEnd)
             sought == SkipTo(kept, MetEnd)
             value == ValueTokens(id)
             prefixed == Stage(sought, <<value[1]>>)
             borrowed == Borrow(prefixed, <<value[2]>>)
             staged == Stage(sought, value)
  <2>1. Sound(kept) /\ kept.cursor = TagEnd
    BY <1>1, <1>2, CopyToIsSound
  <2>2. Sound(sought) /\ sought.cursor = MetEnd
    BY <1>1, <2>1, SkipToIsSound
  <2>3. Sound(prefixed) /\ prefixed.cursor = MetEnd
    BY <2>2, StageIsSound
  <2>4. Sound(borrowed) /\ borrowed.cursor = MetEnd
    BY <2>3, BorrowIsSound
  <2>5. Sound(staged) /\ staged.cursor = MetEnd
    BY <2>2, StageIsSound
  <2>6. Replaced(id) = IF Met.kind = "Len" THEN borrowed ELSE staged
    BY DEF Replaced
  <2> HIDE DEF borrowed, staged
  <2> QED
    BY <2>4, <2>5, <2>6
<1>6. Sound(Normalized) /\ Normalized.cursor = MetEnd
  <2> DEFINE tag == TagToken(Met.field, Met.kind)
             word == <<tag, <<"Minimal", off, Met.min>>>>
             words == <<tag, PrefixToken(MetEnd - PayloadAt)>>
             dropped == SkipTo(script, MetEnd)
             minimal == Stage(dropped, word)
             headless == SkipTo(script, PayloadAt)
             prefixed == Stage(headless, words)
             payload == CopyTo(prefixed, MetEnd)
             untagged == SkipTo(script, TagEnd)
             tagged == Stage(untagged, <<tag>>)
             kept == CopyTo(tagged, MetEnd)
  <2>1. Sound(minimal) /\ minimal.cursor = MetEnd
    BY <1>4, StageIsSound
  <2>2. Sound(headless) /\ headless.cursor = PayloadAt
    BY <1>1, <1>2, SkipToIsSound
  <2>3. Sound(prefixed) /\ prefixed.cursor = PayloadAt
    BY <2>2, StageIsSound
  <2>4. Sound(payload) /\ payload.cursor = MetEnd
    BY <1>1, <2>3, CopyToIsSound
  <2>5. Sound(untagged) /\ untagged.cursor = TagEnd
    BY <1>1, <1>2, SkipToIsSound
  <2>6. Sound(tagged) /\ tagged.cursor = TagEnd
    BY <2>5, StageIsSound
  <2>7. Sound(kept) /\ kept.cursor = MetEnd
    BY <1>1, <2>6, CopyToIsSound
  <2>8. Normalized = CASE Met.kind = "Varint" -> minimal
                       [] Met.kind = "Len" -> payload
                       [] OTHER -> kept
    BY DEF Normalized
  <2> HIDE DEF minimal, payload, kept
  <2> QED
    BY <2>1, <2>4, <2>7, <2>8
<1>7. \/ Breaks("KindMismatch", off, frames) \/ Breaks("Truncated", off, frames)
      \/ Books(SkipTo(script, MetEnd), Noted("deleted"))
      \/ Books(Replaced(id), Noted("replaced"))
      \/ Books(Normalized, Noted("normalized"))
  BY DEF Takes
<1>8. CASE Breaks("KindMismatch", off, frames) \/ Breaks("Truncated", off, frames)
  BY <1>8, BreaksGiveUp
<1>9. CASE Books(SkipTo(script, MetEnd), Noted("deleted"))
  BY <1>3, <1>4, <1>9
<1>10. CASE Books(Replaced(id), Noted("replaced"))
  BY <1>3, <1>5, <1>10
<1>11. CASE Books(Normalized, Noted("normalized"))
  BY <1>3, <1>6, <1>11
<1> QED
  BY <1>7, <1>8, <1>9, <1>10, <1>11

\* A record of no rule is copied whole, and below a deletion left to it.
LEMMA CopiedKeeps ==
  ASSUME MeasureInv, Measuring, job \in Jobs, job' = job, Reads,
         \/ silent > 0 /\ Passes
         \/ ~(silent > 0) /\ Books(CopyTo(script, MetEnd), receipt)
  PROVE  ReplayInv'
<1>1. off \in Nat /\ MetEnd \in Nat /\ off <= MetEnd
  BY WordsInOrder
<1>2. /\ silent \in Nat /\ Sound(script) /\ script.cursor \in Nat /\ script.cursor <= MetEnd
      /\ ~(silent > 0) => silent = 0 /\ script.cursor = off
  BY <1>1, SilentIs
<1>3. PICK s, r : Books(s, r) /\ Sound(s) /\ s.cursor <= MetEnd /\ (silent = 0 => s.cursor = MetEnd)
  <2>1. CASE silent > 0 /\ Passes
    <3>1. Books(script, receipt) /\ silent # 0
      BY <1>2, <2>1 DEF Passes
    <3> QED
      BY <1>2, <3>1
  <2>2. CASE ~(silent > 0) /\ Books(CopyTo(script, MetEnd), receipt)
    <3> DEFINE s == CopyTo(script, MetEnd)
    <3>1. Sound(s) /\ s.cursor = MetEnd
      BY <1>1, <1>2, <2>2, CopyToIsSound
    <3>2. Books(s, receipt)
      BY <2>2
    <3> HIDE DEF s
    <3>3. s.cursor <= MetEnd
      BY <1>1, <3>1
    <3> QED
      BY <3>1, <3>2, <3>3
  <2> QED
    BY <2>1, <2>2
<1>4. MeasureInv'
  BY <1>3, BooksKeep DEF Reads
<1>5. fate' = fate
  BY <1>3 DEF Books
<1> QED
  BY <1>4, <1>5, GoesOn

LEMMA ScalarRecordKeeps ==
  ASSUME MeasureInv, Measuring, job \in Jobs, job' = job, ScalarRecord
  PROVE  ReplayInv'
<1>1. Reads
  BY DEF ScalarRecord
<1>2. ~(silent > 0) => silent = 0
  BY SilentIs
<1>3. \/ Breaks("Truncated", off, frames) \/ Breaks("Conflict", off, frames)
      \/ silent > 0 /\ Passes
      \/ ~(silent > 0) /\ Takes(HitsAt(Met.field)[1])
      \/ ~(silent > 0) /\ Books(CopyTo(script, MetEnd), receipt)
  BY Zenon DEF ScalarRecord
<1>4. CASE Breaks("Truncated", off, frames) \/ Breaks("Conflict", off, frames)
  BY <1>4, BreaksGiveUp
<1>5. CASE \/ silent > 0 /\ Passes
           \/ ~(silent > 0) /\ Books(CopyTo(script, MetEnd), receipt)
  BY <1>1, <1>5, CopiedKeeps
<1>6. CASE ~(silent > 0) /\ Takes(HitsAt(Met.field)[1])
  BY <1>1, <1>2, <1>6, TakesKeep
<1> QED
  BY <1>3, <1>4, <1>5, <1>6

\* A LEN is entered behind its prefix, which waits in a slot.
LEMMA CommitsKeeps ==
  ASSUME MeasureInv, Measuring, job \in Jobs, job' = job, Reads, Met.kind = "Len",
         silent = 0, Commits
  PROVE  ReplayInv'
<1> DEFINE kept == CopyTo(script, TagEnd)
           opened == OpenPrefix(kept, PayloadAt)
           g == [kind |-> "Len", field |-> Met.field, head |-> off,
                 slot |-> Len(opened.prefixes), mark |-> opened.outLen,
                 declared |-> MetEnd - PayloadAt, end |-> MetEnd,
                 prevZone |-> zone, beyond |-> Tail(rest)]
           q == Append(frames, g)
<1>1. /\ off \in Nat /\ TagEnd \in Nat /\ PayloadAt \in Nat /\ MetEnd \in Nat
      /\ off <= TagEnd /\ TagEnd < PayloadAt
      /\ PayloadAt + Widths(Met.body) = MetEnd /\ Met.body \in Seq(Entries)
      /\ Tail(rest) \in Seq(Entries) /\ MetEnd + Widths(Tail(rest)) = Bound(zone)
  BY WordsInOrder
<1>2. Sound(script) /\ script.cursor = off
  BY SilentIs
<1>3. Sound(kept) /\ kept.cursor = TagEnd
  BY <1>1, <1>2, CopyToIsSound
<1>4. Sound(opened) /\ opened.cursor = PayloadAt
  BY <1>1, <1>3, OpenPrefixIsSound
<1>5. /\ script' = opened /\ frames' = q /\ zone' = MetEnd /\ off' = PayloadAt
      /\ rest' = Met.body /\ silent' = silent /\ fate' = fate
  BY DEF Commits
<1>6. g.kind = "Len" /\ g.end = MetEnd /\ g.prevZone = zone /\ g.beyond = Tail(rest)
  OBVIOUS
<1> HIDE DEF opened, kept, g
<1>7. IsSeq(q) /\ Framed(q) /\ ZoneOf(q, Len(frames) + 1, MetEnd) /\ Len(q) = Len(frames) + 1
  BY <1>1, <1>6, PushLen DEF MeasureInv
<1>8. Vanishing(q, silent')
  BY SMTT(60), <1>5, <1>6, PushVanishing DEF MeasureInv
<1> HIDE DEF q
<1>9. MetEnd # None
  BY <1>1, SourcesAssumption
<1>10. off' + Widths(rest') = Bound(zone')
  BY <1>1, <1>5, <1>9 DEF Bound
<1>11. opened.cursor <= off' /\ (silent' = 0 => opened.cursor = off')
  BY <1>1, <1>4, <1>5
<1>12. ZoneOf(q, Len(q), zone')
  BY <1>5, <1>7
<1>13. MeasureInv'
  BY <1>1, <1>4, <1>5, <1>7, <1>8, <1>10, <1>11, <1>12, Restored
<1> QED
  BY <1>5, <1>13, GoesOn

LEMMA LenIsMetKeeps ==
  ASSUME MeasureInv, Measuring, job \in Jobs, job' = job, LenIsMet
  PROVE  ReplayInv'
<1>1. Reads /\ Met.kind = "Len"
  BY DEF LenIsMet
<1>2. ~(silent > 0) => silent = 0
  BY SilentIs
<1>3. \/ Breaks("Truncated", off, frames) \/ Breaks("Conflict", off, frames)
      \/ Breaks("Depth", off, frames)
      \/ silent > 0 /\ Passes
      \/ ~(silent > 0) /\ Takes(HitsAt(Met.field)[1])
      \/ ~(silent > 0) /\ Commits
      \/ ~(silent > 0) /\ Books(CopyTo(script, MetEnd), receipt)
  BY Zenon DEF LenIsMet
<1>4. CASE \/ Breaks("Truncated", off, frames) \/ Breaks("Conflict", off, frames)
           \/ Breaks("Depth", off, frames)
  BY <1>4, BreaksGiveUp
<1>5. CASE \/ silent > 0 /\ Passes
           \/ ~(silent > 0) /\ Books(CopyTo(script, MetEnd), receipt)
  BY <1>1, <1>5, CopiedKeeps
<1>6. CASE ~(silent > 0) /\ Takes(HitsAt(Met.field)[1])
  BY <1>1, <1>2, <1>6, TakesKeep
<1>7. CASE ~(silent > 0) /\ Commits
  BY <1>1, <1>2, <1>7, CommitsKeeps
<1> QED
  BY <1>3, <1>4, <1>5, <1>6, <1>7

LEMMA MeasureKeeps ==
  ASSUME MeasureInv, Measuring, job \in Jobs, job' = job, MeasureNext
  PROVE  ReplayInv'
<1>1. CASE WordBreaks
  <2>1. PICK kind : Breaks(kind, off, frames)
    BY <1>1 DEF WordBreaks
  <2> QED
    BY <2>1, BreaksGiveUp
<1>2. CASE MeasureRefused
  BY <1>2 DEF MeasureRefused, ReplayInv, GivenUp
<1> QED
  BY <1>1, <1>2, CloseFrameKeeps, SourceEndsKeeps, GroupOpensKeeps, GroupClosesKeeps,
     ScalarRecordKeeps, LenIsMetKeeps DEF MeasureNext
----------------------------------------------------------------------------
(* The writer.                                                             *)

\* What the fate says of a step: the walk steps while it measures, the fold
\* behind it.
LEMMA StepsByFate ==
  /\ MeasureNext => Measuring
  /\ FoldNext => fate \in {<<"Measured">>, <<"Folding">>}
<1>1. MeasureNext => Measuring
  BY DEF MeasureNext, CloseFrame, SourceEnds, WordBreaks, GroupOpens, GroupCloses, ScalarRecord,
         LenIsMet, MeasureRefused, Reads, Reading
<1>2. FoldNext => fate \in {<<"Measured">>, <<"Folding">>}
  BY DEF FoldNext, Rewinds, CopyView, CopyFallsShort, Seek, Emit, Probe, SourceRefuses, Serves,
         Folding
<1> QED
  BY <1>1, <1>2

LEMMA FatesApart ==
  /\ Measuring => ~Idle /\ ~FoldInv /\ ~GivenUp /\ fate \notin {<<"Measured">>, <<"Folding">>}
  /\ Idle => ~FoldInv /\ ~GivenUp /\ fate \notin {<<"Measured">>, <<"Folding">>}
  /\ GivenUp => fate \notin {<<"Measured">>, <<"Folding">>}
BY DEF Measuring, Idle, FoldInv, Fates, GivenUp

LEMMA NewIsSound == Sound(NewScript) /\ NewScript.cursor = 0
<1>1. /\ ScriptShape(NewScript) /\ NewScript.steps = <<>> /\ NewScript.prefixes = <<>>
      /\ NewScript.cursor = 0
  BY DEF NewScript, ScriptShape
<1>2. IsSeq(<<>>) /\ Len(<<>>) = 0
  BY EmptySeq, SeqIs DEF IsSeq
<1>3. Moves(NewScript) = {}
  BY <1>1, <1>2 DEF Moves
<1>4. WellFormed(NewScript, 0)
  BY <1>1, <1>2, <1>3 DEF WellFormed
<1> QED
  BY <1>1, <1>2, <1>4 DEF Sound

\* The walk begins with nothing booked before the whole source.
LEMMA BeginKeeps ==
  ASSUME NoReplay, job \in Jobs, job' = job, BeginReplay
  PROVE  ReplayInv'
<1>1. /\ script' = NewScript /\ off' = 0 /\ rest' = job.source /\ frames' = <<>>
      /\ zone' = None /\ silent' = 0 /\ fate' = <<"Measuring">>
  BY DEF BeginReplay, NoReplay
<1>2. job.source \in Seq(Entries) /\ Widths(job.source) \in Nat
  BY SourcesAssumption, EntriesTake
<1>3. IsSeq(<<>>) /\ Len(<<>>) = 0
  BY EmptySeq, SeqIs DEF IsSeq
<1>4. Framed(<<>>) /\ ZoneOf(<<>>, Len(<<>>), None) /\ Vanishing(<<>>, 0)
  BY <1>3 DEF Framed, ZoneOf, Vanishing
<1>5. off' + Widths(rest') = Bound(zone')
  BY <1>1, <1>2 DEF Bound
<1>6. MeasureInv'
  BY <1>1, <1>2, <1>3, <1>4, <1>5, NewIsSound, Restored
<1> QED
  BY <1>1, <1>6 DEF ReplayInv, Measuring

LEMMA StillKeeps ==
  ASSUME ReplayInv, UNCHANGED <<job, replayVars>>
  PROVE  ReplayInv'
<1>1. /\ job' = job /\ script' = script /\ off' = off /\ frames' = frames /\ rest' = rest
      /\ zone' = zone /\ silent' = silent /\ fate' = fate /\ job \in Jobs
  BY DEF replayVars, foldVars, measureVars, ReplayInv
<1>2. CASE NoReplay
  BY <1>1, <1>2 DEF NoReplay, ReplayInv, replayVars, foldVars, measureVars
<1>3. CASE Measuring /\ MeasureInv
  <2>1. /\ off' \in Nat /\ rest' \in Seq(Entries) /\ off' + Widths(rest') = Bound(zone')
        /\ IsSeq(frames) /\ Framed(frames) /\ ZoneOf(frames, Len(frames), zone')
        /\ Vanishing(frames, silent')
    BY <1>1, <1>3 DEF MeasureInv
  <2>2. Sound(script) /\ script.cursor <= off' /\ (silent' = 0 => script.cursor = off')
    BY <1>1, <1>3 DEF MeasureInv, Booked
  <2>3. MeasureInv'
    BY <1>1, <2>1, <2>2, Restored
  <2> QED
    BY <1>1, <1>3, <2>3, GoesOn
<1>4. CASE FoldInv
  <2>1. FoldInv'
    BY <1>4, StutterKeeps DEF replayVars
  <2> QED
    BY <1>1, <2>1 DEF ReplayInv
<1>5. CASE GivenUp
  BY <1>1, <1>5 DEF GivenUp, ReplayInv
<1> QED
  BY <1>2, <1>3, <1>4, <1>5 DEF ReplayInv

LEMMA FoldKeeps == FoldInv /\ FoldNext => FoldInv'
BY RewindsKeeps, CopyViewKeeps, CopyFallsShortKeeps, SeekKeeps, EmitKeeps, ProbeKeeps,
   SourceRefusesKeeps DEF FoldNext

LEMMA ReplayKeeps ==
  ASSUME ReplayInv, [(BeginReplay \/ ReplayNext) /\ UNCHANGED job]_<<job, replayVars>>
  PROVE  ReplayInv'
<1>1. job \in Jobs /\ (NoReplay => Idle)
  BY DEF ReplayInv, NoReplay, Idle
<1>2. CASE BeginReplay /\ job' = job
  <2>1. Idle
    BY <1>2 DEF BeginReplay
  <2>2. NoReplay
    BY <2>1, FatesApart DEF ReplayInv
  <2> QED
    BY <1>1, <1>2, <2>2, BeginKeeps
<1>3. CASE MeasureNext /\ job' = job
  <2>1. Measuring
    BY <1>3, StepsByFate
  <2>2. MeasureInv
    BY <1>1, <2>1, FatesApart DEF ReplayInv
  <2> QED
    BY <1>1, <1>3, <2>1, <2>2, MeasureKeeps
<1>4. CASE FoldNext /\ job' = job
  <2>1. fate \in {<<"Measured">>, <<"Folding">>}
    BY <1>4, StepsByFate
  <2>2. FoldInv
    BY <1>1, <2>1, FatesApart DEF ReplayInv
  <2>3. FoldInv'
    BY <1>4, <2>2, FoldKeeps
  <2> QED
    BY <1>1, <1>4, <2>3 DEF ReplayInv
<1>5. CASE UNCHANGED <<job, replayVars>>
  BY <1>5, StillKeeps
<1> QED
  BY <1>2, <1>3, <1>4, <1>5 DEF ReplayNext

(* The fold alone: whatever a well-formed script copies, drops and emits,    *)
(* and however the source lends its bytes, the fold ends well only against a *)
(* walk of the measured length, and reports a tear only against another      *)
(* (replay_script.rs:760-800).                                               *)
THEOREM FoldReportsTears == FoldSpec => []TearsAreReported
<1>1. FoldInit => FoldInv
  BY FoldInitInv
<1>2. FoldInv /\ [FoldNext]_foldVars => FoldInv'
  BY FoldKeeps, StutterKeeps
<1>3. FoldInv => TearsAreReported
  BY DEF FoldInv, TearsAreReported
<1> QED
  BY <1>1, <1>2, <1>3, PTL DEF FoldSpec

(* The writer whole: whatever the job's rules and source, its supply and the *)
(* depth of its containers, the script one walk compiles is well formed when *)
(* the walk ends (replay_rewrite/grouped.rs, replay_script.rs), so the fold  *)
(* behind it ends well only against a walk of the measured length and        *)
(* reports a tear only against another.                                      *)
THEOREM TearsAlwaysReported == ReplaySpec => []TearsAreReported
<1>1. job \in Jobs /\ NoReplay => ReplayInv
  BY DEF ReplayInv
<1>2. ReplayInv /\ [(BeginReplay \/ ReplayNext) /\ UNCHANGED job]_<<job, replayVars>> => ReplayInv'
  BY ReplayKeeps
<1>3. ReplayInv => TearsAreReported
  <2>1. FoldInv => TearsAreReported
    BY DEF FoldInv, TearsAreReported
  <2>2. NoReplay \/ Measuring \/ GivenUp => TearsAreReported
    BY DEF NoReplay, Measuring, GivenUp, TearsAreReported
  <2> QED
    BY <2>1, <2>2 DEF ReplayInv
<1> QED
  BY <1>1, <1>2, <1>3, PTL DEF ReplaySpec
=============================================================================
