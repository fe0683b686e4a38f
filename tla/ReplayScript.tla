---------------------------- MODULE ReplayScript ----------------------------
(* The edit script the replay writers compile in one walk of their source    *)
(* (replay_script.rs), and the fold that replays it against a second walk:   *)
(* no parse, no judgment, no second plan. The source promises that both      *)
(* walks yield the same bytes; the fold notices only a walk of another       *)
(* length, and the source may refuse at any read.                            *)
(*                                                                           *)
(* A byte of the source is the token of its offset; an authored token is     *)
(* whatever the compiler staged. Steps end at absolute coordinates.          *)
EXTENDS Integers, Sequences, SequencesExt

CONSTANT Drifts   \* by how much the second walk may differ in length

ASSUME DriftsAssumption == Drifts \subseteq Int

VARIABLES script,  \* the steps, the prefix slots, the source cursor, the output length
          total,   \* the length of the measuring walk
          walk,    \* the length of the emission walk
          off,     \* the pump's offset in the running walk
          step,    \* the step the fold serves
          handed,  \* what the sink has received
          fate

foldVars == <<script, total, walk, off, step, handed, fate>>

-----------------------------------------------------------------------------
\* The compiler's bookings. Steps of a kind that meet are merged.
NewScript == [steps |-> <<>>, prefixes |-> <<>>, cursor |-> 0, outLen |-> 0]

MovedTo(s, kind, to) ==
  LET merges == s.steps # <<>> /\ Last(s.steps).kind = kind
      moved == [kind |-> kind, to |-> to]
  IN [s EXCEPT !.cursor = to,
               !.steps = IF merges THEN Append(Front(@), moved) ELSE Append(@, moved)]

CopyTo(s, to) ==
  IF to = s.cursor THEN s
  ELSE [MovedTo(s, "Copy", to) EXCEPT !.outLen = @ + (to - s.cursor)]
SkipTo(s, to) == IF to = s.cursor THEN s ELSE MovedTo(s, "Skip", to)

Width(tokens) == FoldLeft(LAMBDA n, token : n + token[Len(token)], 0, tokens)
Stage(s, tokens) ==
  LET merges == s.steps # <<>> /\ Last(s.steps).kind = "Staged"
      staged(before) == [kind |-> "Staged", tokens |-> before \o tokens]
  IN [s EXCEPT !.outLen = @ + Width(tokens),
               !.steps = IF merges THEN Append(Front(@), staged(Last(@).tokens))
                         ELSE Append(@, staged(<<>>))]
Borrow(s, tokens) ==
  [s EXCEPT !.outLen = @ + Width(tokens),
            !.steps = Append(@, [kind |-> "Borrowed", tokens |-> tokens])]

\* A container's prefix waits in a slot until its interior's length is known.
OpenPrefix(s, end) ==
  [s EXCEPT !.prefixes = Append(@, [start |-> s.cursor, end |-> end, verbatim |-> FALSE,
                                    tokens |-> <<>>]),
            !.steps = Append(@, [kind |-> "Prefix", slot |-> Len(s.prefixes) + 1]),
            !.cursor = end]
SettlePrefix(s, slot, held, tokens) ==
  IF held
  THEN [s EXCEPT !.prefixes[slot].verbatim = TRUE,
                 !.outLen = @ + (s.prefixes[slot].end - s.prefixes[slot].start)]
  ELSE [s EXCEPT !.prefixes[slot].tokens = tokens, !.outLen = @ + Width(tokens)]

-----------------------------------------------------------------------------
\* Where a step leaves the source, and whether it hands the bytes it crosses.
Moves(s) == {k \in 1..Len(s.steps) : s.steps[k].kind \in {"Copy", "Skip", "Prefix"}}
Until(s, k) ==
  IF s.steps[k].kind = "Prefix" THEN s.prefixes[s.steps[k].slot].end ELSE s.steps[k].to
Copies(s, k) ==
  \/ s.steps[k].kind = "Copy"
  \/ s.steps[k].kind = "Prefix" /\ s.prefixes[s.steps[k].slot].verbatim
\* What a step hands over that is not the source's.
Emits(s, k) ==
  IF s.steps[k].kind = "Prefix" THEN s.prefixes[s.steps[k].slot].tokens
  ELSE IF s.steps[k].kind = "Skip" THEN <<>> ELSE s.steps[k].tokens

View(from, to) == [i \in 1..to - from |-> <<"Byte", from + i - 1, 1>>]

Folding == fate = <<"Folding">>
Serves(k) == Folding /\ step = k /\ k \in 1..Len(script.steps)
Torn ==
  /\ fate' = <<"Torn">>
  /\ UNCHANGED <<script, total, walk, off, step, handed>>

\* A fresh walk stands at zero, whatever its length.
Rewinds ==
  /\ fate = <<"Measured">>
  /\ \E d \in Drifts : total + d >= 0 /\ walk' = total + d
  /\ off' = 0 /\ step' = 1 /\ handed' = <<>> /\ fate' = <<"Folding">>
  /\ UNCHANGED <<script, total>>

\* The provider lends some of the owed bytes; each view is handed on at once.
CopyView ==
  \E k \in Moves(script) :
    /\ Serves(k) /\ Copies(script, k) /\ off < walk
    /\ \E n \in 1..Until(script, k) - off :
         /\ off + n <= walk
         /\ off' = off + n
         /\ handed' = handed \o View(off, off + n)
         /\ step' = IF off + n = Until(script, k) THEN k + 1 ELSE k
    /\ UNCHANGED <<script, total, walk, fate>>

CopyFallsShort ==
  \E k \in Moves(script) : Serves(k) /\ Copies(script, k) /\ off = walk /\ Torn

\* A seek past the walk's end comes back short; a re-authored prefix is handed
\* over behind it.
Seek ==
  \E k \in Moves(script) :
    /\ Serves(k) /\ ~Copies(script, k)
    /\ IF Until(script, k) > walk THEN Torn
       ELSE /\ off' = Until(script, k) /\ step' = k + 1
            /\ handed' = handed \o Emits(script, k)
            /\ UNCHANGED <<script, total, walk, fate>>

Emit ==
  \E k \in (1..Len(script.steps)) \ Moves(script) :
    /\ Serves(k)
    /\ step' = k + 1 /\ handed' = handed \o Emits(script, k)
    /\ UNCHANGED <<script, total, walk, off, fate>>

\* Slip: the fold ends with its last step.
ProbeNothing ==
  /\ Folding /\ step = Len(script.steps) + 1
  /\ fate' = <<"Done">>
  /\ UNCHANGED <<script, total, walk, off, step, handed>>
\* One probe behind the last step: a walk that still holds bytes has grown.
Probe ==
  /\ Folding /\ step = Len(script.steps) + 1
  /\ IF off < walk THEN Torn
     ELSE /\ fate' = <<"Done">>
          /\ UNCHANGED <<script, total, walk, off, step, handed>>

\* The source refuses to rewind, to lend, to seek or to be probed. What was
\* handed over stands.
SourceRefuses ==
  /\ \/ fate = <<"Measured">>
     \/ Folding /\ (step \in Moves(script) \/ step = Len(script.steps) + 1)
  /\ fate' = <<"Source">>
  /\ UNCHANGED <<script, total, walk, off, step, handed>>

FoldNext ==
  Rewinds \/ CopyView \/ CopyFallsShort \/ Seek \/ Emit \/ Probe \/ SourceRefuses

-----------------------------------------------------------------------------
(* What the rewriter owes the fold: steps that each move the source forward  *)
(* and together end at the measured total.                                   *)
WellFormed(s, n) ==
  /\ n \in Nat /\ Len(s.steps) \in Nat
  /\ \A k \in Moves(s) : Until(s, k) \in 1..n
  /\ \A j, k \in Moves(s) : j < k => Until(s, j) < Until(s, k)
  /\ n = 0 \/ \E k \in Moves(s) : Until(s, k) = n

FoldInit ==
  /\ WellFormed(script, total)
  /\ walk = 0 /\ off = 0 /\ step = 1 /\ handed = <<>> /\ fate = <<"Measured">>
FoldSpec == FoldInit /\ [][FoldNext]_foldVars

(* A compiled script is well formed, a fold that ends has met a walk of the  *)
(* measured length, and one that reports a tear has met another              *)
(* (replay_script.rs:760-800).                                               *)
TearsAreReported ==
  /\ fate = <<"Measured">> => WellFormed(script, total)
  /\ fate = <<"Done">> => walk = total
  /\ fate = <<"Torn">> => walk # total
=============================================================================
