------------------------------- MODULE Carry -------------------------------
(***************************************************************************)
(* The carry kernel (src/src/varint/carry.rs) and the pump's step faces    *)
(* (src/src/pump.rs): one primitive construct - a tag, a length word, a    *)
(* varint value, a fixed payload - reassembled across chunk boundaries and *)
(* bounded by the innermost sealed LEN endpoint.                           *)
(*                                                                         *)
(* A cursor is the record                                                  *)
(*   [off   |-> absolute stream offset,                                    *)
(*    chunk |-> the bytes of the fed chunk not consumed yet,               *)
(*    carry |-> [acc |-> the digits the resumable loop assembled,          *)
(*               buf |-> the construct's source bytes]]                    *)
(* so that one driver arm can step several times.  A varint's u64 is kept  *)
(* as its base-128 digits, least significant first: TLC's integers are     *)
(* narrower than the code's, and a digit is what a source byte carries.    *)
(***************************************************************************)
EXTENDS Naturals, Sequences

CONSTANTS
  TagWindow,     \* [cap, last]: widest tag, largest terminal byte at that width
  LenWindow,     \* the same of a length word
  ValueWindow    \* the same of a varint value

Byte == 0..255
Windows == [cap : 1..10, last : 0..127]

ASSUME WindowAssumption ==
  /\ TagWindow \in Windows /\ TagWindow.cap <= 5
  /\ LenWindow \in Windows /\ LenWindow.cap <= 5
  /\ ValueWindow \in Windows

Least(a, b) == IF a <= b THEN a ELSE b

EmptyCarry == [acc |-> << >>, buf |-> << >>]
CursorAt(off, chunk, carry) == [off |-> off, chunk |-> chunk, carry |-> carry]

Width(c) == Len(c.carry.buf)
ConstructStart(c) == c.off - Width(c)
\* Slip: only the accumulator is reset.
ClearAccOnly(c) == [c EXCEPT !.carry.acc = << >>]
Clear(c) == [c EXCEPT !.carry = EmptyCarry]

Digits(bytes) == [i \in 1..Len(bytes) |-> bytes[i] % 128]
Skip(chunk, n) == SubSeq(chunk, n + 1, Len(chunk))

----------------------------------------------------------------------------
(* Carry::step and Carry::step_resumable.                                  *)

\* The hot fold runs when nothing is held and the chunk covers the whole
\* window the domain cap and the seal leave visible.
Hot(c, w, zone) ==
  LET visible == Least(w.cap, zone - c.off)
  IN  Width(c) = 0 /\ 0 < visible /\ visible <= Len(c.chunk)

\* How many more bytes either loop may look at.
Room(c, w, zone) ==
  Least(w.cap - Width(c), Least(zone - c.off, Len(c.chunk)))

\* Both loops stop on the first terminal byte, or when the room is spent.
\* The set has exactly one member.
Taken(c, w, zone) ==
  {n \in 0..Room(c, w, zone) :
     /\ \A i \in 1..(n - 1) : c.chunk[i] >= 128
     /\ n = Room(c, w, zone) \/ (n > 0 /\ c.chunk[n] < 128)}

\* The bytes enter the buffer on both paths; only the resumable loop assembles
\* the accumulator.
Take(c, w, zone, n) ==
  LET bytes == SubSeq(c.chunk, 1, n)
  IN  [off   |-> c.off + n,
       chunk |-> Skip(c.chunk, n),
       carry |-> [buf |-> c.carry.buf \o bytes,
                  acc |-> IF Hot(c, w, zone) THEN c.carry.acc
                          ELSE c.carry.acc \o Digits(bytes)]]

\* c is the cursor before, d the cursor after n bytes were taken.
StepVerdict(c, d, w, zone, n) ==
  IF n > 0 /\ c.chunk[n] < 128
  THEN IF Width(d) = w.cap /\ c.chunk[n] > w.last THEN "OutOfClass" ELSE "Done"
  ELSE IF Width(d) = w.cap THEN "TooWide"
  ELSE IF d.off = zone THEN "Cut" ELSE "More"

\* The hot fold returns its local value, the resumable loop the accumulator.
StepValue(c, d, w, zone) ==
  IF Hot(c, w, zone) THEN Digits(d.carry.buf) ELSE d.carry.acc

----------------------------------------------------------------------------
(* What a completed word says.                                             *)

At(v, i) == IF i <= Len(v) THEN v[i] ELSE 0

\* The number of significant bits of a digit, and of a value.
DigitBits(d) == CHOOSE b \in 0..7 : 2^b > d /\ (b = 0 \/ 2^(b - 1) <= d)
TopDigit(v) == {i \in 1..Len(v) : v[i] # 0 /\ \A j \in (i + 1)..Len(v) : v[j] = 0}
BitWidth(v) ==
  IF TopDigit(v) = {} THEN 0
  ELSE LET i == CHOOSE i \in TopDigit(v) : TRUE IN 7 * (i - 1) + DigitBits(v[i])

\* Slip: whole groups of seven bits, which gives zero no byte at all.
EncodedLenOfGroups(v) == (BitWidth(v) + 6) \div 7

\* encoded_len32 / encoded_len64: the branchless minimal-width formula.
EncodedLen(v) == (BitWidth(v) * 9) \div 64 + 1

\* The u64 itself: its digits without redundant zeros at the top.
Value(v) == SubSeq(v, 1, EncodedLen(v))

\* Low3::from_word, FieldNumber::from_word (zero is no field) and the length.
HighDigits(v) == At(v, 2) + 128 * (At(v, 3) + 128 * (At(v, 4) + 128 * At(v, 5)))
Low3(v) == At(v, 1) % 8
FieldOf(v) == At(v, 1) \div 8 + 16 * HighDigits(v)
Length(v) == At(v, 1) + 128 * HighDigits(v)

----------------------------------------------------------------------------
(* The pump's spent step faces: a clean completion is cleared inside the   *)
(* step, a refused construct stays held for the fault's coordinate.        *)

Step(c, w, zone, standard) ==
  {LET d       == Take(c, w, zone, n)
       verdict == StepVerdict(c, d, w, zone, n)
       value   == StepValue(c, d, w, zone)
       padded  == standard = "CanonicalMinimal" /\ Width(d) # EncodedLen(value)
   IN  IF verdict # "Done" THEN [verdict |-> verdict, value |-> << >>, cursor |-> d]
       ELSE IF padded THEN [verdict |-> "NonMinimal", value |-> << >>, cursor |-> d]
       ELSE [verdict |-> "Done", value |-> value, cursor |-> Clear(d)]
   : n \in Taken(c, w, zone)}

\* Pump::grab_fixed: a fixed payload of `need` bytes.  A chunk that holds all of
\* it is read straight, past the seal if the seal were nearer; otherwise
\* Carry::collect takes what the seal and the chunk allow.
Collected(c, zone, need) ==
  LET straight == Width(c) = 0 /\ need <= Len(c.chunk)
      n == IF straight THEN need
           ELSE Least(need - Width(c), Least(zone - c.off, Len(c.chunk)))
  IN  [off   |-> c.off + n,
       chunk |-> Skip(c.chunk, n),
       carry |-> [c.carry EXCEPT !.buf = @ \o SubSeq(c.chunk, 1, n)]]
CollectVerdict(d, zone, need) ==
  IF Width(d) = need THEN "Done" ELSE IF d.off = zone THEN "Cut" ELSE "More"
=============================================================================
