----------------------------- MODULE ReviseScan -----------------------------
(***************************************************************************)
(* scan_layer (src/src/revise/groupless.rs, the tolerant machine): one flat *)
(* layer of a byte window as the records it holds, or Broken.  The grammar *)
(* is the wire's with narrow windows: tags and scalars of one byte, length *)
(* prefixes of at most PrefixCap bytes, padding admitted.                  *)
(***************************************************************************)
EXTENDS Integers, Sequences

CONSTANTS PrefixCap, Broken

\* The length prefix at i: its value and width, or a width of 0.
RECURSIVE PrefixFrom(_, _, _)
PrefixFrom(bytes, i, taken) ==
  IF i > Len(bytes) \/ taken = PrefixCap THEN [v |-> 0, w |-> 0]
  ELSE IF bytes[i] < 128 THEN [v |-> bytes[i] * 128^taken, w |-> taken + 1]
  ELSE LET rest == PrefixFrom(bytes, i + 1, taken + 1)
       IN  [v |-> (bytes[i] % 128) * 128^taken + rest.v, w |-> rest.w]

TagKind(tag) ==
  CASE tag >= 128 \/ tag \div 8 = 0 -> "none"
    [] tag % 8 = 0 -> "Scalar"
    [] tag % 8 = 2 -> "Len"
    [] OTHER -> "none"

Record(kind, at, end, delim_w, body) ==
  [kind |-> kind, at |-> at, end |-> end, tag_w |-> 1, delim_w |-> delim_w, body |-> body]

\* The record whose tag follows the first at bytes, if it is whole.
RecordAt(bytes, at) ==
  LET kind == TagKind(bytes[at + 1])
      prefix == PrefixFrom(bytes, at + 2, 0)
      body == at + 1 + prefix.w
  IN  CASE kind = "Scalar" /\ at + 2 <= Len(bytes) /\ bytes[at + 2] < 128 ->
             <<Record(kind, at, at + 2, 0, << >>)>>
        [] kind = "Len" /\ prefix.w > 0 /\ body + prefix.v <= Len(bytes) ->
             <<Record(kind, at, body + prefix.v, prefix.w,
                      SubSeq(bytes, body + 1, body + prefix.v))>>
        [] OTHER -> << >>

RECURSIVE ScanFrom(_, _)
ScanFrom(bytes, at) ==
  IF at = Len(bytes) THEN << >>
  ELSE LET rec == RecordAt(bytes, at)
       IN  IF rec = << >> THEN Broken
           ELSE LET rest == ScanFrom(bytes, rec[1].end)
                IN  IF rest = Broken THEN Broken ELSE rec \o rest

ScanLayer(bytes) == ScanFrom(bytes, 0)
=============================================================================
