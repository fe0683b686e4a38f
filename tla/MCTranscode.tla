----------------------------- MODULE MCTranscode -----------------------------
(***************************************************************************)
(* Constants of the run over both readers of the pump.                     *)
(***************************************************************************)
EXTENDS TranscodeReference

NarrowTag == [cap |-> 2, last |-> 1]
NarrowLen == [cap |-> 2, last |-> 1]
NarrowValue == [cap |-> 3, last |-> 1]

\* A varint record of field 3, and rewrites of one and of two bytes.
Record == <<24, 1>>
OneAndTwo == {<<1>>, <<2, 1>>}

Documents == {
  \* Nested groups with a LEN inside, and groups mismatched or left open.
  <<11, 19, 8, 1, 20, 10, 0, 12>>,
  <<11, 10, 2, 8, 1, 12, 8, 1>>,
  <<11, 13, 1, 2, 3, 4, 20>>, <<11, 19, 27, 28>>,
  \* Messages in messages, one level too many, and words a seal cuts.
  <<10, 4, 10, 2, 8, 1, 8, 2>>,
  <<10, 4, 10, 2, 10, 0>>,
  <<10, 4, 11, 8, 1, 12, 16, 0>>,
  <<10, 3, 8, 1, 8, 1>>, <<10, 1, 11, 12>>, <<10, 3, 13, 0, 0>>,
  \* Padded tags, lengths and values, a two-byte value, and a value too wide.
  <<136, 0, 129, 0, 10, 130, 0, 8, 1>>,
  <<10, 3, 8, 130, 1, 8, 128, 2>>,
  <<10, 4, 8, 130, 128, 0, 8>>, <<8, 128, 128, 2>>,
  \* Fixed payloads, and the end of the offset space.
  <<9, 1, 2, 3, 4, 5, 6, 7, 8>>,
  <<10, 5, 13, 1, 2, 3, 4, 8, 1>>,
  <<8, 1, 10, 6>>, <<8, 1, 8, 1, 8, 1, 8, 1, 8, 1>>,
  \* Opaque payloads of three bytes, no field, no wire type.
  <<10, 3, 7, 7, 7, 8, 1>>, <<8, 1, 0>>, <<14, 1>> }
=============================================================================
