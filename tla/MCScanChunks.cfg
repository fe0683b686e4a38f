\* Groups, LENs of every disposition and fixed payloads, nested, mismatched and cut
\* anywhere, and words padded, too wide, out of class and cut by a seal, under the
\* minimal standard.
SPECIFICATION Spec
CONSTANTS
  TagWindow <- NarrowTag
  LenWindow <- NarrowLen
  ValueWindow <- NarrowValue
  Dialect = "grouped"
  Standard = "CanonicalMinimal"
  Depth = 2
  MaxOff = 40
  SinkAnswers = {"continue"}
  Dispositions = {"Commit", "OpaqueBytes", "OpaqueSkip"}
  Bytes = {0, 1, 2, 8, 10, 11, 12, 13, 20, 130}
  MaxStream = 6
  MaxChunk = 2
INVARIANTS ChunkingInvisible AccumulatorAgrees
