\* The verdict machine against the parser, close to the end of the offset space.
SPECIFICATION Spec
CONSTANTS
  TagWindow <- NarrowTag
  LenWindow <- NarrowLen
  ValueWindow <- NarrowValue
  Standard = "CanonicalMinimal"
  MaxOff = 6
  Bytes = {0, 1, 8, 10, 11, 13, 15, 128}
  MaxStream = 7
  MaxChunk = 2
INVARIANT CutUnreachable
PROPERTY ImplementsParser
