\* Both machines over the pump. The parser: a sink that stops or unwinds at any
\* event, over fixed payloads inside LENs and out. The transcoder: a rule of every
\* verb. Both up to and past the end of the offset space.
SPECIFICATION StreamSpec
CONSTANTS
  TagWindow <- NarrowTag
  LenWindow <- NarrowLen
  ValueWindow <- NarrowValue
  Dialect = "grouped"
  Standard = "Tolerant"
  Depth = 2
  MaxOff = 10
  Ample = 60
  SinkAnswers = {"continue", "break", "unwind"}
  Dispositions = {"Commit", "OpaqueBytes", "OpaqueSkip"}
  Bytes = {5, 10, 13}
  MaxStream = 11
  MaxChunk = 4
  Streams <- Documents
  Injected <- Record
  Rewrites <- OneAndTwo
INVARIANTS TypeOK ZoneDiscipline NoUndefined TranscodeIsExact OutputReingests
PROPERTIES ProgressPerPass FeedReturns
