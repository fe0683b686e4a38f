\* Copies, moves, imports and their undo, and descents refused at every table.
SPECIFICATION TSpec
CONSTANTS
  Source <- OneMessage
  NextRecord <- Rec
  Words <- OneWord
  Payloads <- OnePayload
  Imports <- OneImport
  NewHead <- Heads
  Anchors = {"TailOf", "After"}
  Withheld <- All
  MaxRows = 4
  MaxLog = 2
  MaxStore = 1
  Cap = 12
INVARIANTS OrphansAreClean DescentsPublishWhole MovesUnwindWhole SaveIsExact
PROPERTY UndoIsExact
