\* A designated payload laid over a record with no place in the source.
SPECIFICATION TSpec
CONSTANTS
  Source <- OneMessage
  NextRecord <- Rec
  Words <- OneWord
  Payloads <- OnePayload
  Imports <- OneImport
  NewHead <- Heads
  Anchors = {"TailOf"}
  Withheld <- AllButFraming
  MaxRows = 4
  MaxLog = 3
  MaxStore = 1
  Cap = 12
INVARIANT FamiliesNeverMix
