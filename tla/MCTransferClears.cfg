\* An edit inside a designated payload that its caller then clears.
SPECIFICATION TSpec
CONSTANTS
  Source <- OneMessage
  NextRecord <- Rec
  Words <- OneWord
  Payloads <- OnePayload
  Imports <- OneImport
  NewHead <- Heads
  Anchors = {"TailOf"}
  Withheld <- AllButClears
  MaxRows = 4
  MaxLog = 3
  MaxStore = 1
  Cap = 12
INVARIANT OrphansAreClean
