\* A move into a container its caller then gives another payload.
SPECIFICATION TSpec
CONSTANTS
  Source <- OneMessage
  NextRecord <- Rec
  Words <- OneWord
  Payloads <- OnePayload
  Imports <- OneImport
  NewHead <- Heads
  Anchors = {"TailOf"}
  Withheld <- AllButMoves
  MaxRows = 4
  MaxLog = 3
  MaxStore = 1
  Cap = 12
INVARIANT OrphansAreClean
