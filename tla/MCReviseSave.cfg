\* Every order of edits, descents, flips and reverts: the marks and the log, and
\* saves over padded prefixes, clean runs, ghosts and both caps.
SPECIFICATION HSpec
CONSTANTS
  Source <- PaddedSource
  Payloads <- TwoPayloads
  Words <- OneWord
  Bodies <- BodiesOf
  Scanned <- ScannedOf
  ScanAgain <- ScanBytes
  HeadWord <- Heads
  Broken = Broken
  MaxRows = 6
  MaxLayers = 3
  MaxLog = 2
  MaxStore = 2
  Cap = 11
INVARIANTS Lattice LogNamesLiveRows OrphansAreClean LiveRowsAreHeld SavesTheDocument
PROPERTY UndoIsExact
