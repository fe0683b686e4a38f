\* Insertions at every anchor, through shrouds and reopened interiors, over
\* payloads that scan and that do not, in the source and authored.
SPECIFICATION Spec
CONSTANTS
  Source <- MixedSource
  Payloads <- SomePayloads
  Words <- OneWord
  Bodies <- BodiesOf
  Scanned <- ScannedOf
  Broken = Broken
  MaxRows = 6
  MaxLayers = 4
  MaxLog = 3
  MaxStore = 1
INVARIANTS TypeOK ReadsAreExact FamiliesNeverMix AuthoredInteriorsBrowseOnly SlotsAreCurrent
PROPERTY CommandReturns
