\* Every admitted path of up to three segments beside wildcard partners, and insert
\* rules on both sides of a gap, three containers deep.
SPECIFICATION Spec
CONSTANTS
  Fields <- ThreeFields
  Offered <- AllRules
  MaxPaths = 3
  MaxDepth = 3
  None = None
INVARIANTS TypeOK MarksNest LayerOrder DeliveriesAreExact WriteFoldIsExact PruningIsExact GapsAreExact
