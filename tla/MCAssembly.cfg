\* Rows to batches by every path.
SPECIFICATION Spec
CONSTANTS
  Null = Null
  WordBits = 2
  Configs <- Checked
  FieldOrder <- Fields
CHECK_DEADLOCK FALSE
INVARIANTS
  RepresentationOK
  CellsKept
  ResultIsSerial
  ErrorsExact
PROPERTIES
  PrefixesUnify
