\* Every short input of six formats, by every way to the parser.
SPECIFICATION Spec
CONSTANTS
  MaxSplitChunks = 4
  Window = 3
  Limit = 4
  CompactAfter = 2
  MaxRead = 2
  MaxChunks = 3
  Formats <- Checked
CHECK_DEADLOCK FALSE
INVARIANTS
  SplitKeepsRecords
  StreamKeepsRecords
  LimitExact
