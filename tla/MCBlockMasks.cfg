\* Blocks of two registers of two bytes; up to three blocks.
SPECIFICATION Spec
CONSTANTS
  Width = 4
  Lane = 2
  Delims = {">", "q", "r"}
  QuoteSets <- Quoting
  Buffers <- Short
  Sentinel = 17
  AnyOf <- Sets
  None = None
  AnyOrder = FALSE
CHECK_DEADLOCK FALSE
INVARIANT AnswersExact
