\* Ordered delivery from a shared file handle, every failure possible.
SPECIFICATION FairSpec
CONSTANTS
  Threads = 2
  OptMaxReorder = 1
  OptMaxInFlight = 1
  Ordered = TRUE
  FileBacked = TRUE
  Strict = TRUE
  Allowance = 2
  BatchSizes = {1, 2, 3}
  MaxChunks = 4
  Faults = {"plan_err", "plan_panic", "chunk_err", "consumer_err", "consumer_panic"}
INVARIANTS
  TypeOK
  InOrderPrefix
  OkMeansComplete
  ReorderWindow
  RunAhead
  OwnBytes
  StrictLimitUnreachable
  ReorderBytesExact
PROPERTIES
  Termination
  ImplementsStream
