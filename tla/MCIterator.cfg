\* The pull iterator over two workers, batches as they
\* arrive, dropped at any time.
SPECIFICATION ItSpec
CONSTANTS
  Threads = 2
  OptMaxReorder = 0
  OptMaxInFlight = 4
  Ordered = FALSE
  FileBacked = FALSE
  Strict = FALSE
  Allowance = 1
  BatchSizes = {1}
  MaxChunks = 5
  Faults = {"plan_err", "plan_panic", "chunk_err", "consumer_err"}
INVARIANTS
  ItTypeOK
  DeliveredOnce
PROPERTIES
  CallerSeesStream
  NextReturns
  DropStops
