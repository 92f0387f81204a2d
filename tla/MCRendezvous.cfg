\* The pull iterator with threads = 0: the caller's channel has no capacity.
SPECIFICATION ItSpec
CONSTANTS
  Threads = 0
  OptMaxReorder = 0
  OptMaxInFlight = 0
  Ordered = TRUE
  FileBacked = FALSE
  Strict = FALSE
  Allowance = 1
  BatchSizes = {1}
  MaxChunks = 3
  Faults = {"plan_err", "plan_panic", "chunk_err", "consumer_err"}
PROPERTIES
  NextReturns
  DropStops
