\* Two threads that run pipeline after pipeline share a cache of two entries.
SPECIFICATION Spec
CONSTANTS
  Runs = {r1, r2}
  Inputs <- SomeInputs
  Plans <- SomePlans
  SchemaCacheCap = 2
  FullScan = 4
  Windows = 2
  WindowBytes = 1
SYMMETRY Exchangeable
CHECK_DEADLOCK FALSE
INVARIANTS
  SchemaOfLayout
  CacheBounded
