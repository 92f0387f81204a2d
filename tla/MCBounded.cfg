\* One reader of a bounded stream, with every failure.
SPECIFICATION FairSpec
CONSTANTS
  Budget = 256
  Strict = TRUE
  StrictTypes = TRUE
  Estimates = {0, 1, 3}
  Lengths = {1, 6, 9}
  MaxRows = 5
  Faults = {"start_err", "start_panic", "parse_err", "spill_err", "tail_panic"}
INVARIANTS
  TypeOK
  NoGap
  BatchBounded
PROPERTIES
  ImplementsRows
  NextReturns
  DropStops
