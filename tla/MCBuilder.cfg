\* Every path of the builder.
SPECIFICATION Spec
CONSTANTS
  Null = Null
  Configs <- Sound
INVARIANTS
  TypeOK
  Aligned
  TableExact
  RowsAccounted
  LossReported
PROPERTIES
  CommittedStable
