\* Duplicate fields put with resolve_and_put.
SPECIFICATION Spec
CONSTANTS
  Null = Null
  Configs <- Duplicates
INVARIANTS
  LastWriteWins
