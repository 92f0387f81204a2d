\* Two chunks whose dictionaries are unified: the cells change.
SPECIFICATION Spec
CONSTANTS
  Null = Null
  WordBits = 2
  Configs <- Unifying
  FieldOrder <- Fields
CHECK_DEADLOCK FALSE
INVARIANTS
  UnificationKeepsCells
