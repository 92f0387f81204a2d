\* x = 1 and y not in (1), put with resolve_and_put.
SPECIFICATION Spec
CONSTANTS
  Null = Null
  Configs <- OpenLeaf
INVARIANTS
  FilterExact
