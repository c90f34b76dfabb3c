CONSTANTS
  v1 = v1
  v2 = v2
  v3 = v3
  v4 = v4
  Addresses = {v1, v2, v3, v4}
  a = a
  b = b
  Names = {a, b}
  STARTING_CAPACITY = 1
  MayFail = TRUE
  NULL = NULL
SPECIFICATION Spec
SYMMETRY Symmetric
INVARIANTS TypeOK OneOwner NothingLeaks WithinCapacity NamesUnique
 
