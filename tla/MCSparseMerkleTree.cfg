\* eight slots, two transactions
CONSTANTS
  Depth = 3
  Hashes = {"t1", "t2"}
SPECIFICATION Spec
INVARIANTS RootIsDense ProofsAreExact
CHECK_DEADLOCK FALSE
