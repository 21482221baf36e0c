\* six calm blocks, or four with anything; two receiving tasks at a time
CONSTANTS
  Interval = 2
  DepositBlock = 1
  MaxBlock = 6
  Receivers = {1,2}
  Profiles <- MCProfiles
SPECIFICATION Spec
INVARIANTS TypeOK SpendsLatest RowsAreTrue OneRowPerBlock
PROPERTIES WatchedUntilSent
CHECK_DEADLOCK FALSE
